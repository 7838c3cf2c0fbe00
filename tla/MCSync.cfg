SPECIFICATION FairSpec
CONSTANT MaxMail = 2
INVARIANTS TypeOK NothingSkipped NoDoubleDownload
PROPERTIES CatchesUp
