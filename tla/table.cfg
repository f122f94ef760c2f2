\* Three keys: the acceptor inserts each once, the I/O thread does what it likes.
SPECIFICATION FairHashSpec
CONSTANT LastKey = 3
INVARIANTS HashTypeOK NoDanglingNode FreesWhatItDeletes AnswersAreTrue LockIsOwned 
PROPERTIES ActsAsSet EveryCallEnds
CHECK_DEADLOCK FALSE
