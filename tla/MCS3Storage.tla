---------------------------- MODULE MCS3Storage ----------------------------
(* Instances of S3Storage small enough for TLC.  A record of size 5 in a    *)
(* cache of 10 puts one record below the 90% mark and two at the capacity.  *)
(* Streams are interchangeable as long as no crash puts unconfirmed records *)
(* of several streams into the log in some order.                           *)
EXTENDS S3Storage, TLC

FirstStream == CHOOSE s \in Streams : TRUE

\* A small cache in front of a WAL that buffers one record and may fail.
Backpressure ==
  [walCacheSize |-> 10, walUploadThreshold |-> 5, uploadInterval |-> FALSE,
   maxUnflushed |-> 0, events |-> {"wal fails"},
   maxOffset |-> [s \in Streams |-> 2], maxEpoch |-> 1, maxLives |-> 1]

\* One stream, one record per block, crashes and failing uploads and commits.
Crashing ==
  [Backpressure EXCEPT
     !.walCacheSize = 20, !.maxUnflushed = 1,
     !.events = {"upload fails", "commit fails", "host commit"},
     !.maxOffset = [s \in Streams |-> IF s = FirstStream THEN 3 ELSE 0],
     !.maxEpoch = 2, !.maxLives = 3]

\* Two streams that share blocks are closed, with a crash.
Closing ==
  [Backpressure EXCEPT
     !.walCacheSize = 25, !.walUploadThreshold = 10, !.maxUnflushed = 1,
     !.events = {"close"},
     !.maxOffset = [s \in Streams |-> IF s = FirstStream THEN 2 ELSE 1], !.maxLives = 2]

\* Stream t alone and every other kind of failure, in one life of the node.
AnythingFails(t) ==
  [Backpressure EXCEPT
     !.uploadInterval = TRUE,
     !.events = {"prepare fails", "upload fails", "commit fails", "oversized record",
                 "force close", "shutdown"},
     !.maxOffset = [s \in Streams |-> IF s = t THEN 2 ELSE 0]]

\* Nothing fails, and the upload interval is on.
NothingFails ==
  [Backpressure EXCEPT
     !.uploadInterval = TRUE, !.events = {},
     !.maxOffset = [s \in Streams |-> 3]]

\* A prepare fails, and the node crashes once.
PrepareFailing ==
  [Backpressure EXCEPT
     !.walCacheSize = 25, !.maxUnflushed = 1, !.events = {"prepare fails"},
     !.maxOffset = [s \in Streams |-> 3], !.maxLives = 2]

OrderEnvironments == {Backpressure} \cup {AnythingFails(t) : t \in Streams}
LivesEnvironments == {Crashing, Closing}
QuietEnvironments == {NothingFails}
PrepareFailsEnvironments == {PrepareFailing}

StreamSymmetry == Permutations(Streams)
=============================================================================
