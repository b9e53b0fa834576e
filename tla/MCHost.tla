------------------------------- MODULE MCHost -------------------------------
(* The calls a host makes, for model checking: those of a reader that replays *)
(* another node's WAL and objects (SnapshotRead), and those of threads that   *)
(* share streams (StreamClient).  The two have no state in common, so that a  *)
(* behaviour has one of them at work, and the other at rest.                  *)
EXTENDS MCSnapshotRead, StreamClient

VARIABLE part

On(kind, h) == [kind |-> kind, h |-> h, from |-> 0, to |-> 0]
FetchOf(h, from, to) == [kind |-> "fetch", h |-> h, from |-> from, to |-> to]
TrimOf(h, to) == [kind |-> "trim", h |-> h, from |-> 0, to |-> to]
Owner(s, e) == [stream |-> s, epoch |-> e, snapshot |-> FALSE]
Reader(s) == [stream |-> s, epoch |-> 1, snapshot |-> TRUE]

\* Appends, some of them cancelled, fetches and a trim race with a close.
Racing ==
  [handles |-> <<Owner(1, 1)>>,
   programs |-> << <<On("open", 1), On("append", 1), On("append", 1), FetchOf(1, 1, 2)>>,
                   <<FetchOf(1, 0, 1), On("submit", 1), On("close", 1)>>,
                   <<TrimOf(1, 1), TrimOf(1, 0)>> >>,
   faults |-> {"cancel", "timeout"}]

\* Two streams, one of them reopened, are open or being opened at the shutdown.
Shutting ==
  [handles |-> <<Owner(1, 1), Owner(2, 1), Owner(1, 2)>>,
   programs |-> << <<On("open", 1), On("append", 1), On("close", 1), On("open", 3), On("append", 3)>>,
                   <<On("open", 2), On("submit", 2)>>,
                   <<On("shutdown", 1)>> >>,
   faults |-> {}]

\* The WAL fails under two streams; the handlers force them closed and halt.
Failing ==
  [handles |-> <<Owner(1, 1), Owner(2, 1)>>,
   programs |-> << <<On("open", 1), On("append", 1), On("append", 1)>>,
                   <<On("open", 2), On("submit", 2), On("close", 2)>>,
                   <<On("failure", 1)>> >>,
   faults |-> {"wal"}]

\* A snapshot read follows the commits and trims of the owner.
Following ==
  [handles |-> <<Owner(1, 1), Reader(1)>>,
   programs |-> << <<On("open", 1), On("append", 1), On("append", 1), TrimOf(1, 1)>>,
                   <<On("open", 2), FetchOf(2, 0, 1), FetchOf(2, 1, 2), On("append", 2), On("close", 2)>>,
                   <<TrimOf(2, 1), On("destroy", 2)>> >>,
   faults |-> {}]

\* A destroy and a close race, and another node may take the stream over.
Destroying ==
  [handles |-> <<Owner(1, 1)>>,
   programs |-> << <<On("open", 1), On("append", 1), On("destroy", 1)>>,
                   <<FetchOf(1, 0, 1), On("append", 1), On("close", 1)>>,
                   <<TrimOf(1, 1), On("force close", 1)>> >>,
   faults |-> {"fence", "timeout"}]

\* A stream is reopened in the same epoch, and two calls shut the client down.
Reopening ==
  [handles |-> <<Owner(1, 1), Owner(1, 1)>>,
   programs |-> << <<On("open", 1), On("append", 1), On("close", 1), On("open", 2), TrimOf(2, 1)>>,
                   <<FetchOf(1, 0, 1), On("shutdown", 1)>>,
                   <<On("force close", 1), On("shutdown", 1)>> >>,
   faults |-> {"timeout"}]

\* What the part at rest has to do.
NoPrograms == [handles |-> <<>>, programs |-> [t \in Threads |-> <<>>], faults |-> {}]
NoCalls == [calls |-> <<>>, faults |-> {}]

MCClientPlans == {NoPrograms, Racing, Shutting, Failing, Following, Destroying, Reopening}
HostCallPlans == {NoCalls} \union MCCallPlans

-----------------------------------------------------------------------------
HostInit ==
  /\ part \in {"replay", "client"}
  /\ Init /\ ClientInit
  /\ (part = "replay") <=> (plan = NoPrograms)
  /\ (part = "client") <=> (calls = NoCalls)

ReplayPart == part = "replay" /\ Next /\ UNCHANGED <<part, clientVars>>
ClientPart(A) == part = "client" /\ A /\ UNCHANGED <<part, vars>>

HostNext == ReplayPart \/ ClientPart(ClientNext)

HostVars == <<part, vars, clientVars>>

\* The fairness of StreamClient.
HostSpec ==
  /\ HostInit /\ [][HostNext]_HostVars
  /\ WF_HostVars(ClientPart(Ack))
  /\ \A t \in Threads : WF_HostVars(ClientPart(ThreadStep(t)))
=============================================================================
