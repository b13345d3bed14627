------------------------------- MODULE Bringup --------------------------------
(***************************************************************************)
(* How a cluster comes up on one host: gen_conf.py writes drg.conf and     *)
(* starts pvss-setup, for which it does not wait; pvss-setup draws keys    *)
(* and writes every replica's context in a file of its own; replicas and   *)
(* the client are started by hand, at any moment, end and start again.     *)
(* gen_conf.py may be run once more while all this goes on.                *)
(*                                                                         *)
(* drg.conf fits the buffer of its writer: it is empty from its opening to *)
(* its closing.  A context appears line by line; what is not whole ends    *)
(* the process that reads it, by an assertion of libff.  What pvss-setup   *)
(* writes after the contexts nobody reads.                                 *)
(***************************************************************************)
EXTENDS DrgConfig

CONSTANT MaxRuns     \* bound: how often gen_conf.py is run

ASSUME RunsAssumption == MaxRuns \in Nat

VARIABLES
  runs,         \* how often gen_conf.py was started
  conf,         \* drg.conf: none, empty or whole
  setups,       \* of each pvss-setup: how many contexts are closed, and whether
                \* the next is open
  context,      \* pvss-sec*.conf: the run that opened or closed it last (0: there
                \* is no file), whether it is whole, and whether two have it open
  overlapped,   \* history: two pvss-setups ran at a time
  stage,        \* how far a process is
  keys          \* a replica's keys: the run that drew them, 0 before they are read

hostVars == <<runs, conf, setups, context, overlapped, stage, keys>>
generation == <<runs, conf, setups, context, overlapped>>

Client  == N
Process == ReplicaID \cup {Client}

\* Ports, from 20000 on: the client listens on that of replica 1, whatever
\* drg.conf says.
ListenAddr(p) == IF p = Client THEN 1 ELSE p

\* Mutant: the loop leaves out the last replica.
BusyButLast(r) == setups[r].closed < N - 1
Busy(r)    == setups[r].closed < N
IsOpen(i)  == \E r \in DOMAIN setups : setups[r].open /\ setups[r].closed = i
Running(p) == stage[p] = "running"
Bound(a)   == \E p \in Process : Running(p) /\ ListenAddr(p) = a

-----------------------------------------------------------------------------
HostInit ==
  /\ runs = 0
  /\ conf = "none"
  /\ setups = <<>>
  /\ context = [i \in ReplicaID |-> [run |-> 0, whole |-> FALSE, shared |-> FALSE]]
  /\ overlapped = FALSE
  /\ stage = [p \in Process |-> "down"]
  /\ keys = [p \in ReplicaID |-> 0]

\* gen_conf.py, one run after the other: the file is opened and truncated,
OpenConf ==
  /\ runs < MaxRuns
  /\ DOMAIN setups = 1 .. runs
  /\ conf # "empty"
  /\ runs' = runs + 1
  /\ conf' = "empty"
  /\ UNCHANGED <<setups, context, overlapped, stage, keys>>

\* pvss-setup started,
Popen ==
  /\ DOMAIN setups # 1 .. runs
  /\ setups' = [r \in 1 .. runs |-> IF r \in DOMAIN setups THEN setups[r]
                                    ELSE [closed |-> 0, open |-> FALSE]]
  /\ overlapped' = (overlapped \/ \E r \in DOMAIN setups : Busy(r))
  /\ UNCHANGED <<runs, conf, context, stage, keys>>

\* and the file written, when the script ends.
CloseConf ==
  /\ conf = "empty"
  /\ DOMAIN setups = 1 .. runs
  /\ conf' = "whole"
  /\ UNCHANGED <<runs, setups, context, overlapped, stage, keys>>

OpenContext(r) ==
  LET i == setups[r].closed
  IN  /\ Busy(r) /\ ~ setups[r].open
      /\ setups' = [setups EXCEPT ![r].open = TRUE]
      /\ context' = [context EXCEPT ![i] =
                       [run |-> r, whole |-> FALSE, shared |-> IsOpen(i)]]
      /\ UNCHANGED <<runs, conf, overlapped, stage, keys>>

\* Two that wrote one file may leave a mixture of both.
CloseContext(r) ==
  LET i == setups[r].closed
  IN  /\ Busy(r) /\ setups[r].open
      /\ setups' = [setups EXCEPT ![r] = [closed |-> i + 1, open |-> FALSE]]
      /\ \E whole \in BOOLEAN :
           /\ whole \/ context[i].shared
           /\ context' = [context EXCEPT ![i].run = r, ![i].whole = whole]
      /\ UNCHANGED <<runs, conf, overlapped, stage, keys>>

\* Mutant: a context that is there from an earlier run stays as it is.
SetupKeepingFiles(r) ==
  \/ Busy(r) /\ ~ context[setups[r].closed].whole /\ OpenContext(r)
  \/ CloseContext(r)
  \/ /\ Busy(r) /\ ~ setups[r].open /\ context[setups[r].closed].whole
     /\ setups' = [setups EXCEPT ![r].closed = @ + 1]
     /\ UNCHANGED <<runs, conf, context, overlapped, stage, keys>>

Setup(r) == OpenContext(r) \/ CloseContext(r)

-----------------------------------------------------------------------------
\* A process that fails is down again.
Enter(p, ok, next) == stage' = [stage EXCEPT ![p] = IF ok THEN next ELSE "down"]

\* replicas[idx] needs the list.
ReadConf(p) ==
  /\ stage[p] = "down"
  /\ conf = "whole"
  /\ Enter(p, TRUE, "configured")
  /\ UNCHANGED <<generation, keys>>

\* Mutant: a file that is there is taken to be whole.
ReadContextThere(p) ==
  /\ stage[p] = "configured"
  /\ LET ok == context[p].run # 0
     IN  /\ Enter(p, ok, "loaded")
         /\ keys' = [keys EXCEPT ![p] = IF ok THEN context[p].run ELSE 0]
  /\ UNCHANGED generation

\* The file is missing, or ends before all is read; in both cases the process ends.
ReadContext(p) ==
  /\ stage[p] = "configured"
  /\ LET ok == context[p].whole
     IN  /\ Enter(p, ok, "loaded")
         /\ keys' = [keys EXCEPT ![p] = IF ok THEN context[p].run ELSE 0]
  /\ UNCHANGED generation

\* pn.listen throws if the address is taken.
Listen(p) ==
  /\ stage[p] = IF p = Client THEN "down" ELSE "loaded"
  /\ Enter(p, ~ Bound(ListenAddr(p)), "running")
  /\ keys' = IF p = Client \/ ~ Bound(ListenAddr(p)) THEN keys
             ELSE [keys EXCEPT ![p] = 0]
  /\ UNCHANGED generation

Stop(p) ==
  /\ stage[p] # "down"
  /\ Enter(p, FALSE, "down")
  /\ keys' = IF p = Client THEN keys ELSE [keys EXCEPT ![p] = 0]
  /\ UNCHANGED generation

Start(p) == Listen(p) \/ (p # Client /\ (ReadConf(p) \/ ReadContext(p)))

HostNext ==
  \/ OpenConf \/ Popen \/ CloseConf
  \/ \E r \in DOMAIN setups : Setup(r)
  \/ \E p \in Process : Start(p) \/ Stop(p)

\* A pvss-setup that was started goes on to its end.
HostFairness == \A r \in 1 .. MaxRuns : WF_hostVars(r \in DOMAIN setups /\ Setup(r))

HostSpec == HostInit /\ [][HostNext]_hostVars /\ HostFairness

-----------------------------------------------------------------------------
HostTypeOK ==
  /\ runs \in 0 .. MaxRuns
  /\ conf \in {"none", "empty", "whole"}
  /\ \E k \in {runs, runs - 1} : setups \in [1 .. k -> [closed : 0 .. N, open : BOOLEAN]]
  /\ context \in [ReplicaID -> [run : 0 .. runs, whole : BOOLEAN, shared : BOOLEAN]]
  /\ stage \in [Process -> {"down", "configured", "loaded", "running"}]
  /\ keys \in [ReplicaID -> 0 .. runs]
  /\ overlapped \in BOOLEAN
  /\ \A p \in ReplicaID : keys[p] # 0 <=> stage[p] \in {"loaded", "running"}

Newest(r) == r \in DOMAIN setups /\ \A q \in DOMAIN setups : q <= r

Idle == \A r \in DOMAIN setups : ~ Busy(r)

\* Unless gen_conf.py was run again before its last pvss-setup had ended, the
\* contexts that lie there when none is under way are all whole and of one
\* drawing of keys, the last.  Nothing in the code waits or locks: with the
\* overlap, they need not be.
OneSetupsKeys ==
  Idle /\ DOMAIN setups # {} /\ ~ overlapped =>
    \A i \in ReplicaID : context[i].whole /\ Newest(context[i].run)

\* What a replica has read, at whatever moment, was written to the end.
KeysAreWhole ==
  \A p \in ReplicaID :
    keys[p] # 0 => keys[p] \in DOMAIN setups /\ setups[keys[p]].closed > p

\* The last run of gen_conf.py was r, and all that it started has ended.
Done(r) == runs = r /\ DOMAIN setups = 1 .. r /\ Idle /\ ~ overlapped

\* A replica keeps the keys it has read when gen_conf.py is run again, and runs on
\* with them beside others that have newer ones.  What ends that is a restart after
\* pvss-setup is done: a replica that has no keys then has, from that moment on and
\* however often it ends and starts, none or those of the last run, until another
\* run begins.  So replicas that were all restarted since, in any order, agree.
RestartedHasNewest ==
  \A r \in 1 .. MaxRuns, p \in ReplicaID :
    [](Done(r) /\ keys[p] = 0 => [](Done(r) => keys[p] \in {0, r}))

\* After each run of gen_conf.py there comes a time when every replica's context can
\* be read, unless another run came between.
ContextsArrive ==
  \A r \in 1 .. MaxRuns :
    r \in DOMAIN setups ~> overlapped \/ \A i \in ReplicaID : context[i].whole

=============================================================================
