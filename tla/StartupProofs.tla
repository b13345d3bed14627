----------------------------- MODULE StartupProofs -----------------------------
(***************************************************************************)
(* How a cluster comes up, for every number of replicas: the files of its  *)
(* keys for any number of runs of gen_conf.py (Bringup), which a replica   *)
(* can have read and when they all are of one drawing; then the start-up   *)
(* of a replica's process for every list of addresses and any number of    *)
(* messages (DrgBase), the lists that start() builds and what may reach    *)
(* the core while it builds them.  The two have no state in common.        *)
(***************************************************************************)
EXTENDS Bringup, DrgBase, TLAPS

-----------------------------------------------------------------------------
(* Bringup: the invariant.                                                 *)

OpenIsBusy == \A r \in DOMAIN setups : setups[r].open => Busy(r)

\* What is whole was closed by the run it is of.
WholeIsWritten ==
  \A i \in ReplicaID :
    context[i].whole =>
      context[i].run \in DOMAIN setups /\ setups[context[i].run].closed > i

\* A run that is alone finds what it closed as it left it.
Closed(r) ==
  \A i \in ReplicaID :
    /\ i < setups[r].closed => context[i].whole /\ context[i].run = r
    /\ i = setups[r].closed /\ setups[r].open => ~ context[i].shared

\* One run after the other: only the newest is under way.
Sequential ==
  ~ overlapped =>
    \A r \in DOMAIN setups : (Busy(r) => Newest(r)) /\ (Newest(r) => Closed(r))

HostInv ==
  /\ HostTypeOK
  /\ OpenIsBusy
  /\ WholeIsWritten
  /\ KeysAreWhole
  /\ Sequential

\* The types, in the form in which the steps use them.
LEMMA HostTypes ==
  ASSUME HostTypeOK
  PROVE  /\ N \in Nat \ {0}
         /\ runs \in Nat
         /\ DOMAIN setups \subseteq 1 .. runs
         /\ DOMAIN setups \in {1 .. runs, 1 .. runs - 1}
         /\ \A r \in DOMAIN setups :
              setups[r] \in [closed : 0 .. N, open : BOOLEAN]
         /\ setups = [r \in DOMAIN setups |-> setups[r]]
         /\ context \in [ReplicaID -> [run : 0 .. runs, whole : BOOLEAN, shared : BOOLEAN]]
<1>1. PICK k \in {runs, runs - 1} : setups \in [1 .. k -> [closed : 0 .. N, open : BOOLEAN]]
  BY DEF HostTypeOK
<1>2. runs \in Nat
  BY RunsAssumption DEF HostTypeOK
<1>3. DOMAIN setups = 1 .. k
  BY <1>1
<1>4. DOMAIN setups \subseteq 1 .. runs /\ DOMAIN setups \in {1 .. runs, 1 .. runs - 1}
  BY <1>1, <1>2, <1>3
<1> QED BY <1>1, <1>2, <1>3, <1>4, NAssumption DEF HostTypeOK

LEMMA HostInitInv == HostInit => HostInv
<1> SUFFICES ASSUME HostInit PROVE HostInv
  OBVIOUS
<1>1. setups \in [1 .. 0 -> [closed : 0 .. N, open : BOOLEAN]] /\ DOMAIN setups = {}
  BY DEF HostInit
<1>2. HostTypeOK
  <2>1. \E k \in {runs, runs - 1} : setups \in [1 .. k -> [closed : 0 .. N, open : BOOLEAN]]
    BY <1>1 DEF HostInit
  <2>2. runs \in 0 .. MaxRuns /\ 0 \in 0 .. runs
    BY RunsAssumption DEF HostInit
  <2> QED BY <2>1, <2>2, NAssumption DEF HostInit, HostTypeOK, ReplicaID, Process, Client
<1> QED BY <1>1, <1>2 DEF HostInit, HostInv, OpenIsBusy, WholeIsWritten, KeysAreWhole, Sequential

-----------------------------------------------------------------------------
(* gen_conf.py.                                                            *)

LEMMA ConfInv == ASSUME HostInv, OpenConf \/ CloseConf PROVE HostInv'
<1>1. /\ runs \in Nat /\ runs' \in {runs, runs + 1} /\ runs' \in 0 .. MaxRuns
      /\ conf' \in {"none", "empty", "whole"}
      /\ UNCHANGED <<setups, context, overlapped, stage, keys>>
      /\ runs' = runs + 1 => DOMAIN setups = 1 .. runs
  BY HostTypes, RunsAssumption DEF HostInv, HostTypeOK, OpenConf, CloseConf
<1>2. \E k \in {runs', runs' - 1} : setups \in [1 .. k -> [closed : 0 .. N, open : BOOLEAN]]
  <2>1. PICK k \in {runs, runs - 1} :
          setups \in [1 .. k -> [closed : 0 .. N, open : BOOLEAN]]
    BY DEF HostInv, HostTypeOK
  <2>2. CASE runs' = runs
    BY <2>1, <2>2
  <2>3. CASE runs' = runs + 1
    <3>1. setups \in [1 .. runs -> [closed : 0 .. N, open : BOOLEAN]]
      BY <1>1, <2>1, <2>3
    <3> QED BY <3>1, <2>3, <1>1
  <2> QED BY <1>1, <2>2, <2>3
<1>3. 0 .. runs \subseteq 0 .. runs'
  BY <1>1
<1>4. HostTypeOK'
  BY <1>1, <1>2, <1>3 DEF HostInv, HostTypeOK
<1> QED
  BY <1>1, <1>4 DEF HostInv, OpenIsBusy, WholeIsWritten, KeysAreWhole, Sequential, Busy,
    Newest, Closed

\* A new run has closed nothing.  If another is under way the two overlap.
LEMMA PopenInv == ASSUME HostInv, Popen PROVE HostInv'
<1> DEFINE new == [closed |-> 0, open |-> FALSE]
<1>1. /\ runs \in Nat \ {0} /\ DOMAIN setups = 1 .. runs - 1 /\ N \in Nat
      /\ \A r \in DOMAIN setups : setups[r] \in [closed : 0 .. N, open : BOOLEAN]
  BY HostTypes DEF HostInv, Popen
<1>2. /\ DOMAIN setups' = 1 .. runs
      /\ \A r \in DOMAIN setups : setups'[r] = setups[r]
      /\ setups'[runs] = new
      /\ UNCHANGED <<runs, conf, context, stage, keys>>
  BY <1>1 DEF Popen
<1>3. HostTypeOK'
  <2>1. setups' \in [1 .. runs -> [closed : 0 .. N, open : BOOLEAN]]
    BY <1>1 DEF Popen
  <2>2. overlapped' \in BOOLEAN
    BY DEF Popen
  <2> QED BY <1>2, <2>1, <2>2 DEF HostInv, HostTypeOK
<1>4. (OpenIsBusy /\ WholeIsWritten /\ KeysAreWhole)'
  BY <1>1, <1>2 DEF HostInv, OpenIsBusy, WholeIsWritten, KeysAreWhole, Busy
<1>5. Sequential'
  <2> SUFFICES ASSUME ~ overlapped', NEW r \in 1 .. runs
               PROVE  (Busy(r)' => Newest(r)') /\ (Newest(r)' => Closed(r)')
    BY <1>2 DEF Sequential
  <2>1. \A q \in DOMAIN setups : ~ Busy(q)
    BY DEF Popen
  <2>2. Newest(r)' <=> r = runs
    BY <1>1, <1>2 DEF Newest
  <2>3. Busy(r)' => r = runs
    BY <1>1, <1>2, <2>1 DEF Busy
  <2>4. r = runs => Closed(r)'
    BY <1>1, <1>2 DEF Closed, ReplicaID
  <2> QED BY <2>2, <2>3, <2>4
<1> QED BY <1>3, <1>4, <1>5 DEF HostInv

-----------------------------------------------------------------------------
(* pvss-setup.                                                             *)

LEMMA OpenContextInv ==
  ASSUME HostInv, NEW r \in DOMAIN setups, OpenContext(r)
  PROVE  HostInv'
<1> DEFINE i == setups[r].closed
<1>1. /\ N \in Nat /\ runs \in Nat /\ DOMAIN setups \subseteq 1 .. runs
      /\ \A q \in DOMAIN setups : setups[q] \in [closed : 0 .. N, open : BOOLEAN]
      /\ context \in [ReplicaID -> [run : 0 .. runs, whole : BOOLEAN, shared : BOOLEAN]]
  BY HostTypes DEF HostInv
<1>2. /\ i \in ReplicaID /\ ~ setups[r].open /\ Busy(r)
      /\ UNCHANGED <<runs, conf, overlapped, stage, keys>>
  BY <1>1 DEF OpenContext, Busy, ReplicaID
<1>3. /\ DOMAIN setups' = DOMAIN setups
      /\ \A q \in DOMAIN setups : setups'[q].closed = setups[q].closed
      /\ \A q \in DOMAIN setups \ {r} : setups'[q] = setups[q]
      /\ setups'[r] = [closed |-> i, open |-> TRUE]
  BY <1>1 DEF OpenContext
<1>4. /\ context'[i] = [run |-> r, whole |-> FALSE, shared |-> IsOpen(i)]
      /\ \A j \in ReplicaID \ {i} : context'[j] = context[j]
  BY <1>1, <1>2 DEF OpenContext
<1>5. HostTypeOK'
  <2>1. PICK k \in {runs, runs - 1} :
          setups \in [1 .. k -> [closed : 0 .. N, open : BOOLEAN]]
    BY DEF HostInv, HostTypeOK
  <2>2. setups' \in [1 .. k -> [closed : 0 .. N, open : BOOLEAN]]
    BY <2>1 DEF OpenContext
  <2>3. [run |-> r, whole |-> FALSE, shared |-> IsOpen(i)]
          \in [run : 0 .. runs, whole : BOOLEAN, shared : BOOLEAN]
    BY <1>1 DEF IsOpen
  <2>4. context' \in [ReplicaID -> [run : 0 .. runs, whole : BOOLEAN, shared : BOOLEAN]]
    BY <1>1, <1>2, <2>3 DEF OpenContext
  <2> QED BY <1>2, <2>2, <2>4 DEF HostInv, HostTypeOK
<1>6. (OpenIsBusy /\ WholeIsWritten /\ KeysAreWhole)'
  BY <1>1, <1>2, <1>3, <1>4 DEF HostInv, OpenIsBusy, WholeIsWritten, KeysAreWhole, Busy
<1>7. Sequential'
  <2> SUFFICES ASSUME ~ overlapped
               PROVE  \A q \in DOMAIN setups :
                        (Busy(q)' => Newest(q)') /\ (Newest(q)' => Closed(q)')
    BY <1>2, <1>3 DEF Sequential
  <2>1. Newest(r)
    BY <1>2 DEF HostInv, Sequential
  <2>2. ~ IsOpen(i)
    BY <1>1, <1>2, <2>1 DEF HostInv, IsOpen, OpenIsBusy, Sequential, Newest
  <2>3. Closed(r)'
    BY <1>1, <1>2, <1>3, <1>4, <2>1, <2>2 DEF HostInv, Sequential, Closed, ReplicaID
  <2>4. \A q \in DOMAIN setups : Newest(q) => q = r
    BY <1>1, <2>1 DEF Newest
  <2> QED BY <1>3, <2>1, <2>3, <2>4 DEF HostInv, Sequential, Busy, Newest
<1> QED BY <1>5, <1>6, <1>7 DEF HostInv

LEMMA CloseContextInv ==
  ASSUME HostInv, NEW r \in DOMAIN setups, CloseContext(r)
  PROVE  HostInv'
<1> DEFINE i == setups[r].closed
<1>1. /\ N \in Nat /\ runs \in Nat /\ DOMAIN setups \subseteq 1 .. runs
      /\ \A q \in DOMAIN setups : setups[q] \in [closed : 0 .. N, open : BOOLEAN]
      /\ context \in [ReplicaID -> [run : 0 .. runs, whole : BOOLEAN, shared : BOOLEAN]]
  BY HostTypes DEF HostInv
<1>2. /\ i \in ReplicaID /\ i < N /\ setups[r].open /\ Busy(r)
      /\ UNCHANGED <<runs, conf, overlapped, stage, keys>>
  BY <1>1 DEF CloseContext, Busy, ReplicaID
<1>3. /\ DOMAIN setups' = DOMAIN setups
      /\ \A q \in DOMAIN setups \ {r} : setups'[q] = setups[q]
      /\ setups'[r] = [closed |-> i + 1, open |-> FALSE]
  BY <1>1 DEF CloseContext
<1>4. PICK whole \in BOOLEAN :
        /\ whole \/ context[i].shared
        /\ context' = [context EXCEPT ![i].run = r, ![i].whole = whole]
  BY DEF CloseContext
<1>5. /\ context'[i].run = r /\ context'[i].whole = whole
      /\ \A j \in ReplicaID \ {i} : context'[j] = context[j]
  BY <1>1, <1>2, <1>4
<1>6. HostTypeOK'
  <2>1. PICK k \in {runs, runs - 1} :
          setups \in [1 .. k -> [closed : 0 .. N, open : BOOLEAN]]
    BY DEF HostInv, HostTypeOK
  <2>2. [closed |-> i + 1, open |-> FALSE] \in [closed : 0 .. N, open : BOOLEAN]
    BY <1>1, <1>2 DEF ReplicaID
  <2>3. setups' \in [1 .. k -> [closed : 0 .. N, open : BOOLEAN]]
    BY <2>1, <2>2 DEF CloseContext
  <2>4. context' \in [ReplicaID -> [run : 0 .. runs, whole : BOOLEAN, shared : BOOLEAN]]
    BY <1>1, <1>2, <1>4
  <2> QED BY <1>2, <2>3, <2>4 DEF HostInv, HostTypeOK
<1>7. \A q \in DOMAIN setups : setups'[q].closed >= setups[q].closed
  BY <1>1, <1>3
<1>8. (OpenIsBusy /\ WholeIsWritten /\ KeysAreWhole)'
  <2>1. OpenIsBusy'
    BY <1>3 DEF HostInv, OpenIsBusy, Busy
  <2>2. WholeIsWritten'
    <3> SUFFICES ASSUME NEW j \in ReplicaID, context'[j].whole
                 PROVE  context'[j].run \in DOMAIN setups
                        /\ setups'[context'[j].run].closed > j
      BY <1>3 DEF WholeIsWritten
    <3>1. CASE j = i
      BY <3>1, <1>1, <1>3, <1>5
    <3>2. CASE j # i
      <4>1. /\ context[j].run \in DOMAIN setups
            /\ setups[context[j].run].closed > j
        BY <3>2, <1>5 DEF HostInv, WholeIsWritten
      <4> QED BY <4>1, <3>2, <1>1, <1>3, <1>5, <1>7 DEF ReplicaID
    <3> QED BY <3>1, <3>2
  <2>3. KeysAreWhole'
    <3> SUFFICES ASSUME NEW p \in ReplicaID, keys[p] # 0
                 PROVE  keys[p] \in DOMAIN setups /\ setups'[keys[p]].closed > p
      BY <1>2, <1>3 DEF KeysAreWhole
    <3>1. keys[p] \in DOMAIN setups /\ setups[keys[p]].closed > p
      BY DEF HostInv, KeysAreWhole
    <3> QED BY <3>1, <1>1, <1>2, <1>3 DEF ReplicaID
  <2> QED BY <2>1, <2>2, <2>3
<1>9. Sequential'
  <2> SUFFICES ASSUME ~ overlapped
               PROVE  \A q \in DOMAIN setups :
                        (Busy(q)' => Newest(q)') /\ (Newest(q)' => Closed(q)')
    BY <1>2, <1>3 DEF Sequential
  <2>1. Newest(r) /\ Closed(r)
    BY <1>2 DEF HostInv, Sequential
  <2>2. whole = TRUE
    BY <1>2, <1>4, <2>1 DEF Closed
  <2>3. Closed(r)'
    <3> SUFFICES ASSUME NEW j \in ReplicaID, j < i + 1
                 PROVE  context'[j].whole /\ context'[j].run = r
      BY <1>3 DEF Closed
    <3>1. CASE j = i
      BY <3>1, <1>5, <2>2
    <3>2. CASE j < i
      BY <3>2, <1>2, <1>5, <2>1 DEF Closed, ReplicaID
    <3> QED BY <3>1, <3>2, <1>2 DEF ReplicaID
  <2>4. \A q \in DOMAIN setups : Newest(q) => q = r
    BY <1>1, <2>1 DEF Newest
  <2> QED BY <1>2, <1>3, <2>1, <2>3, <2>4 DEF HostInv, Sequential, Busy, Newest
<1> QED BY <1>6, <1>8, <1>9 DEF HostInv

-----------------------------------------------------------------------------
(* Replicas and the client.                                                *)

\* What a replica's keys become when it enters a stage: those that are there, none,
\* or the ones in its file, which is whole.
KeysKept(p, next) ==
  \E k \in 0 .. runs :
    /\ keys' = [keys EXCEPT ![p] = k]
    /\ k # 0 <=> next \in {"loaded", "running"}
    /\ k \in {0, keys[p]} \/ (context[p].whole /\ k = context[p].run)

\* A process changes its own stage, and a replica its keys with it.
LEMMA ProcessStep ==
  ASSUME HostInv, NEW p \in Process, Start(p) \/ Stop(p)
  PROVE  /\ UNCHANGED generation
         /\ \E next \in {"down", "configured", "loaded", "running"} :
              /\ stage' = [stage EXCEPT ![p] = next]
              /\ p = Client => keys' = keys
              /\ p # Client => KeysKept(p, next)
<1> USE DEF Enter
<1>1. /\ keys \in [ReplicaID -> 0 .. runs] /\ runs \in Nat
      /\ \A q \in ReplicaID : keys[q] # 0 <=> stage[q] \in {"loaded", "running"}
      /\ p # Client => p \in ReplicaID
  BY HostTypes DEF HostInv, HostTypeOK, Process
<1>2. CASE p # Client /\ ReadConf(p)
  <2>1. keys[p] = 0 /\ keys' = [keys EXCEPT ![p] = 0] /\ 0 \in 0 .. runs
    BY <1>1, <1>2 DEF ReadConf
  <2>2. KeysKept(p, "configured")
    BY <2>1 DEF KeysKept
  <2> QED BY <1>2, <2>2 DEF ReadConf
<1>3. CASE p # Client /\ ReadContext(p)
  <2>1. CASE context[p].whole
    <3>1. context[p].run \in DOMAIN setups /\ DOMAIN setups \subseteq 1 .. runs
      BY <1>1, <1>3, <2>1, HostTypes DEF HostInv, WholeIsWritten
    <3>2. context[p].run \in 0 .. runs /\ context[p].run # 0
      BY <3>1
    <3>3. KeysKept(p, "loaded")
      BY <1>3, <2>1, <3>2 DEF ReadContext, KeysKept
    <3> QED BY <1>3, <2>1, <3>3 DEF ReadContext
  <2>2. CASE ~ context[p].whole
    <3>1. KeysKept(p, "down")
      BY <1>1, <1>3, <2>2 DEF ReadContext, KeysKept
    <3> QED BY <1>3, <2>2, <3>1 DEF ReadContext
  <2> QED BY <2>1, <2>2
<1>4. CASE Listen(p)
  <2>1. CASE p = Client
    BY <1>4, <2>1 DEF Listen
  <2>2. CASE p # Client /\ Bound(ListenAddr(p))
    <3>1. KeysKept(p, "down")
      <4>1. keys' = [keys EXCEPT ![p] = 0] /\ 0 \in 0 .. runs
        BY <1>1, <1>4, <2>2 DEF Listen
      <4> QED BY <4>1 DEF KeysKept
    <3> QED BY <1>4, <2>2, <3>1 DEF Listen
  <2>3. CASE p # Client /\ ~ Bound(ListenAddr(p))
    <3>1. keys[p] # 0 /\ keys[p] \in 0 .. runs
      BY <1>1, <1>4, <2>3 DEF Listen
    <3>2. keys' = [keys EXCEPT ![p] = keys[p]]
      BY <1>1, <1>4, <2>3 DEF Listen
    <3>3. KeysKept(p, "running")
      BY <3>1, <3>2 DEF KeysKept
    <3> QED BY <1>4, <2>3, <3>3 DEF Listen
  <2> QED BY <2>1, <2>2, <2>3
<1>5. CASE Stop(p)
  <2>1. CASE p = Client
    BY <1>5, <2>1 DEF Stop
  <2>2. CASE p # Client
    <3>1. KeysKept(p, "down")
      <4>1. keys' = [keys EXCEPT ![p] = 0] /\ 0 \in 0 .. runs
        BY <1>1, <1>5, <2>2 DEF Stop
      <4> QED BY <4>1 DEF KeysKept
    <3> QED BY <1>5, <2>2, <3>1 DEF Stop
  <2> QED BY <2>1, <2>2
<1> QED BY <1>2, <1>3, <1>4, <1>5 DEF Start

LEMMA ProcessInv ==
  ASSUME HostInv, NEW p \in Process, Start(p) \/ Stop(p)
  PROVE  HostInv'
<1>1. UNCHANGED <<runs, conf, setups, context, overlapped>>
  BY ProcessStep DEF generation
<1>2. PICK next \in {"down", "configured", "loaded", "running"} :
        /\ stage' = [stage EXCEPT ![p] = next]
        /\ p = Client => keys' = keys
        /\ p # Client => KeysKept(p, next)
  BY ProcessStep
<1>3. /\ stage \in [Process -> {"down", "configured", "loaded", "running"}]
      /\ keys \in [ReplicaID -> 0 .. runs] /\ N \in Nat
      /\ \A q \in ReplicaID : keys[q] # 0 <=> stage[q] \in {"loaded", "running"}
  BY HostTypes DEF HostInv, HostTypeOK
<1>4. HostTypeOK' /\ KeysAreWhole'
  <2>1. CASE p = Client
    <3>1. \A q \in ReplicaID : stage'[q] = stage[q]
      BY <1>2, <1>3, <2>1 DEF Process, ReplicaID, Client
    <3> QED BY <1>1, <1>2, <1>3, <2>1, <3>1 DEF HostInv, HostTypeOK, KeysAreWhole
  <2>2. CASE p # Client
    <3>1. p \in ReplicaID
      BY <2>2 DEF Process
    <3>2. PICK k \in 0 .. runs :
            /\ keys' = [keys EXCEPT ![p] = k]
            /\ k # 0 <=> next \in {"loaded", "running"}
            /\ k \in {0, keys[p]} \/ (context[p].whole /\ k = context[p].run)
      BY <1>2, <2>2 DEF KeysKept
    <3>3. HostTypeOK'
      BY <1>1, <1>2, <1>3, <3>1, <3>2 DEF HostInv, HostTypeOK, Process
    <3>4. KeysAreWhole'
      BY <1>1, <1>3, <3>1, <3>2 DEF HostInv, KeysAreWhole, WholeIsWritten
    <3> QED BY <3>3, <3>4
  <2> QED BY <2>1, <2>2
<1> QED
  BY <1>1, <1>4 DEF HostInv, OpenIsBusy, WholeIsWritten, Sequential, Busy, Newest, Closed

LEMMA HostNextInv == HostInv /\ [HostNext]_hostVars => HostInv'
<1> SUFFICES ASSUME HostInv, [HostNext]_hostVars PROVE HostInv'
  OBVIOUS
<1>1. CASE OpenConf \/ CloseConf
  BY <1>1, ConfInv
<1>2. CASE Popen
  BY <1>2, PopenInv
<1>3. CASE \E r \in DOMAIN setups : Setup(r)
  BY <1>3, OpenContextInv, CloseContextInv DEF Setup
<1>4. CASE \E p \in Process : Start(p) \/ Stop(p)
  BY <1>4, ProcessInv
<1>5. CASE UNCHANGED hostVars
  BY <1>5 DEF hostVars, HostInv, HostTypeOK, OpenIsBusy, WholeIsWritten, KeysAreWhole, Sequential,
    Busy, Newest, Closed
<1> QED BY <1>1, <1>2, <1>3, <1>4, <1>5 DEF HostNext

LEMMA HostInductive == HostSpec => []HostInv
BY HostInitInv, HostNextInv, PTL DEF HostSpec

-----------------------------------------------------------------------------
\* When no run is under way the newest has closed them all.
LEMMA IdleContexts == HostInv => OneSetupsKeys
<1> SUFFICES ASSUME HostInv, Idle, DOMAIN setups # {}, ~ overlapped, NEW i \in ReplicaID
             PROVE  context[i].whole /\ Newest(context[i].run)
  BY DEF OneSetupsKeys
<1>1. PICK r \in DOMAIN setups : Newest(r)
  <2>1. PICK k \in {runs, runs - 1} : DOMAIN setups = 1 .. k /\ k \in Int
    BY HostTypes DEF HostInv
  <2> QED BY <2>1 DEF Newest
<1>2. Closed(r) /\ ~ Busy(r) /\ setups[r].closed \in 0 .. N /\ N \in Nat
  BY <1>1, HostTypes DEF HostInv, Sequential, Idle
<1>3. i < setups[r].closed
  BY <1>2 DEF Busy, ReplicaID
<1> QED BY <1>1, <1>2, <1>3 DEF Closed

\* From the moment on at which a replica has no keys although run r is done, it has
\* none or those of r, or gen_conf.py was run again.
NewestOrNone(r, p) == runs > r \/ (Done(r) /\ keys[p] \in {0, r})

\* While no run begins, one that is done stays done.
LEMMA DoneStays ==
  ASSUME HostInv, [HostNext]_hostVars, NEW r \in 1 .. MaxRuns, Done(r)
  PROVE  runs' > r \/ (Done(r)' /\ UNCHANGED <<runs, context>>)
<1>1. r \in Nat /\ runs = r /\ DOMAIN setups = 1 .. r /\ ~ overlapped
      /\ \A q \in DOMAIN setups : ~ Busy(q)
  BY DEF Done, Idle
<1>2. CASE OpenConf
  BY <1>1, <1>2 DEF OpenConf
<1>3. ~ Popen
  BY <1>1 DEF Popen
<1>4. ASSUME NEW q \in DOMAIN setups PROVE ~ Setup(q)
  BY <1>1 DEF Setup, OpenContext, CloseContext
<1>5. CASE CloseConf \/ UNCHANGED hostVars
  BY <1>1, <1>5 DEF CloseConf, hostVars, Done, Idle, Busy
<1>6. CASE \E p \in Process : Start(p) \/ Stop(p)
  <2>1. UNCHANGED generation
    BY <1>6, ProcessStep
  <2> QED BY <1>1, <2>1 DEF generation, Done, Idle, Busy
<1> QED BY <1>2, <1>3, <1>4, <1>5, <1>6 DEF HostNext

\* The keys a replica takes then are those of its context, which is of run r.
LEMMA NewestOrNoneStep ==
  ASSUME HostInv, [HostNext]_hostVars, NEW r \in 1 .. MaxRuns, NEW p \in ReplicaID,
         NewestOrNone(r, p)
  PROVE  NewestOrNone(r, p)'
<1>1. CASE runs > r
  <2>1. runs' = runs \/ runs' = runs + 1
    BY ProcessStep DEF HostNext, OpenConf, Popen, CloseConf, Setup, OpenContext,
      CloseContext, generation, hostVars
  <2> QED BY <1>1, <2>1, HostTypes DEF HostInv, NewestOrNone
<1>2. CASE Done(r) /\ keys[p] \in {0, r}
  <2>1. CASE runs' > r
    BY <2>1 DEF NewestOrNone
  <2>2. CASE ~ runs' > r
    <3>1. Done(r)' /\ runs = r /\ r \in Nat
      BY <1>2, <2>2, DoneStays DEF Done
    <3>2. context[p].whole => context[p].run = r
      <4>1. DOMAIN setups = 1 .. r /\ r \in 1 .. r
        BY <1>2 DEF Done
      <4>2. Newest(context[p].run)
        BY <1>2, <4>1, IdleContexts DEF Done, OneSetupsKeys
      <4>3. context[p].run \in 1 .. r /\ r <= context[p].run
        BY <4>1, <4>2 DEF Newest
      <4> QED BY <4>3
    <3>3. keys'[p] \in {0, r}
      <4>1. CASE \E q \in Process : Start(q) \/ Stop(q)
        <5>1. PICK q \in Process : Start(q) \/ Stop(q)
          BY <4>1
        <5>2. PICK next \in {"down", "configured", "loaded", "running"} :
                /\ q = Client => keys' = keys
                /\ q # Client => KeysKept(q, next)
          BY <5>1, ProcessStep
        <5>3. CASE q = Client
          BY <1>2, <5>2, <5>3
        <5>4. CASE q # Client
          <6>1. PICK k \in 0 .. runs :
                  /\ keys' = [keys EXCEPT ![q] = k]
                  /\ k \in {0, keys[q]} \/ (context[q].whole /\ k = context[q].run)
            BY <5>2, <5>4 DEF KeysKept
          <6>2. keys \in [ReplicaID -> 0 .. runs]
            BY DEF HostInv, HostTypeOK
          <6>3. CASE q = p
            BY <1>2, <3>2, <6>1, <6>2, <6>3
          <6>4. CASE q # p
            BY <1>2, <6>1, <6>2, <6>4
          <6> QED BY <6>3, <6>4
        <5> QED BY <5>3, <5>4
      <4>2. CASE ~ \E q \in Process : Start(q) \/ Stop(q)
        <5>1. keys' = keys
          BY <4>2 DEF HostNext, OpenConf, Popen, CloseConf, Setup, OpenContext,
            CloseContext, hostVars
        <5> QED BY <1>2, <5>1
      <4> QED BY <4>1, <4>2
    <3> QED BY <3>1, <3>3 DEF NewestOrNone
  <2> QED BY <2>1, <2>2
<1> QED BY <1>1, <1>2 DEF NewestOrNone

-----------------------------------------------------------------------------
\* gen_conf.py:32-60, pvss_setup.cpp:34-40, drg.cpp:9-61: a replica holds keys just
\* from the reading of its context to its end.
THEOREM HostTypeCorrect == HostSpec => []HostTypeOK
BY HostInductive, PTL DEF HostInv

\* drg.cpp:53-56: whatever is under way when a replica reads its context, its keys
\* come from a run that had closed it.
THEOREM OnlyWholeKeys == HostSpec => []KeysAreWhole
BY HostInductive, PTL DEF HostInv

\* gen_conf.py:44: unless runs overlapped, which nothing prevents, the contexts are
\* all of the newest run when none is under way.
THEOREM OneDrawing == HostSpec => []OneSetupsKeys
BY HostInductive, IdleContexts, PTL

\* drg.cpp:53-56: a replica that has no keys once a run of pvss-setup is done has none
\* but the keys of that run from then on, until gen_conf.py is run again: restarting
\* the replicas after the last run, one by one, leaves no stale keys.
THEOREM StaleKeysEnd == HostSpec => RestartedHasNewest
<1> SUFFICES ASSUME NEW r \in 1 .. MaxRuns, NEW p \in ReplicaID
             PROVE  HostSpec => [](Done(r) /\ keys[p] = 0 => [](Done(r) => keys[p] \in {0, r}))
  BY DEF RestartedHasNewest
<1>1. HostInv /\ [HostNext]_hostVars /\ NewestOrNone(r, p) => NewestOrNone(r, p)'
  BY NewestOrNoneStep
<1>2. Done(r) /\ keys[p] = 0 => NewestOrNone(r, p)
  BY DEF NewestOrNone
<1>3. NewestOrNone(r, p) => (Done(r) => keys[p] \in {0, r})
  BY DEF NewestOrNone, Done
<1> QED BY <1>1, <1>2, <1>3, HostInductive, PTL DEF HostSpec

-----------------------------------------------------------------------------
(* DrgBase: the invariant.                                                 *)

\* What has been built when the main thread is at a phase.
Built ==
  /\ phase \in {"initialising", "dispatching"} => nreplicas = N
  /\ phase = "dispatching" => threshold = nreconthres
  /\ Len(replica_map) = nreplicas
  /\ \A k \in 1 .. nreplicas : replica_map[k] = replicas[k]

\* The peers are the replicas without the one at id + 1.
PeersInOrder ==
  Distinct =>
    /\ Len(peers) = IF nreplicas <= id THEN nreplicas ELSE nreplicas - 1
    /\ \A k \in 1 .. Len(peers) :
         peers[k] = IF k <= id THEN replicas[k] ELSE replicas[k + 1]

PeersAreAdded ==
  /\ \A k \in 1 .. Len(peers) : peers[k] \in added /\ peers[k] # listen_addr
  /\ added \subseteq ToSet(replicas) \cup {client}

IInv ==
  /\ TypeOK
  /\ Built
  /\ PeersInOrder
  /\ PeersAreAdded
  /\ InitBeforeChunks
  /\ ChunksFromConfigured

LEMMA Sizes ==
  /\ nreconthres \in 1 .. N
  /\ N \in Nat \ {0}
BY NAssumption DEF nreconthres

\* A new process has built nothing.
LEMMA InitInv == Init => IInv
<1> SUFFICES ASSUME Init PROVE IInv
  OBVIOUS
<1>1. TypeOK
  BY Sizes, MaxArrivalsAssumption DEF Init, TypeOK
<1>2. Built /\ PeersInOrder /\ PeersAreAdded
  BY Sizes DEF Init, Built, PeersInOrder, PeersAreAdded, ReplicaID
<1>3. InitBeforeChunks /\ ChunksFromConfigured
  BY DEF Init, InitBeforeChunks, ChunksFromConfigured
<1> QED BY <1>1, <1>2, <1>3 DEF IInv

-----------------------------------------------------------------------------
(* The steps of the main thread.                                           *)

LEMMA ConstructInv == ASSUME IInv, Construct PROVE IInv'
BY Sizes DEF Construct, IInv, TypeOK, Built, PeersInOrder, PeersAreAdded, Distinct,
  InitBeforeChunks, ChunksFromConfigured, listen_addr, config, Opcode, ToSet

LEMMA AddClientInv == ASSUME IInv, AddClient PROVE IInv'
BY Sizes DEF AddClient, IInv, TypeOK, Built, PeersInOrder, PeersAreAdded, Distinct,
  InitBeforeChunks, ChunksFromConfigured, listen_addr, config, ToSet

LEMMA OnInitInv == ASSUME IInv, OnInit PROVE IInv'
BY Sizes DEF OnInit, IInv, TypeOK, Built, PeersInOrder, PeersAreAdded, Distinct,
  InitBeforeChunks, ChunksFromConfigured, listen_addr, config, nreconthres, ToSet

\* One more replica: it is not a peer exactly if its address is the own one, which
\* of distinct addresses only the one at id + 1 is.
LEMMA AddReplicaInv == ASSUME IInv, AddReplica PROVE IInv'
<1> DEFINE addr == replicas[nreplicas + 1]
<1>1. /\ nreplicas \in Nat /\ nreplicas < N /\ N \in Nat /\ id \in 0 .. N - 1
      /\ replicas \in [1 .. N -> Addr] /\ addr \in Addr
      /\ phase = "adding" /\ phase' = phase
      /\ replica_map \in Seq(Addr) /\ replica_map' = Append(replica_map, addr)
      /\ nreplicas' = nreplicas + 1
      /\ peers \in Seq(Addr)
      /\ UNCHANGED <<replicas, id, client, handlers, threshold, inbox, narrived, calls, dropped>>
      /\ listen_addr' = listen_addr
  BY Sizes DEF AddReplica, IInv, TypeOK, ReplicaID, config, listen_addr
<1>2. TypeOK'
  BY <1>1 DEF IInv, TypeOK, AddReplica
<1>3. Built'
  BY <1>1 DEF IInv, Built
<1>4. CASE addr = listen_addr
  <2>1. peers' = peers /\ added' = added
    BY <1>4 DEF AddReplica
  <2>2. PeersInOrder'
    <3> SUFFICES ASSUME Distinct
                 PROVE  /\ Len(peers) = IF nreplicas + 1 <= id THEN nreplicas + 1 ELSE nreplicas
                        /\ \A k \in 1 .. Len(peers) :
                             peers[k] = IF k <= id THEN replicas[k] ELSE replicas[k + 1]
      BY <1>1, <2>1 DEF PeersInOrder, Distinct
    <3>1. nreplicas = id
      BY <1>1, <1>4 DEF Distinct, listen_addr
    <3> QED BY <3>1, <1>1 DEF IInv, PeersInOrder
  <2>3. PeersAreAdded'
    BY <1>1, <2>1 DEF IInv, PeersAreAdded
  <2> QED BY <1>1, <1>2, <1>3, <2>2, <2>3 DEF IInv, InitBeforeChunks, ChunksFromConfigured
<1>5. CASE addr # listen_addr
  <2>1. peers' = Append(peers, addr) /\ added' = added \cup {addr}
    BY <1>5 DEF AddReplica
  <2>2. /\ Len(peers') = Len(peers) + 1 /\ Len(peers) \in Nat
        /\ \A k \in 1 .. Len(peers) : peers'[k] = peers[k]
        /\ peers'[Len(peers) + 1] = addr
    BY <1>1, <2>1
  <2>3. PeersInOrder'
    <3> SUFFICES ASSUME Distinct
                 PROVE  /\ Len(peers') = IF nreplicas + 1 <= id THEN nreplicas + 1 ELSE nreplicas
                        /\ \A k \in 1 .. Len(peers') :
                             peers'[k] = IF k <= id THEN replicas[k] ELSE replicas[k + 1]
      BY <1>1 DEF PeersInOrder, Distinct
    <3>1. nreplicas # id
      BY <1>5 DEF listen_addr
    <3>2. /\ Len(peers) = IF nreplicas <= id THEN nreplicas ELSE nreplicas - 1
          /\ \A k \in 1 .. Len(peers) :
               peers[k] = IF k <= id THEN replicas[k] ELSE replicas[k + 1]
      BY DEF IInv, PeersInOrder
    <3>3. CASE nreplicas < id
      <4>1. Len(peers) = nreplicas /\ Len(peers') = nreplicas + 1
        BY <3>2, <3>3, <1>1, <2>2
      <4>2. ASSUME NEW k \in 1 .. Len(peers')
            PROVE  peers'[k] = replicas[k] /\ k <= id
        <5>1. CASE k = nreplicas + 1
          BY <5>1, <4>1, <3>3, <1>1, <2>2
        <5>2. CASE k \in 1 .. nreplicas
          BY <5>2, <4>1, <3>2, <3>3, <1>1, <2>2
        <5> QED BY <5>1, <5>2, <4>1, <1>1
      <4> QED BY <4>1, <4>2, <3>3, <1>1
    <3>4. CASE nreplicas > id
      <4>1. Len(peers) = nreplicas - 1 /\ Len(peers') = nreplicas
        BY <3>2, <3>4, <1>1, <2>2
      <4>2. ASSUME NEW k \in 1 .. Len(peers')
            PROVE  peers'[k] = IF k <= id THEN replicas[k] ELSE replicas[k + 1]
        <5>1. CASE k = nreplicas
          BY <5>1, <4>1, <3>4, <1>1, <2>2
        <5>2. CASE k \in 1 .. nreplicas - 1
          BY <5>2, <4>1, <3>2, <1>1, <2>2
        <5> QED BY <5>1, <5>2, <4>1, <1>1
      <4> QED BY <4>1, <4>2, <3>4, <1>1
    <3> QED BY <3>1, <3>3, <3>4, <1>1
  <2>4. PeersAreAdded'
    <3>1. addr \in ToSet(replicas)
      BY <1>1 DEF ToSet
    <3>2. \A k \in 1 .. Len(peers') : peers'[k] \in added' /\ peers'[k] # listen_addr
      BY <1>1, <1>5, <2>1, <2>2 DEF IInv, PeersAreAdded
    <3> QED BY <1>1, <2>1, <3>1, <3>2 DEF IInv, PeersAreAdded
  <2> QED BY <1>1, <1>2, <1>3, <2>3, <2>4 DEF IInv, InitBeforeChunks, ChunksFromConfigured
<1> QED BY <1>4, <1>5

-----------------------------------------------------------------------------
(* Messages.                                                               *)

\* What is not in the configuration and the lists changes nothing about them, and the
\* end of the process does not.
LEMMA SameLists ==
  ASSUME IInv, UNCHANGED <<config, registered>>, phase' \in {phase, "ended"}
  PROVE  (Built /\ PeersInOrder /\ PeersAreAdded)'
BY DEF IInv, config, registered, Built, PeersInOrder, PeersAreAdded, Distinct, listen_addr

LEMMA ArriveInv ==
  ASSUME IInv, NEW op \in Opcode, NEW from \in Addr, Arrive(op, from)
  PROVE  IInv'
<1>1. UNCHANGED <<config, started, calls, dropped>>
  BY DEF Arrive
<1>2. TypeOK'
  BY MaxArrivalsAssumption DEF Arrive, IInv, TypeOK, config, started, registered
<1> QED
  BY <1>1, <1>2, SameLists DEF IInv, InitBeforeChunks, ChunksFromConfigured, config, started

\* The message at hand, and what handling it leaves alone.
LEMMA TakeFacts ==
  ASSUME TypeOK, NEW op, Take(op)
  PROVE  /\ phase = "dispatching"
         /\ Head(inbox).from \in Addr /\ Head(inbox).opcode \in Opcode
         /\ inbox' \in Seq([opcode : Opcode, from : Addr])
<1> DEFINE M == [opcode : Opcode, from : Addr]
<1>1. inbox \in Seq(M) /\ inbox # <<>> /\ inbox' = Tail(inbox) /\ phase = "dispatching"
  BY DEF TypeOK, Take
<1>2. Head(inbox) \in M /\ Tail(inbox) \in Seq(M)
  <2> HIDE DEF M
  <2> QED BY <1>1
<1> QED BY <1>1, <1>2

LEMMA HandleInv == ASSUME IInv, Handle PROVE IInv'
<1>1. UNCHANGED <<config, handlers, registered, narrived>> /\ phase' \in {phase, "ended"}
  BY DEF Handle, start_handler, sharechunk_handler, NoHandler, Core, started
<1>2. (Built /\ PeersInOrder /\ PeersAreAdded)'
  BY <1>1, SameLists
<1>3. CASE start_handler
  <2>1. UNCHANGED <<calls, dropped>> /\ Take("MsgStart")
    BY <1>3 DEF start_handler
  <2>2. TypeOK'
    BY <1>1, <2>1, TakeFacts DEF IInv, TypeOK, config, started, registered
  <2> QED BY <1>1, <1>2, <2>1, <2>2 DEF IInv, InitBeforeChunks, ChunksFromConfigured, config
<1>4. CASE NoHandler
  <2>1. PICK op \in Opcode : Take(op) /\ dropped' = dropped \cup {op} /\ calls' = calls
    BY <1>4 DEF NoHandler
  <2>2. TypeOK'
    BY <1>1, <2>1, TakeFacts DEF IInv, TypeOK, config, started, registered
  <2> QED BY <1>1, <1>2, <2>1, <2>2 DEF IInv, InitBeforeChunks, ChunksFromConfigured, config
<1>5. CASE sharechunk_handler
  <2> DEFINE call == [from |-> Head(inbox).from, nreplicas |-> nreplicas,
                      threshold |-> threshold]
  <2>1. Take("MsgShareChunk") /\ dropped' = dropped
    BY <1>5 DEF sharechunk_handler
  <2>2. phase = "dispatching" /\ Head(inbox).from \in Addr
    BY <2>1, TakeFacts DEF IInv
  <2>3. nreplicas = N /\ threshold = nreconthres
    BY <2>2 DEF IInv, Built
  <2>4. calls' = calls \/ (calls' = calls \cup {call} /\ Head(inbox).from \in added)
    BY <1>5 DEF sharechunk_handler, PeerKnown, Core
  <2>5. call \in [from : Addr, nreplicas : 0 .. N, threshold : 0 .. N]
    BY <2>2, <2>3, Sizes
  <2>6. TypeOK'
    BY <1>1, <2>1, <2>4, <2>5, TakeFacts DEF IInv, TypeOK, config, started, registered
  <2>7. InitBeforeChunks'
    BY <2>3, <2>4 DEF IInv, InitBeforeChunks
  <2>8. ChunksFromConfigured'
    BY <1>1, <2>4 DEF IInv, ChunksFromConfigured, PeersAreAdded, config
  <2> QED BY <1>2, <2>6, <2>7, <2>8 DEF IInv
<1> QED BY <1>3, <1>4, <1>5 DEF Handle

LEMMA NextInv == IInv /\ [Next]_vars => IInv'
<1> SUFFICES ASSUME IInv, [Next]_vars PROVE IInv'
  OBVIOUS
<1>1. CASE MainThread
  BY <1>1, ConstructInv, AddReplicaInv, AddClientInv, OnInitInv, HandleInv DEF MainThread
<1>2. CASE \E op \in Opcode, from \in Addr : Arrive(op, from)
  BY <1>2, ArriveInv
<1>3. CASE UNCHANGED vars
  BY <1>3 DEF vars, IInv, TypeOK, Built, PeersInOrder, PeersAreAdded, Distinct,
    InitBeforeChunks, ChunksFromConfigured, listen_addr, config
<1> QED BY <1>1, <1>2, <1>3 DEF Next

LEMMA Inductive == Spec => []IInv
BY InitInv, NextInv, PTL DEF Spec

-----------------------------------------------------------------------------
\* With all replicas added and distinct addresses, the addresses of the other ids
\* are the peers.
LEMMA TargetsArePeers == IInv => DealTargetsArePeers
<1> SUFFICES ASSUME IInv, phase = "dispatching", Distinct
             PROVE  /\ {get_addr(i) : i \in ReplicaID \ {id}} = ToSet(peers)
                    /\ Len(peers) = N - 1
                    /\ ToSet(peers) \subseteq added
                    /\ listen_addr \notin ToSet(peers)
  BY DEF DealTargetsArePeers
<1>1. /\ N \in Nat \ {0} /\ id \in 0 .. N - 1 /\ nreplicas = N
      /\ peers \in Seq(Addr) /\ DOMAIN peers = 1 .. Len(peers)
      /\ \A k \in 1 .. N : replica_map[k] = replicas[k]
  BY Sizes DEF IInv, TypeOK, Built, ReplicaID
<1>2. /\ Len(peers) = N - 1
      /\ \A k \in 1 .. N - 1 : peers[k] = IF k <= id THEN replicas[k] ELSE replicas[k + 1]
  <2>1. /\ Len(peers) = IF N <= id THEN N ELSE N - 1
        /\ \A k \in 1 .. Len(peers) :
             peers[k] = IF k <= id THEN replicas[k] ELSE replicas[k + 1]
    BY <1>1 DEF IInv, PeersInOrder
  <2>2. Len(peers) = N - 1
    BY <1>1, <2>1
  <2> QED BY <2>1, <2>2
<1>3. ASSUME NEW i \in ReplicaID \ {id} PROVE get_addr(i) \in ToSet(peers)
  <2>1. get_addr(i) = replicas[i + 1]
    BY <1>1 DEF get_addr, ReplicaID
  <2>2. CASE i < id
    <3>1. i + 1 \in 1 .. N - 1 /\ peers[i + 1] = replicas[i + 1]
      BY <1>1, <1>2, <2>2 DEF ReplicaID
    <3> QED BY <1>1, <1>2, <2>1, <3>1 DEF ToSet
  <2>3. CASE i > id
    <3>1. i \in 1 .. N - 1 /\ peers[i] = replicas[i + 1]
      BY <1>1, <1>2, <2>3 DEF ReplicaID
    <3> QED BY <1>1, <1>2, <2>1, <3>1 DEF ToSet
  <2> QED BY <1>1, <2>2, <2>3 DEF ReplicaID
<1>4. ASSUME NEW k \in 1 .. N - 1 PROVE \E i \in ReplicaID \ {id} : peers[k] = get_addr(i)
  <2>1. CASE k <= id
    <3>1. k - 1 \in ReplicaID \ {id} /\ get_addr(k - 1) = peers[k]
      BY <1>1, <1>2, <2>1 DEF get_addr, ReplicaID
    <3> QED BY <3>1
  <2>2. CASE ~ k <= id
    <3>1. k \in ReplicaID \ {id} /\ get_addr(k) = peers[k]
      BY <1>1, <1>2, <2>2 DEF get_addr, ReplicaID
    <3> QED BY <3>1
  <2> QED BY <2>1, <2>2
<1>5. {get_addr(i) : i \in ReplicaID \ {id}} = ToSet(peers)
  BY <1>1, <1>2, <1>3, <1>4 DEF ToSet
<1>6. ToSet(peers) \subseteq added /\ listen_addr \notin ToSet(peers)
  BY <1>1 DEF ToSet, IInv, PeersAreAdded
<1> QED BY <1>2, <1>5, <1>6

-----------------------------------------------------------------------------
\* DrgBase.cpp:17-62: whatever arrives while a process starts, its variables keep
\* their types.
THEOREM TypeCorrect == Spec => []TypeOK
BY Inductive, PTL DEF IInv

\* DrgCore.hpp:166: no chunk reaches the core before all replicas are added and the
\* threshold is set, although the socket is open before.
THEOREM InitFirst == Spec => []InitBeforeChunks
BY Inductive, PTL DEF IInv

\* DrgBase.cpp:95: what reaches the core came over the connection of a configured
\* peer, also when it arrived before that peer was added.
THEOREM OnlyConfigured == Spec => []ChunksFromConfigured
BY Inductive, PTL DEF IInv

\* DrgBase.cpp:45-55: for any distinct addresses, the deal by id and the broadcast
\* by address go to the same replicas.
THEOREM SameTargets == Spec => []DealTargetsArePeers
BY Inductive, TargetsArePeers, PTL
=============================================================================
