------------------------ MODULE BaselineFlightProofs ------------------------
(***************************************************************************)
(* Theorems about BaselineFlight, for any number of processes, requests,   *)
(* inputs and mishaps: types, one solver per input and process, that       *)
(* nobody is given another input's values, and that nothing is solved      *)
(* which is in memory.                                                     *)
(*                                                                         *)
(* The argument: a live task is registered in the flight of its process    *)
(* under its own input (Flights), and the registry is a function; an       *)
(* epoch, wherever it is kept, holds the values of the input it is filed   *)
(* under (Filed), and every reader compares that input with its own.       *)
(* For the last, Fresh: whatever epoch is about was solved by some task    *)
(* (Origins), a process that solved keeps the values (Stage), and a leader *)
(* that saw an empty memory finds it filled only by another process        *)
(* (Elsewhere).                                                            *)
(***************************************************************************)
EXTENDS BaselineFlight, TLAPS

Live(q) == task[q] \notin {"none", "done"}

\* Registered tasks, and those who wait for them.
Flights ==
    /\ \A p \in Process, h \in Hash : flight[p][h] # None =>
          at[flight[p][h]] = p /\ input[flight[p][h]] = h
    /\ \A q \in Request : Live(q) => flight[at[q]][input[q]] = q
    /\ \A q \in Request : pc[q] = "new" => task[q] = "none"
    /\ \A q \in Request : pc[q] = "follow" =>
          leader[q] \in Request /\ input[leader[q]] = input[q]

Pure(e) == e # None => e.from = e.hash

\* Wherever an epoch is kept, its values belong to the input it is filed under.
Filed ==
    /\ \A p \in Process : Pure(slot[p])
    /\ \A h \in Hash : Pure(stored[h])
    /\ \A w \in puts : Pure(w[2])
    /\ \A q \in Request : got[q] # None => got[q].hash = input[q] /\ got[q].from = input[q]
    /\ \A q \in Request : pc[q] = "keep" \/ task[q] = "rekeep" => got[q] # None

Results ==
    \A q \in Request : result[q].kind = "solved" => result[q].from = input[q]

IInv == TypeOK /\ Flights /\ Filed /\ Results /\ OwnValues

-----------------------------------------------------------------------------
LEMMA InitIInv == Init => IInv
  BY HashAssumption, BoundAssumption
  DEF Init, IInv, TypeOK, Live, Flights, Pure, Filed, Results, OwnValues, Silence, Outcome,
      Epoch

\* What an answer may change: the request, and the memory.
LEMMA Served ==
  ASSUME IInv, NEW q \in Request, NEW o \in Outcome, Serve(q, o),
         o.kind = "solved" => o.from = input[q],
         slot' \in [Process -> Epoch \union {None}],
         \A p \in Process : Pure(slot'[p]),
         UNCHANGED <<stored, puts, flight, at, input, taskVars, got, leader, seed, boundVars>>
  PROVE  IInv'
  <1>1. PICK w \in {"seed", "end"} : pc' = [pc EXCEPT ![q] = w]
    BY DEF Serve, Goto
  <1>2. answer' = [answer EXCEPT ![q] = o]
    BY DEF Serve
  <1>3. TypeOK'
    BY <1>1, <1>2 DEF IInv, TypeOK, taskVars, boundVars
  <1>4. Flights' /\ Results'
    BY <1>1 DEF IInv, TypeOK, Flights, Live, Results, taskVars
  <1>5. Filed'
    BY <1>1 DEF IInv, TypeOK, Filed, Pure, taskVars
  <1>6. OwnValues'
    BY <1>2 DEF IInv, TypeOK, OwnValues
  <1> QED
    BY <1>3, <1>4, <1>5, <1>6 DEF IInv

\* What the end of a task's work may change.
LEMMA Concluded ==
  ASSUME IInv, NEW q \in Request, NEW o \in Outcome, Conclude(q, o),
         Live(q), o.kind = "solved" => o.from = input[q],
         slot' \in [Process -> Epoch \union {None}],
         \A p \in Process : Pure(slot'[p]),
         puts' \in SUBSET (Process \X Epoch), \A w \in puts' : Pure(w[2]),
         mishaps' \in 0..MaxMishap,
         UNCHANGED <<stored, flight, at, input, pc, chan, got, leader, answer, seed,
                     disconnects>>
  PROVE  IInv'
  <1>1. /\ task' = [task EXCEPT ![q] = "finish"]
        /\ result' = [result EXCEPT ![q] = o]
    BY DEF Conclude, Work
  <1>2. TypeOK'
    BY <1>1 DEF IInv, TypeOK
  <1>3. Flights'
    BY <1>1 DEF IInv, TypeOK, Flights, Live
  <1>4. Filed'
    BY <1>1 DEF IInv, TypeOK, Filed, Pure
  <1>5. Results' /\ OwnValues'
    BY <1>1 DEF IInv, TypeOK, Results, OwnValues
  <1> QED
    BY <1>2, <1>3, <1>4, <1>5 DEF IInv

\* What a request may change on its way, an epoch it reads from S3 included.
LEMMA Moved ==
  ASSUME IInv, NEW q \in Request,
         NEW w \in {"lookup", "keep", "join"}, Goto(q, w),
         got' \in [Request -> Epoch \union {None}],
         \A r \in Request : got'[r] # None =>
            got'[r].hash = input[r] /\ got'[r].from = input[r],
         \A r \in Request : got[r] # None => got'[r] # None,
         w = "keep" => got'[q] # None,
         mishaps' \in 0..MaxMishap,
         UNCHANGED <<cacheVars, flight, at, input, taskVars, leader, answer, seed, disconnects>>
  PROVE  IInv'
  <1>1. pc' = [pc EXCEPT ![q] = w]
    BY DEF Goto
  <1>2. TypeOK'
    BY <1>1 DEF IInv, TypeOK, cacheVars, taskVars
  <1>3. Flights' /\ Results' /\ OwnValues'
    BY <1>1 DEF IInv, TypeOK, Flights, Live, Results, OwnValues, taskVars
  <1>4. Filed'
    BY <1>1 DEF IInv, TypeOK, Filed, Pure, cacheVars, taskVars
  <1> QED
    BY <1>2, <1>3, <1>4 DEF IInv

\* What a task may change on its way to a result.
LEMMA Advanced ==
  ASSUME IInv, NEW q \in Request, Live(q),
         NEW w \in {"relookup", "rekeep", "solve", "write"}, Work(q, w),
         got' \in [Request -> Epoch \union {None}],
         \A r \in Request : got'[r] # None =>
            got'[r].hash = input[r] /\ got'[r].from = input[r],
         \A r \in Request : got[r] # None => got'[r] # None,
         w = "rekeep" => got'[q] # None,
         mishaps' \in 0..MaxMishap,
         UNCHANGED <<cacheVars, flight, at, input, pc, result, chan, leader, answer, seed,
                     disconnects>>
  PROVE  IInv'
  <1>1. task' = [task EXCEPT ![q] = w]
    BY DEF Work
  <1>2. TypeOK'
    BY <1>1 DEF IInv, TypeOK, cacheVars
  <1>3. Flights'
    BY <1>1 DEF IInv, TypeOK, Flights, Live
  <1>4. Filed' /\ Results' /\ OwnValues'
    BY <1>1 DEF IInv, TypeOK, Filed, Pure, Results, OwnValues, cacheVars
  <1> QED
    BY <1>2, <1>3, <1>4 DEF IInv

LEMMA Outcomes ==
  /\ Rejected \in Outcome /\ Failed \in Outcome
  /\ Rejected.kind # "solved" /\ Failed.kind # "solved"
  /\ \A h \in Hash : Solved(h) \in Outcome /\ Solved(h).from = h
  BY DEF Rejected, Failed, Solved, Outcome

\* An epoch found under one's own input holds one's own values.
LEMMA Found ==
  ASSUME IInv, NEW q \in Request, NEW e \in Epoch \union {None}, Holds(e, q), Pure(e)
  PROVE  e \in Epoch /\ e.hash = input[q] /\ e.from = input[q] /\ e # None
  BY DEF Holds, Pure, IInv, TypeOK

LEMMA CountsOnce == ASSUME IInv, Mishap PROVE mishaps' \in 0..MaxMishap /\ UNCHANGED disconnects
  BY BoundAssumption DEF IInv, TypeOK, Mishap

LEMMA PeekMemoryStep ==
  ASSUME IInv, NEW q \in Request, PeekMemory(q)
  PROVE  IInv'
  <1> DEFINE e == slot[at[q]]
  <1>1. e \in Epoch \union {None} /\ Pure(e) /\ input[q] \in Hash /\ mishaps \in 0..MaxMishap
    BY DEF IInv, TypeOK, Filed
  <1>2. CASE Holds(e, q)
    <2>1. Solved(e.from) \in Outcome /\ Solved(e.from).from = input[q]
      BY <1>1, <1>2, Found, Outcomes
    <2>2. Serve(q, Solved(e.from))
      BY <1>2 DEF PeekMemory
    <2> QED
      BY <2>1, <2>2, Served DEF PeekMemory, cacheVars, IInv, TypeOK, Filed
  <1>3. CASE ~Holds(e, q)
    <2>1. Goto(q, "lookup") /\ UNCHANGED <<answer, got>>
      BY <1>3 DEF PeekMemory
    <2> QED
      BY <1>1, <2>1, Moved DEF PeekMemory, boundVars, IInv, TypeOK, Filed
  <1> QED
    BY <1>2, <1>3

LEMMA LookupStep ==
  ASSUME IInv, NEW q \in Request, Lookup(q)
  PROVE  IInv'
  <1> DEFINE e == stored[input[q]]
  <1>1. /\ e \in Epoch \union {None} /\ Pure(e) /\ mishaps \in 0..MaxMishap
        /\ got \in [Request -> Epoch \union {None}]
        /\ \A r \in Request : got[r] # None => got[r].hash = input[r] /\ got[r].from = input[r]
    BY DEF IInv, TypeOK, Filed
  <1>2. CASE /\ Holds(e, q) /\ got' = [got EXCEPT ![q] = e]
             /\ Goto(q, "keep") /\ UNCHANGED boundVars
    <2>1. e \in Epoch /\ e.hash = input[q] /\ e.from = input[q] /\ e # None
      BY <1>1, <1>2, Found
    <2>2. /\ got' \in [Request -> Epoch \union {None}] /\ got'[q] # None
          /\ \A r \in Request : got'[r] # None =>
                got'[r].hash = input[r] /\ got'[r].from = input[r]
          /\ \A r \in Request : got[r] # None => got'[r] # None
      BY <1>1, <1>2, <2>1
    <2> QED
      BY <1>1, <1>2, <2>2, Moved DEF Lookup, boundVars
  <1>3. CASE /\ IF Holds(e, q) THEN Mishap ELSE UNCHANGED boundVars
             /\ Goto(q, "join") /\ UNCHANGED got
    <2>1. mishaps' \in 0..MaxMishap /\ UNCHANGED disconnects
      BY <1>1, <1>3, CountsOnce DEF boundVars
    <2> QED
      BY <1>1, <1>3, <2>1, Moved DEF Lookup
  <1> QED
    BY <1>2, <1>3 DEF Lookup

LEMMA KeepStep ==
  ASSUME IInv, NEW q \in Request, Keep(q)
  PROVE  IInv'
  <1>1. got[q] \in Epoch /\ got[q].from = input[q] /\ Pure(got[q]) /\ input[q] \in Hash
    BY DEF Keep, IInv, TypeOK, Filed, Pure
  <1>2. Solved(got[q].from) \in Outcome /\ Solved(got[q].from).from = input[q]
    BY <1>1, Outcomes
  <1>3. slot' \in [Process -> Epoch \union {None}] /\ \A p \in Process : Pure(slot'[p])
    BY <1>1 DEF Keep, IInv, TypeOK, Filed
  <1> QED
    BY <1>2, <1>3, Served DEF Keep

LEMMA JoinStep ==
  ASSUME IInv, NEW q \in Request, Join(q)
  PROVE  IInv'
  <1> DEFINE l == flight[at[q]][input[q]]
  <1>1. l \in Request \union {None} /\ at[q] \in Process /\ input[q] \in Hash
    BY DEF IInv, TypeOK
  <1>2. CASE l = None
    <2>1. /\ flight' = [flight EXCEPT ![at[q]][input[q]] = q]
          /\ task' = [task EXCEPT ![q] = "recheck"]
          /\ pc' = [pc EXCEPT ![q] = "await"] /\ UNCHANGED leader
      BY <1>2 DEF Join, Work, Goto
    <2>2. TypeOK'
      BY <2>1 DEF Join, IInv, TypeOK, cacheVars, boundVars
    <2>3. Flights'
      BY <1>1, <1>2, <2>1, HashAssumption DEF Join, IInv, TypeOK, Flights, Live
    <2>4. Filed' /\ Results' /\ OwnValues'
      BY <2>1 DEF Join, IInv, TypeOK, Filed, Pure, Results, OwnValues, cacheVars
    <2> QED
      BY <2>2, <2>3, <2>4 DEF IInv
  <1>3. CASE l # None
    <2>1. /\ leader' = [leader EXCEPT ![q] = l]
          /\ pc' = [pc EXCEPT ![q] = "follow"] /\ UNCHANGED <<flight, task>>
      BY <1>3 DEF Join, Goto
    <2>2. TypeOK'
      BY <1>1, <2>1 DEF Join, IInv, TypeOK, cacheVars, boundVars
    <2>3. Flights'
      BY <1>1, <1>3, <2>1 DEF Join, IInv, TypeOK, Flights, Live
    <2>4. Filed' /\ Results' /\ OwnValues'
      BY <2>1 DEF Join, IInv, TypeOK, Filed, Pure, Results, OwnValues, cacheVars
    <2> QED
      BY <2>2, <2>3, <2>4 DEF IInv
  <1> QED
    BY <1>2, <1>3

LEMMA FollowStep ==
  ASSUME IInv, NEW q \in Request, Follow(q)
  PROVE  IInv'
  <1> DEFINE o == IF chan[leader[q]] = "sent" THEN result[leader[q]] ELSE Failed
  <1>1. leader[q] \in Request /\ input[leader[q]] = input[q]
    BY DEF Follow, IInv, Flights
  <1>2. o \in Outcome /\ (o.kind = "solved" => o.from = input[q])
    BY <1>1, Outcomes DEF IInv, TypeOK, Results
  <1> QED
    BY <1>2, Served DEF Follow, cacheVars, IInv, TypeOK, Filed

LEMMA AwaitStep ==
  ASSUME IInv, NEW q \in Request, Await(q)
  PROVE  IInv'
  <1> DEFINE o == IF chan[q] = "sent" THEN result[q] ELSE Failed
  <1>1. o \in Outcome /\ (o.kind = "solved" => o.from = input[q])
    BY Outcomes DEF IInv, TypeOK, Results
  <1> QED
    BY <1>1, Served DEF Await, cacheVars, IInv, TypeOK, Filed

LEMMA RecheckStep ==
  ASSUME IInv, NEW q \in Request, Recheck(q)
  PROVE  IInv'
  <1> DEFINE e == slot[at[q]]
  <1>1. e \in Epoch \union {None} /\ Pure(e) /\ input[q] \in Hash /\ mishaps \in 0..MaxMishap
    BY DEF IInv, TypeOK, Filed
  <1>2. Live(q)
    BY DEF Recheck, Live
  <1>3. CASE Holds(e, q)
    <2>1. Solved(e.from) \in Outcome /\ Solved(e.from).from = input[q]
      BY <1>1, <1>3, Found, Outcomes
    <2>2. Conclude(q, Solved(e.from))
      BY <1>3 DEF Recheck
    <2> QED
      BY <1>2, <2>1, <2>2, Concluded DEF Recheck, cacheVars, boundVars, IInv, TypeOK, Filed
  <1>4. CASE ~Holds(e, q)
    <2>1. Work(q, "relookup") /\ UNCHANGED <<result, got>>
      BY <1>4 DEF Recheck
    <2> QED
      BY <1>1, <1>2, <2>1, Advanced DEF Recheck, boundVars, IInv, TypeOK, Filed
  <1> QED
    BY <1>3, <1>4

LEMMA RelookupStep ==
  ASSUME IInv, NEW q \in Request, Relookup(q)
  PROVE  IInv'
  <1> DEFINE e == stored[input[q]]
  <1>1. /\ e \in Epoch \union {None} /\ Pure(e) /\ mishaps \in 0..MaxMishap /\ Live(q)
        /\ got \in [Request -> Epoch \union {None}]
        /\ \A r \in Request : got[r] # None => got[r].hash = input[r] /\ got[r].from = input[r]
    BY DEF Relookup, Live, IInv, TypeOK, Filed
  <1>2. CASE /\ Holds(e, q) /\ got' = [got EXCEPT ![q] = e]
             /\ Work(q, "rekeep") /\ UNCHANGED boundVars
    <2>1. e \in Epoch /\ e.hash = input[q] /\ e.from = input[q] /\ e # None
      BY <1>1, <1>2, Found
    <2>2. /\ got' \in [Request -> Epoch \union {None}] /\ got'[q] # None
          /\ \A r \in Request : got'[r] # None =>
                got'[r].hash = input[r] /\ got'[r].from = input[r]
          /\ \A r \in Request : got[r] # None => got'[r] # None
      BY <1>1, <1>2, <2>1
    <2> QED
      BY <1>1, <1>2, <2>2, Advanced DEF Relookup, boundVars
  <1>3. CASE /\ IF Holds(e, q) THEN Mishap ELSE UNCHANGED boundVars
             /\ Work(q, "solve") /\ UNCHANGED got
    <2>1. mishaps' \in 0..MaxMishap /\ UNCHANGED disconnects
      BY <1>1, <1>3, CountsOnce DEF boundVars
    <2> QED
      BY <1>1, <1>3, <2>1, Advanced DEF Relookup
  <1> QED
    BY <1>2, <1>3 DEF Relookup

LEMMA RekeepStep ==
  ASSUME IInv, NEW q \in Request, Rekeep(q)
  PROVE  IInv'
  <1>1. /\ got[q] \in Epoch /\ got[q].from = input[q] /\ Pure(got[q]) /\ input[q] \in Hash
        /\ Live(q) /\ mishaps \in 0..MaxMishap
    BY DEF Rekeep, Live, IInv, TypeOK, Filed, Pure
  <1>2. Solved(got[q].from) \in Outcome /\ Solved(got[q].from).from = input[q]
    BY <1>1, Outcomes
  <1>3. slot' \in [Process -> Epoch \union {None}] /\ \A p \in Process : Pure(slot'[p])
    BY <1>1 DEF Rekeep, IInv, TypeOK, Filed
  <1> QED
    BY <1>1, <1>2, <1>3, Concluded DEF Rekeep, boundVars, IInv, TypeOK, Filed

LEMMA SolveStep ==
  ASSUME IInv, NEW q \in Request, Solve(q)
  PROVE  IInv'
  <1>1. Live(q) /\ mishaps \in 0..MaxMishap
    BY DEF Solve, Live, IInv, TypeOK
  <1>2. CASE Work(q, "write") /\ UNCHANGED <<result, boundVars>>
    BY <1>1, <1>2, Advanced DEF Solve, boundVars, IInv, TypeOK, Filed
  <1>3. CASE /\ IF input[q] \in Unsolvable THEN UNCHANGED boundVars ELSE Mishap
             /\ Conclude(q, Rejected)
    <2>1. mishaps' \in 0..MaxMishap /\ UNCHANGED disconnects
      BY <1>1, <1>3, CountsOnce DEF boundVars
    <2> QED
      BY <1>1, <1>3, <2>1, Outcomes, Concluded DEF Solve, cacheVars, IInv, TypeOK, Filed
  <1> QED
    BY <1>2, <1>3 DEF Solve

LEMMA WriteMemoryStep ==
  ASSUME IInv, NEW q \in Request, WriteMemory(q)
  PROVE  IInv'
  <1> DEFINE e == EpochWith(at[q], input[q])
  <1>1. /\ at[q] \in Process /\ input[q] \in Hash /\ Live(q) /\ mishaps \in 0..MaxMishap
        /\ e \in Epoch /\ e.from = input[q] /\ Pure(e)
    BY DEF WriteMemory, EpochWith, Epoch, Pure, Live, IInv, TypeOK
  <1>2. Solved(e.from) \in Outcome /\ Solved(e.from).from = input[q]
    BY <1>1, Outcomes
  <1>3. slot' \in [Process -> Epoch \union {None}] /\ \A p \in Process : Pure(slot'[p])
    BY <1>1 DEF WriteMemory, IInv, TypeOK, Filed
  <1>4. puts' \in SUBSET (Process \X Epoch) /\ \A w \in puts' : Pure(w[2])
    BY <1>1 DEF WriteMemory, IInv, TypeOK, Filed
  <1> QED
    BY <1>1, <1>2, <1>3, <1>4, Concluded DEF WriteMemory, boundVars

LEMMA ReleaseStep ==
  ASSUME IInv, NEW q \in Request, Release(q)
  PROVE  IInv'
  <1>1. /\ at[q] \in Process /\ input[q] \in Hash /\ flight[at[q]][input[q]] = q
        /\ task' = [task EXCEPT ![q] = "done"]
        /\ flight' = [flight EXCEPT ![at[q]][input[q]] = None]
    BY DEF Release, Work, IInv, TypeOK, Flights, Live
  <1>2. TypeOK'
    BY <1>1 DEF Release, IInv, TypeOK, cacheVars, boundVars
  <1>3. \A r \in Request : Live(r)' => r # q /\ Live(r) /\ flight'[at[r]][input[r]] = r
    <2> SUFFICES ASSUME NEW r \in Request, Live(r)'
                 PROVE  r # q /\ Live(r) /\ flight'[at[r]][input[r]] = r
      OBVIOUS
    <2>1. r # q /\ Live(r)
      BY <1>1 DEF Live, IInv, TypeOK
    <2>2. flight[at[r]][input[r]] = r /\ at[r] \in Process /\ input[r] \in Hash
      BY <2>1 DEF IInv, TypeOK, Flights
    <2>3. at[r] # at[q] \/ input[r] # input[q]
      BY <1>1, <2>1, <2>2
    <2> QED
      BY <1>1, <2>1, <2>2, <2>3 DEF IInv, TypeOK
  <1>4. Flights'
    <2>1. \A p \in Process, h \in Hash : flight'[p][h] # None => flight'[p][h] = flight[p][h]
      BY <1>1 DEF IInv, TypeOK
    <2> QED
      BY <1>1, <1>3, <2>1 DEF Release, IInv, TypeOK, Flights
  <1>5. Filed' /\ Results' /\ OwnValues'
    BY <1>1 DEF Release, IInv, TypeOK, Filed, Pure, Results, OwnValues, cacheVars
  <1> QED
    BY <1>2, <1>4, <1>5 DEF IInv

LEMMA SeedStep ==
  ASSUME IInv, NEW q \in Request, Seed(q)
  PROVE  IInv'
  BY HashAssumption, BoundAssumption
  DEF Seed, Holds, Goto, IInv, TypeOK, Live, Flights, Pure, Filed, Results,
      OwnValues, Epoch, Outcome, Solved, Rejected, Failed, cacheVars, taskVars,
      boundVars

LEMMA FinishStep ==
  ASSUME IInv, NEW q \in Request, Finish(q)
  PROVE  IInv'
  BY HashAssumption, BoundAssumption
  DEF Finish, Work, IInv, TypeOK, Live, Flights, Pure, Filed, Results, OwnValues,
      Epoch, Outcome, Solved, Rejected, Failed, cacheVars, taskVars, boundVars

LEMMA TaskDiesStep ==
  ASSUME IInv, NEW q \in Request, TaskDies(q)
  PROVE  IInv'
  BY HashAssumption, BoundAssumption
  DEF TaskDies, Mishap, Work, IInv, TypeOK, Live, Flights, Pure, Filed, Results,
      OwnValues, Epoch, Outcome, Solved, Rejected, Failed, cacheVars, taskVars,
      boundVars

LEMMA DisconnectStep ==
  ASSUME IInv, NEW q \in Request, Disconnect(q)
  PROVE  IInv'
  BY HashAssumption, BoundAssumption
  DEF Disconnect, Droppable, Goto, IInv, TypeOK, Live, Flights, Pure, Filed,
      Results, OwnValues, Epoch, Outcome, Solved, Rejected, Failed, cacheVars,
      taskVars, boundVars

LEMMA PutLandsStep ==
  ASSUME IInv, PutLands
  PROVE  IInv'
  BY HashAssumption, BoundAssumption
  DEF PutLands, IInv, TypeOK, Live, Flights, Pure, Filed, Results, OwnValues, Epoch,
      Outcome, Solved, Rejected, Failed, cacheVars, taskVars, boundVars

LEMMA PutFailsStep ==
  ASSUME IInv, PutFails
  PROVE  IInv'
  BY HashAssumption, BoundAssumption
  DEF PutFails, Mishap, IInv, TypeOK, Live, Flights, Pure, Filed, Results,
      OwnValues, Epoch, Outcome, Solved, Rejected, Failed, cacheVars, taskVars,
      boundVars

LEMMA RestartStep ==
  ASSUME IInv, NEW p \in Process, Restart(p)
  PROVE  IInv'
  BY HashAssumption, BoundAssumption
  DEF Restart, Mishap, IInv, TypeOK, Live, Flights, Pure, Filed, Results, OwnValues,
      Epoch, Outcome, Solved, Rejected, Failed, cacheVars, taskVars, boundVars

LEMMA NextIInv == IInv /\ [Next]_vars => IInv'
  <1> SUFFICES ASSUME IInv, [Next]_vars PROVE IInv'
    OBVIOUS
  <1>1. CASE UNCHANGED vars
    BY <1>1
    DEF vars, IInv, TypeOK, Live, Flights, Pure, Filed, Results, OwnValues, Epoch,
        Outcome, Solved, Rejected, Failed, cacheVars, taskVars, boundVars
  <1>2. CASE Next
    BY <1>2, PeekMemoryStep, LookupStep, KeepStep, JoinStep, FollowStep, AwaitStep, SeedStep, RecheckStep, RelookupStep, RekeepStep, SolveStep, WriteMemoryStep, FinishStep, ReleaseStep, TaskDiesStep, DisconnectStep, PutLandsStep, PutFailsStep, RestartStep
    DEF Next, RequestStep, TaskStep
  <1> QED
    BY <1>1, <1>2

LEMMA Invariance == Spec => []IInv
  BY InitIInv, NextIInv, PTL DEF Spec

\* Every variable keeps its type, counters and registries included.
THEOREM TypeCorrect == Spec => []TypeOK
  BY Invariance, PTL DEF IInv

\* A process never runs two solves of one input: the leader's task keeps the
\* hash registered until it is over, also when its request has been dropped.
THEOREM OneSolverAtATime == Spec => []OneSolver
  <1>1. IInv => OneSolver
    BY DEF IInv, Flights, Live, OneSolver, TypeOK
  <1> QED
    BY <1>1, Invariance, PTL

\* No answer and no reused seed carries the values of another input, although
\* one memory slot serves them all.
THEOREM ValuesCorrect == Spec => []OwnValues
  BY Invariance, PTL DEF IInv

-----------------------------------------------------------------------------
(* What is solved again, without mishaps and with one input in use.        *)

Solver(r) == result[r].kind = "solved"

\* The epoch comes from a task that solved it.
Origin(e) == e # None => \E r \in Request : Solver(r) /\ input[r] = e.hash

Origins ==
    /\ \A p \in Process : Origin(slot[p])
    /\ \A h \in Hash : Origin(stored[h])
    /\ \A w \in puts : Origin(w[2])
    /\ \A q \in Request : Origin(got[q])

\* A solved input stays in the memory of the process that solved it.
Stage(q) ==
    /\ pc[q] \in {"new", "lookup", "keep", "join"} => task[q] = "none"
    /\ task[q] = "write" => input[q] \notin Unsolvable
    /\ result[q].kind # "none" => task[q] \in {"finish", "release", "done"}
    /\ Solver(q) => slot[at[q]] # None /\ input[q] \notin Unsolvable

\* A leader that found the memory empty: what is in it since was solved elsewhere.
Elsewhere(q) ==
    /\ task[q] \in {"relookup", "solve", "write"} /\ input[q] \notin Unsolvable
    /\ slot[at[q]] # None
    => \E r \in Request : at[r] # at[q] /\ Solver(r)

Fresh ==
    mishaps = 0 /\ OneInput =>
        Origins /\ \A q \in Request : Stage(q) /\ Elsewhere(q)

LEMMA InitFresh == Init => Fresh
  BY DEF Init, Fresh, Origins, Origin, Stage, Elsewhere, Solver, Silence

\* The inputs stand, and the mishaps are counted.
LEMMA Steady ==
  ASSUME IInv, [Next]_vars
  PROVE  UNCHANGED <<at, input>> /\ (mishaps' = 0 => mishaps = 0)
  <1>1. ASSUME Mishap  PROVE mishaps' # 0
    BY <1>1, BoundAssumption DEF Mishap, IInv, TypeOK
  <1>2. UNCHANGED <<at, input>> /\ (mishaps' = mishaps \/ Mishap)
    BY DEF Next, vars, boundVars, PeekMemory, RequestStep, Lookup, Keep, Join, Follow, Await, Seed,
       TaskStep, Recheck, Relookup, Rekeep, Solve, WriteMemory, Finish, Release, TaskDies,
       Disconnect, PutLands, PutFails, Restart
  <1> QED
    BY <1>1, <1>2

LEMMA FreshKept ==
  ASSUME IInv, Next, mishaps = 0, mishaps' = 0, OneInput, UNCHANGED <<at, input>>,
         Origins, \A q \in Request : Stage(q) /\ Elsewhere(q)
  PROVE  Origins' /\ \A q \in Request : Stage(q)' /\ Elsewhere(q)'
  <1> USE DEF IInv, TypeOK
  <1>0. ~Mishap
    BY DEF Mishap
  \* Solvers stay.
  <1>a. ASSUME \A r \in Request : Solver(r) => Solver(r)'
        PROVE  \A e : Origin(e) => Origin(e)'
    BY <1>a DEF Origin
  <1>1. ASSUME UNCHANGED <<slot, stored, puts, got, task, result>>,
               \A q \in Request : pc'[q] = pc[q] \/ pc'[q] \notin {"new", "keep", "join", "lookup"}
                     \/ pc[q] \in {"new", "lookup"}
        PROVE  Origins' /\ \A q \in Request : Stage(q)' /\ Elsewhere(q)'
    BY <1>1 DEF Origins, Origin, Stage, Elsewhere, Solver
  <1>2. ASSUME NEW q \in Request, PeekMemory(q) \/ Follow(q) \/ Await(q) \/ Seed(q) \/ Disconnect(q)
        PROVE  Origins' /\ \A r \in Request : Stage(r)' /\ Elsewhere(r)'
    BY <1>1, <1>2 DEF PeekMemory, Follow, Await, Seed, Disconnect, Serve, Goto, cacheVars, taskVars
  <1>3. ASSUME NEW q \in Request, Lookup(q)
        PROVE  Origins' /\ \A r \in Request : Stage(r)' /\ Elsewhere(r)'
    <2>1. Origin(stored[input[q]])
      BY DEF Origins
    <2>2. /\ got' = got \/ got' = [got EXCEPT ![q] = stored[input[q]]]
          /\ pc[q] = "lookup" /\ \A r \in Request \ {q} : pc'[r] = pc[r]
          /\ UNCHANGED <<slot, stored, puts, task, result>>
      BY <1>3 DEF Lookup, Goto, cacheVars, taskVars
    <2>3. \A r \in Request : Origin(got'[r])
      BY <2>1, <2>2 DEF Origins
    <2> QED
      BY <2>2, <2>3 DEF Origins, Origin, Stage, Elsewhere, Solver
  <1>4. ASSUME NEW q \in Request, NEW e, Origin(e), e # None,
               slot' = [slot EXCEPT ![at[q]] = e], UNCHANGED <<stored, puts, got>>,
               \A r \in Request : Solver(r) => Solver(r)',
               \A r \in Request : Solver(r)' => Solver(r) \/ (r = q /\ input[q] \notin Unsolvable),
               \A r \in Request : task'[r] \in {"relookup", "solve", "write"} => task'[r] = task[r],
               \A r \in Request : pc'[r] \in {"new", "lookup", "keep", "join"} => pc'[r] = pc[r] /\ task'[r] = task[r],
               \A r \in Request : result'[r].kind # "none" =>
                    (task'[r] = task[r] /\ result'[r] = result[r]) \/ task'[r] = "finish"
        PROVE  Origins' /\ \A r \in Request : Stage(r)' /\ Elsewhere(r)'
    <2>1. Origins'
      <3>1. \A x : Origin(x) => Origin(x)'
        BY <1>a, <1>4
      <3> QED
        BY <1>4, <3>1 DEF Origins
    <2>2. \A p \in Process : slot[p] # None => slot'[p] # None
      BY <1>4
    <2>3. ASSUME NEW r \in Request  PROVE Stage(r)'
      <3>1. Stage(r)
        OBVIOUS
      <3>2. Solver(r)' => slot'[at[r]] # None /\ input[r] \notin Unsolvable
        BY <1>4, <2>2, <3>1 DEF Stage
      <3> QED
        BY <1>4, <3>1, <3>2 DEF Stage
    <2>4. ASSUME NEW r \in Request, task'[r] \in {"relookup", "solve", "write"},
                 input[r] \notin Unsolvable, slot'[at[r]] # None
          PROVE  \E s \in Request : at[s] # at[r] /\ Solver(s)'
      <3>1. CASE slot[at[r]] # None
        BY <1>4, <2>4, <3>1 DEF Elsewhere
      <3>2. CASE slot[at[r]] = None
        <4>1. PICK s \in Request : Solver(s)
          BY <1>4 DEF Origin
        <4> QED
          BY <1>4, <3>2, <4>1 DEF Stage
      <3> QED
        BY <3>1, <3>2
    <2> QED
      BY <2>1, <2>3, <2>4 DEF Elsewhere
  \* A task that leaves the memory and S3 alone.
  <1>5. ASSUME NEW q \in Request, Live(q), UNCHANGED <<slot, stored, puts, pc>>,
               \A r \in Request : Origin(got'[r]),
               \A r \in Request \ {q} : task'[r] = task[r] /\ result'[r] = result[r],
               Solver(q) => Solver(q)',
               Stage(q)',
               task'[q] \in {"relookup", "solve", "write"} => Elsewhere(q)'
        PROVE  Origins' /\ \A r \in Request : Stage(r)' /\ Elsewhere(r)'
    <2>0. \A r \in Request : Solver(r) => Solver(r)'
      BY <1>5 DEF Solver
    <2>1. \A x : Origin(x) => Origin(x)'
      BY <1>a, <2>0
    <2>2. Origins'
      BY <1>5, <2>1 DEF Origins
    <2>3. \A r \in Request : Stage(r)'
      BY <1>5 DEF Stage, Solver
    <2>4. ASSUME NEW r \in Request  PROVE Elsewhere(r)'
      <3>1. CASE r = q
        BY <1>5, <3>1 DEF Elsewhere
      <3>2. CASE r # q
        <4>1. Elsewhere(r) /\ task'[r] = task[r] /\ slot'[at[r]] = slot[at[r]]
          BY <1>5, <3>2
        <4> QED
          BY <2>0, <4>1 DEF Elsewhere
      <3> QED
        BY <3>1, <3>2
    <2> QED
      BY <2>2, <2>3, <2>4
  <1>6. ASSUME NEW q \in Request, Keep(q)
        PROVE  Origins' /\ \A r \in Request : Stage(r)' /\ Elsewhere(r)'
    <2>1. Origin(got[q]) /\ got[q] # None
      BY <1>6 DEF Origins, Keep, Filed
    <2>2. /\ slot' = [slot EXCEPT ![at[q]] = got[q]] /\ UNCHANGED <<stored, puts, got, task, result>>
          /\ \A r \in Request : pc'[r] \in {"new", "lookup", "keep", "join"} => pc'[r] = pc[r]
      BY <1>6 DEF Keep, Serve, Goto, taskVars
    <2> QED
      BY <1>4, <2>1, <2>2 DEF Solver, Stage
  <1>7. ASSUME NEW q \in Request, Join(q)
        PROVE  Origins' /\ \A r \in Request : Stage(r)' /\ Elsewhere(r)'
    <2>1. /\ UNCHANGED <<slot, stored, puts, got, result>>
          /\ \A r \in Request \ {q} : task'[r] = task[r] /\ pc'[r] = pc[r]
          /\ task'[q] \in {task[q], "recheck"} /\ pc'[q] \in {"await", "follow"}
          /\ task[q] = "none"
      BY <1>7 DEF Join, Work, Goto, cacheVars, Stage
    <2>2. \A x : Origin(x) => Origin(x)'
      BY <1>a, <2>1 DEF Solver
    <2> QED
      BY <2>1, <2>2 DEF Origins, Stage, Elsewhere, Solver
  <1>8. ASSUME NEW q \in Request, Recheck(q)
        PROVE  Origins' /\ \A r \in Request : Stage(r)' /\ Elsewhere(r)'
    <2>1. Live(q) /\ Stage(q) /\ Origin(slot[at[q]]) /\ (\A r \in Request : Origin(got[r]))
      BY <1>8 DEF Recheck, Live, Origins
    <2>2. CASE Holds(slot[at[q]], q)
      <3>1. /\ task' = [task EXCEPT ![q] = "finish"] /\ UNCHANGED <<slot, stored, puts, pc, got>>
            /\ result' = [result EXCEPT ![q] = Solved(slot[at[q]].from)]
        BY <1>8, <2>2 DEF Recheck, Conclude, Work, cacheVars
      <3>2. slot[at[q]] # None /\ input[q] \notin Unsolvable
        BY <2>1, <2>2 DEF Holds, Origin, Stage
      <3>3. Solver(q)' /\ Stage(q)'
        BY <1>8, <2>1, <3>1, <3>2 DEF Recheck, Stage, Solver, Solved
      <3> QED
        BY <1>5, <2>1, <3>1, <3>3
    <2>3. CASE ~Holds(slot[at[q]], q)
      <3>1. /\ task' = [task EXCEPT ![q] = "relookup"]
            /\ UNCHANGED <<slot, stored, puts, pc, got, result>>
        BY <1>8, <2>3 DEF Recheck, Work, cacheVars
      <3>2. slot[at[q]] # None => input[q] \in Unsolvable
        BY <2>1, <2>3 DEF Holds, Origin, Stage, OneInput
      <3>3. Stage(q)'
        BY <1>8, <2>1, <3>1 DEF Recheck, Stage, Solver
      <3>4. Elsewhere(q)'
        BY <3>1, <3>2 DEF Elsewhere
      <3> QED
        BY <1>5, <2>1, <3>1, <3>3, <3>4 DEF Solver
    <2> QED
      BY <2>2, <2>3
  <1>9. ASSUME NEW q \in Request, Relookup(q)
        PROVE  Origins' /\ \A r \in Request : Stage(r)' /\ Elsewhere(r)'
    <2>1. Live(q) /\ Stage(q) /\ Elsewhere(q) /\ Origin(stored[input[q]]) /\ \A r \in Request : Origin(got[r])
      BY <1>9 DEF Relookup, Live, Origins
    <2>2. /\ UNCHANGED <<slot, stored, puts, pc, result>>
          /\ got' = got \/ got' = [got EXCEPT ![q] = stored[input[q]]]
          /\ task' = [task EXCEPT ![q] = "rekeep"] \/ task' = [task EXCEPT ![q] = "solve"]
          /\ task[q] = "relookup"
      BY <1>9 DEF Relookup, Work, cacheVars
    <2>3. \A r \in Request : Origin(got'[r])
      BY <2>1, <2>2
    <2>4. Stage(q)' /\ Elsewhere(q)'
      BY <2>1, <2>2 DEF Stage, Elsewhere, Solver
    <2> QED
      BY <1>5, <2>1, <2>2, <2>3, <2>4 DEF Solver
  <1>10. ASSUME NEW q \in Request, Rekeep(q)
        PROVE  Origins' /\ \A r \in Request : Stage(r)' /\ Elsewhere(r)'
    <2>1. Origin(got[q]) /\ got[q] # None /\ got[q].hash = input[q] /\ Stage(q)
      BY <1>10 DEF Origins, Rekeep, Filed
    <2>2. /\ slot' = [slot EXCEPT ![at[q]] = got[q]] /\ UNCHANGED <<stored, puts, got, pc>>
          /\ task' = [task EXCEPT ![q] = "finish"] /\ task[q] = "rekeep"
          /\ result' = [result EXCEPT ![q] = Solved(got[q].from)]
      BY <1>10 DEF Rekeep, Conclude, Work
    <2>3. input[q] \notin Unsolvable
      BY <2>1 DEF Origin, Stage
    <2>4. pc[q] \notin {"new", "lookup", "keep", "join"} /\ ~Solver(q)
      BY <2>1, <2>2 DEF Stage, Solver
    <2> QED
      BY <1>4, <2>1, <2>2, <2>3, <2>4 DEF Solver, Solved
  <1>11. ASSUME NEW q \in Request, Solve(q)
        PROVE  Origins' /\ \A r \in Request : Stage(r)' /\ Elsewhere(r)'
    <2>1. Live(q) /\ Stage(q) /\ Elsewhere(q) /\ ~Solver(q) /\ \A r \in Request : Origin(got[r])
      BY <1>11 DEF Solve, Live, Origins, Stage, Solver
    <2>2. /\ UNCHANGED <<slot, stored, puts, pc, got>> /\ task[q] = "solve"
          /\ \/ /\ task' = [task EXCEPT ![q] = "write"] /\ UNCHANGED result
                /\ input[q] \notin Unsolvable
             \/ task' = [task EXCEPT ![q] = "finish"] /\ result' = [result EXCEPT ![q] = Rejected]
      BY <1>11 DEF Solve, Work, Conclude, cacheVars
    <2>3. Stage(q)' /\ (task'[q] = "write" => Elsewhere(q)') /\ task'[q] \in {"write", "finish"}
      BY <2>1, <2>2, Outcomes DEF Stage, Elsewhere, Solver
    <2> QED
      BY <1>5, <2>1, <2>2, <2>3 DEF Solver
  <1>12. ASSUME NEW q \in Request, WriteMemory(q)
        PROVE  Origins' /\ \A r \in Request : Stage(r)' /\ Elsewhere(r)'
    <2>0. PICK e \in Epoch : e = EpochWith(at[q], input[q]) /\ e.hash = input[q] /\ e # None
      <3>1. EpochWith(at[q], input[q]) \in Epoch /\ EpochWith(at[q], input[q]).hash = input[q]
        BY DEF EpochWith, Epoch
      <3> QED
        BY <3>1, HashAssumption DEF Epoch
    <2>1. Live(q) /\ Stage(q) /\ ~Solver(q) /\ input[q] \notin Unsolvable
      BY <1>12 DEF WriteMemory, Live, Stage, Solver
    <2>2. /\ slot' = [slot EXCEPT ![at[q]] = e] /\ puts' = puts \union {<<at[q], e>>}
          /\ UNCHANGED <<stored, got, pc>>
          /\ task' = [task EXCEPT ![q] = "finish"] /\ task[q] = "write"
          /\ result' = [result EXCEPT ![q] = Solved(input[q])]
      BY <1>12, <2>0 DEF WriteMemory, Conclude, Work, EpochWith
    <2>4. Solver(q)' /\ \A r \in Request : Solver(r) => Solver(r)'
      BY <2>2 DEF Solver, Solved
    <2>5. Origin(e)' /\ \A x : Origin(x) => Origin(x)'
      BY <1>a, <2>0, <2>4 DEF Origin
    <2>6. Origins'
      <3>1. \A p \in Process : slot'[p] = slot[p] \/ slot'[p] = e
        BY <2>2
      <3>2. \A w \in puts' : w \in puts \/ w[2] = e
        BY <2>2
      <3> QED
        BY <2>2, <2>5, <3>1, <3>2 DEF Origins
    <2>7. \A r \in Request : Stage(r)'
      BY <2>0, <2>1, <2>2 DEF Stage, Solver, Solved
    <2>8. ASSUME NEW r \in Request, task'[r] \in {"relookup", "solve", "write"},
                 input[r] \notin Unsolvable, slot'[at[r]] # None
          PROVE  \E s \in Request : at[s] # at[r] /\ Solver(s)'
      <3>1. r # q /\ Live(r) /\ task'[r] = task[r]
        BY <2>2, <2>8 DEF Live
      <3>2. input[r] = input[q]
        BY <2>1, <2>8 DEF OneInput
      <3>3. at[r] # at[q]
        BY <2>1, <3>1, <3>2 DEF Flights
      <3> QED
        BY <2>4, <3>3
    <2> QED
      BY <2>6, <2>7, <2>8 DEF Elsewhere
  <1>13. ASSUME NEW q \in Request, Finish(q) \/ Release(q)
        PROVE  Origins' /\ \A r \in Request : Stage(r)' /\ Elsewhere(r)'
    <2>1. Live(q) /\ Stage(q) /\ \A r \in Request : Origin(got[r])
      BY <1>13 DEF Finish, Release, Live, Origins
    <2>2. /\ UNCHANGED <<slot, stored, puts, pc, got, result>>
          /\ task[q] # "none" /\ (task' = [task EXCEPT ![q] = "release"] \/ task' = [task EXCEPT ![q] = "done"])
      BY <1>13 DEF Finish, Release, Work, cacheVars
    <2>3. Stage(q)'
      BY <2>1, <2>2 DEF Stage, Solver
    <2> QED
      BY <1>5, <2>1, <2>2, <2>3 DEF Solver
  <1>14. ASSUME PutLands
        PROVE  Origins' /\ \A r \in Request : Stage(r)' /\ Elsewhere(r)'
    <2>1. UNCHANGED <<slot, got, pc, task, result>>
      BY <1>14 DEF PutLands, taskVars
    <2>2. \A x : Origin(x) => Origin(x)'
      BY <1>a, <2>1 DEF Solver
    <2>3. PICK w \in puts : stored' = [stored EXCEPT ![w[2].hash] = w[2]] /\ puts' = puts \ {w}
      BY <1>14 DEF PutLands
    <2>4. \A h \in Hash : stored'[h] = stored[h] \/ stored'[h] = w[2]
      BY <2>3
    <2>5. Origins'
      BY <2>1, <2>2, <2>3, <2>4 DEF Origins
    <2> QED
      BY <2>1, <2>5 DEF Stage, Elsewhere, Solver
  <1> QED
    BY <1>0, <1>2, <1>3, <1>6, <1>7, <1>8, <1>9, <1>10, <1>11, <1>12, <1>13, <1>14
    DEF Next, RequestStep, TaskStep, TaskDies, PutFails, Restart

LEMMA NextFresh == IInv /\ Fresh /\ [Next]_vars => Fresh'
  <1> SUFFICES ASSUME IInv, Fresh, [Next]_vars, mishaps' = 0, OneInput'
               PROVE  Origins' /\ \A q \in Request : Stage(q)' /\ Elsewhere(q)'
    BY DEF Fresh
  <1>1. UNCHANGED <<at, input>> /\ mishaps = 0 /\ OneInput
    BY Steady DEF OneInput
  <1>2. CASE Next
    BY <1>1, <1>2, FreshKept DEF Fresh
  <1>3. CASE UNCHANGED vars
    BY <1>1, <1>3 DEF Fresh, Origins, Origin, Stage, Elsewhere, Solver, vars, cacheVars, taskVars
  <1> QED
    BY <1>2, <1>3

\* While one input is in use and nothing is lost, a task never solves what its process
\* has in memory, unless another process solved that at the same time.
THEOREM SolvedOnce == Spec => []NotSolvedAgain
  <1>1. IInv /\ Fresh => NotSolvedAgain
    <2> SUFFICES ASSUME IInv, Fresh, mishaps = 0, OneInput, NEW q \in Request,
                        task[q] \in {"solve", "write"}, Holds(slot[at[q]], q)
                 PROVE  \E r \in Request : at[r] # at[q] /\ result[r] = Solved(input[q])
      BY DEF NotSolvedAgain
    <2>1. PICK s \in Request : Solver(s) /\ input[s] = input[q]
      BY DEF Fresh, Origins, Origin, Holds, IInv, TypeOK
    <2>2. input[q] \notin Unsolvable
      BY <2>1 DEF Fresh, Stage
    <2>3. PICK r \in Request : at[r] # at[q] /\ Solver(r)
      BY <2>2 DEF Fresh, Elsewhere, Holds
    <2>4. input[r] = input[q]
      BY <2>2, <2>3 DEF Fresh, Stage, OneInput
    <2>5. result[r] = Solved(input[q])
      <3>1. result[r] \in Outcome /\ result[r].kind = "solved" /\ result[r].from = input[q]
        BY <2>3, <2>4 DEF IInv, TypeOK, Results, Solver
      <3>2. \A o \in Outcome : o = [kind |-> o.kind, from |-> o.from]
        BY DEF Outcome
      <3>3. result[r] = [kind |-> result[r].kind, from |-> result[r].from]
        BY <3>1, <3>2, Zenon
      <3> QED
        BY <3>1, <3>3, Zenon DEF Solved
    <2> QED
      BY <2>3, <2>5
  <1> QED
    BY <1>1, InitFresh, NextFresh, Invariance, PTL DEF Spec
=============================================================================
