---------------------------- MODULE ShapeRecords ----------------------------
(***************************************************************************)
(* What the diff shape store promises its clients (diff_store.rs, read     *)
(* through the answers of DiffStore::get and DiffStore::put): a record per *)
(* epoch that is written once, and answers that never contradict it.       *)
(***************************************************************************)
CONSTANTS
    Epoch, Shape, Request,
    Nothing             \* no readable record

VARIABLES
    record,             \* the readable record of each epoch
    answer              \* what each request has been told

recordVars == <<record, answer>>

Told(kind, e, s) == [kind |-> kind, epoch |-> e, shape |-> s]
Silence == [kind |-> "none", epoch |-> Nothing, shape |-> Nothing]

Init ==
    /\ record \in [Epoch -> Shape \union {Nothing}]
    /\ answer = [q \in Request |-> Silence]

\* An epoch without a readable record gets one.
Write ==
    /\ \E e \in Epoch, s \in Shape :
          record[e] = Nothing /\ record' = [record EXCEPT ![e] = s]
    /\ UNCHANGED answer

Reply(q, a) ==
    /\ answer[q] = Silence
    /\ answer' = [answer EXCEPT ![q] = a]
    /\ UNCHANGED record

\* 201: this very shape is the record, and nobody else was told the same.
Created(q) ==
    \E e \in Epoch, s \in Shape :
        /\ record[e] = s
        /\ \A r \in Request : ~(answer[r].kind = "created" /\ answer[r].epoch = e)
        /\ Reply(q, Told("created", e, s))

\* 409: some readable record is there.
Exists(q) ==
    \E e \in Epoch : record[e] # Nothing /\ Reply(q, Told("exists", e, Nothing))

Found(q) ==
    \E e \in Epoch, s \in Shape : record[e] = s /\ Reply(q, Told("shape", e, s))

NotFound(q) ==
    \E e \in Epoch : record[e] = Nothing /\ Reply(q, Told("absent", e, Nothing))

\* 502: nothing is known.
Unknown(q) == \E e \in Epoch : Reply(q, Told("unknown", e, Nothing))

Next ==
    \/ Write
    \/ \E q \in Request :
          Created(q) \/ Exists(q) \/ Found(q) \/ NotFound(q) \/ Unknown(q)

Spec == Init /\ [][Next]_recordVars
=============================================================================
