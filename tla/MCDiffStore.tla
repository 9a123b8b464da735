----------------------------- MODULE MCDiffStore -----------------------------
(* Small instances for TLC: the store, or the changelog over its records. *)
EXTENDS DiffStore, ChangeLog, TLC

CONSTANTS r1, r2, q1, q2, blue, green, torn, stale

Alike ==
    Permutations(Replica) \union Permutations(Request)
        \union Permutations(Shape) \union Permutations(Garbage)

Link(owner, bandwidth, kind, ends) ==
    [owner |-> owner, bandwidth |-> bandwidth, kind |-> kind, ends |-> ends]

\* x keeps one link, which is widened, rerouted, or handed over to y or to
\* nobody as x leaves; y comes with another one.
MCShapes ==
    {[links |-> ("k" :> Link("x", 1, "wan", "ab")), codes |-> {"x"}],
     [links |-> ("k" :> Link("x", 2, "wan", "ac")) @@ ("m" :> Link("y", 1, "wan", "bc")),
      codes |-> {"x", "y"}],
     [links |-> ("k" :> Link("y", 1, "wan", "ab")) @@ ("m" :> Link("y", 1, "dzx", "bc")),
      codes |-> {"x", "y"}],
     [links |-> ("k" :> Link("unknown", 1, "wan", "ab")), codes |-> {"y"}]}

Spans == {[from |-> 1, to |-> 4], [from |-> 2, to |-> 4], [from |-> 4, to |-> 1]}

VARIABLE open

mcVars == <<open, vars, logVars>>

\* Whatever is not open stands still.
MCInit ==
    /\ open \in {"store", "changelog"}
    /\ Init /\ LogInit
    /\ open = "store" =>
          /\ record = [e \in Epochs |-> NoRecord] /\ span = [from |-> 1, to |-> 4]
    /\ open = "changelog" =>
          /\ span \in Spans
          /\ object = [e \in Epoch |-> Nothing]
          /\ at = [q \in Request |-> r1] /\ want = [q \in Request |-> 1]

MCNext ==
    \/ open = "store" /\ Next /\ UNCHANGED <<open, logVars>>
    \/ open = "changelog" /\ LogNext /\ UNCHANGED <<open, vars>>

MCSpec == MCInit /\ [][MCNext]_mcVars
=============================================================================
