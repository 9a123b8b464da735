----------------------------- MODULE RoutesProofs ----------------------------
(***************************************************************************)
(* What a read route answers is as recent as its caches promise            *)
(* (ServedIsRecent), for any number of requests at the same time and any   *)
(* programs that add up by themselves.                                     *)
(*                                                                         *)
(* A program is checked step by step for what a request may carry through  *)
(* it alone (ProgramsAssumption, which TLC evaluates for the routes there  *)
(* are).  With others in between, a request carries one tick more at the   *)
(* most, and an entry what some request kept, the tick of that request and *)
(* the time it was held (RoutesInv).  A shared fetch makes a request as    *)
(* old as the first who asked: it is the last the request waits for, so    *)
(* that no second tick can follow.  The ISR copy outlives its window by    *)
(* the ticks nobody asked for it and by one more while somebody does:      *)
(* being asked for means that a request is under way to renew it           *)
(* (PageRecent).                                                           *)
(***************************************************************************)
EXTENDS Routes, TLAPS

\* A tick a request may have waited by now.
Waited(i, late) ==
    IF \E j \in DOMAIN route.steps : j < i /\ route.steps[j].do = "join" THEN 1 ELSE late

RequestType == [pc : Nat, kind : Kinds, age : Nat, late : {0, 1}]
EntryType == [kind : Kinds, age : Nat, held : Nat]
CopyType == [kind : Kinds, age : Nat, held : Nat, lull : Nat, asked : BOOLEAN]
AnswerType == [kind : Kinds, age : Nat, lull : Nat]

RouteTyped ==
    /\ route \in Programs
    /\ request \in [Requests -> RequestType]
    /\ memo \in [Caches -> {Nil} \union EntryType]

\* A request is as old as its program says at the step it is at.
RequestRecent(r) ==
    /\ ~Running(r) => request[r].late = 0
    /\ Running(r) =>
          /\ request[r].pc \in DOMAIN route.steps
          /\ \E a \in Carried(route)[request[r].pc] :
                /\ a.kind = request[r].kind
                /\ request[r].age <= a.age + Waited(request[r].pc, request[r].late)

\* An entry is as old as when some step kept it, and what it was held since.
MemoRecent(c) ==
    memo[c] # Nil =>
        /\ memo[c].held <= Lives(c)
        /\ \E i \in DOMAIN route.steps :
              /\ KeepsAt(route.steps, i, c)
              /\ \E m \in Carried(route)[i] :
                    m.kind = memo[c].kind /\ memo[c].age <= m.age + 1 + memo[c].held

\* So is the ISR copy, which is held for its window, a tick of the request that
\* renews it, and what nobody asked for it.
Delay == IF \E r \in Requests : request[r].late = 1 THEN 1 ELSE 0
PageRecent ==
    page # Nil =>
        /\ route.isr > 0
        /\ Lifetimes(route, page.kind) \in Nat
        /\ page.age <= Lifetimes(route, page.kind) + 1 + page.held
        /\ page.held <= route.isr + page.lull + Delay
        /\ page.asked => \E r \in Requests : Running(r)

\* So is what the CDN holds.
EdgeRecent ==
    edge # Nil =>
        /\ edge.kind \in DOMAIN route.cdn
        /\ Lifetimes(route, edge.kind) \in Nat
        /\ edge.held <= OfCdn(edge.kind)
        /\ edge.age <= Lifetimes(route, edge.kind) + 1 + OfPage + edge.lull + edge.held

OutsideRecent ==
    /\ page \in {Nil} \union CopyType /\ PageRecent
    /\ edge \in {Nil} \union CopyType /\ EdgeRecent
    /\ answered \in AnswerType /\ ServedIsRecent

RequestsRecent == \A r \in Requests : RequestRecent(r)
MemosRecent == \A c \in Caches : MemoRecent(c)

RoutesInv ==
    /\ RouteTyped
    /\ RequestsRecent
    /\ MemosRecent
    /\ OutsideRecent
-----------------------------------------------------------------------------
\* Every cache lives a tick at least.
LEMMA LivesNat == \A c : Lives(c) \in Nat \ {0}
  BY DEF Lives, Ttl

\* The program of the route, as its assumption has it.
LEMMA Checked ==
  ASSUME RouteTyped
  PROVE  /\ ProgramTyped(route) /\ AddsUp(route) /\ JoinsLast(route)
  BY ProgramsAssumption DEF RouteTyped

\* The tick waited counts at every step after.
LEMMA WaitedGrows ==
  ASSUME RouteTyped, NEW i \in Nat, NEW n \in Nat, NEW late \in {0, 1}
  PROVE  /\ Waited(i, late) \in {0, 1} /\ late <= Waited(i, late)
         /\ Waited(i, late) <= Waited(i + n, late)
  <1> DEFINE Joined(k) == \E j \in DOMAIN route.steps : j < k /\ route.steps[j].do = "join"
  <1>1. DOMAIN route.steps \subseteq Nat
    BY Checked DEF ProgramTyped
  <1>2. Joined(i) => Joined(i + n)
    <2>1. ASSUME NEW j \in DOMAIN route.steps, j < i  PROVE j < i + n
      BY <1>1, <2>1
    <2> QED
      BY <2>1
  <1>3. \A k : Waited(k, late) = IF Joined(k) THEN 1 ELSE late
    BY DEF Waited
  <1> HIDE DEF Joined
  <1> QED
    BY <1>2, <1>3

\* What a request carries, with the tick it may have waited.
LEMMA Carries ==
  ASSUME RoutesInv, NEW r \in Requests, Running(r)
  PROVE  /\ request[r] \in RequestType
         /\ request[r].pc \in DOMAIN route.steps
         /\ request[r].pc \in Nat \ {0}
         /\ \E a \in Carried(route)[request[r].pc] :
               /\ a \in [kind : Kinds, age : Nat]
               /\ a.kind = request[r].kind
               /\ request[r].age <= a.age + Waited(request[r].pc, request[r].late)
  <1>1. ProgramTyped(route)
    BY Checked DEF RoutesInv
  <1> QED
    BY <1>1 DEF RoutesInv, RouteTyped, RequestsRecent, RequestRecent, ProgramTyped

\* An answer as old as a kind's caches let it be, or as the ISR copy, is served in time.
LEMMA Served ==
  ASSUME route \in Programs, ProgramTyped(route), route' = route,
         NEW kind \in Kinds, NEW age \in Nat, NEW lull \in Nat,
         answered' = Told(kind, age, lull), Lifetimes(route, kind) \in Nat,
         age <= Lifetimes(route, kind) + 1 + OfPage + OfCdn(kind) + lull
  PROVE  answered' \in AnswerType /\ ServedIsRecent'
  <1>1. /\ answered'.kind = kind /\ answered'.age = age /\ answered'.lull = lull
        /\ answered' \in AnswerType
    BY DEF Told, AnswerType
  <1>2. Promised(kind)' = Lifetimes(route, kind) + 1 + OfPage + OfCdn(kind)
    BY DEF Promised, OfPage, OfCdn
  <1>3. Promised(answered.kind)' = Promised(kind)'
    BY <1>1 DEF Promised, OfPage, OfCdn
  <1>4. answered'.age <= Promised(answered.kind)' + answered'.lull
    BY <1>1, <1>2, <1>3
  <1> QED
    BY <1>1, <1>4 DEF ServedIsRecent

LEMMA NothingServed ==
  ASSUME answered' = None
  PROVE  answered' \in AnswerType /\ ServedIsRecent'
  BY DEF None, Told, AnswerType, Kinds, ServedIsRecent

\* What a tick makes of an entry, and of a copy.
LEMMA LaterEntry ==
  ASSUME NEW e \in EntryType
  PROVE  /\ Later(e) \in EntryType /\ Later(e).kind = e.kind
         /\ Later(e).age = e.age + 1 /\ Later(e).held = e.held + 1
  <1> DEFINE age == e.age + 1
             held == e.held + 1
  <1>1. Later(e) = [e EXCEPT !.age = age, !.held = held]
    BY DEF Later
  <1>2. age \in Nat /\ held \in Nat
    BY DEF EntryType
  <1> HIDE DEF age, held
  <1>3. /\ Later(e) \in EntryType /\ Later(e).kind = e.kind
        /\ Later(e).age = age /\ Later(e).held = held
    BY <1>1, <1>2 DEF EntryType
  <1> QED
    BY <1>3 DEF age, held

LEMMA LaterCopy ==
  ASSUME NEW e \in CopyType
  PROVE  /\ Later(e) \in CopyType /\ Later(e).kind = e.kind
         /\ Later(e).age = e.age + 1 /\ Later(e).held = e.held + 1
         /\ Later(e).lull = e.lull /\ Later(e).asked = e.asked
  <1> DEFINE age == e.age + 1
             held == e.held + 1
  <1>1. Later(e) = [e EXCEPT !.age = age, !.held = held]
    BY DEF Later
  <1>2. age \in Nat /\ held \in Nat
    BY DEF CopyType
  <1> HIDE DEF age, held
  <1>3. /\ Later(e) \in CopyType /\ Later(e).kind = e.kind
        /\ Later(e).age = age /\ Later(e).held = held
        /\ Later(e).lull = e.lull /\ Later(e).asked = e.asked
    BY <1>1, <1>2 DEF CopyType
  <1> QED
    BY <1>3 DEF age, held

\* A copy nobody asks for, or asks for in vain, for n ticks more.
LEMMA LulledCopy ==
  ASSUME NEW e \in CopyType, NEW n \in Nat, NEW f,
         f = [e EXCEPT !.lull = @ + n, !.asked = FALSE]
  PROVE  /\ f \in CopyType /\ f.kind = e.kind /\ f.age = e.age
         /\ f.held = e.held /\ f.lull = e.lull + n /\ ~f.asked
  <1> DEFINE lull == e.lull + n
  <1>1. f = [e EXCEPT !.lull = lull, !.asked = FALSE] /\ lull \in Nat
    BY DEF CopyType
  <1> HIDE DEF lull
  <1>2. /\ f \in CopyType /\ f.kind = e.kind /\ f.age = e.age
        /\ f.held = e.held /\ f.lull = lull /\ ~f.asked
    BY <1>1 DEF CopyType
  <1> QED
    BY <1>2 DEF lull

\* The windows are numbers.
LEMMA Windows ==
  ASSUME ProgramTyped(route)
  PROVE  OfPage \in Nat /\ route.isr \in Nat /\ \A kind : OfCdn(kind) \in Nat
  BY DEF ProgramTyped, OfPage, OfCdn

\* What is outside stands while nobody there is served, and no request ends.
LEMMA OutsideStands ==
  ASSUME OutsideRecent, route' = route, page' = page, edge' = edge, answered' = None,
         \A q \in Requests : request'[q].late = request[q].late /\ (Running(q) => Running(q)')
  PROVE  OutsideRecent'
  <1>1. Delay' = Delay
    BY DEF Delay
  <1>2. PageRecent'
    BY <1>1 DEF OutsideRecent, PageRecent
  <1>3. EdgeRecent'
    BY DEF OutsideRecent, EdgeRecent, OfCdn, OfPage
  <1> QED
    BY <1>2, <1>3, NothingServed DEF OutsideRecent

\* A request that ends makes the ISR copy anew, or leaves it and its tick with it.
LEMMA Printed ==
  ASSUME RoutesInv, route' = route, NEW r \in Requests, Running(r),
         NEW kind \in Kinds, NEW age \in Nat, Lifetimes(route, kind) \in Nat,
         age <= Lifetimes(route, kind) + 1,
         request' = [request EXCEPT ![r] = Resting], Prints(r, kind, age)
  PROVE  page' \in {Nil} \union CopyType /\ PageRecent'
  <1>1. /\ RouteTyped /\ ProgramTyped(route) /\ route.isr \in Nat
        /\ page \in {Nil} \union CopyType /\ PageRecent
    BY Checked, Windows DEF RoutesInv, OutsideRecent
  <1>2. Delay \in {0, 1} /\ Delay' \in {0, 1}
    BY DEF Delay
  <1>3. CASE page' = IF route.isr > 0 THEN Copy(kind, age, 0) ELSE Nil
    <2>1. CASE route.isr > 0
      <3>1. page' = [kind |-> kind, age |-> age, held |-> 0, lull |-> 0, asked |-> FALSE]
        BY <1>3, <2>1 DEF Copy
      <3>2. /\ page' \in CopyType /\ page'.kind = kind /\ page'.age = age
            /\ page'.held = 0 /\ page'.lull = 0 /\ ~page'.asked
        BY <3>1 DEF CopyType
      <3>3. Lifetimes(route, page.kind)' = Lifetimes(route, kind)
        BY <3>2
      <3> QED
        BY <1>1, <1>2, <2>1, <3>2, <3>3 DEF PageRecent
    <2>2. CASE ~(route.isr > 0)
      BY <1>3, <2>2 DEF PageRecent
    <2> QED
      BY <2>1, <2>2
  <1>4. CASE page' = IF page = Nil THEN Nil
                     ELSE [page EXCEPT !.lull = @ + Vain(r), !.asked = FALSE]
    <2>1. CASE page = Nil
      BY <1>4, <2>1 DEF PageRecent
    <2>2. CASE page # Nil
      <3>1. page \in CopyType /\ request[r].late \in {0, 1}
        BY <1>1, <2>2 DEF RouteTyped, RequestType
      <3>2. Vain(r) \in {0, 1}
        BY <3>1 DEF Vain
      <3>3. /\ page' \in CopyType /\ page'.kind = page.kind /\ page'.age = page.age
            /\ page'.held = page.held /\ page'.lull = page.lull + Vain(r) /\ ~page'.asked
        <4>1. page' = [page EXCEPT !.lull = @ + Vain(r), !.asked = FALSE] /\ Vain(r) \in Nat
          BY <1>4, <2>2, <3>2
        <4> QED
          BY <3>1, <4>1, LulledCopy
      <3>4. page'.held <= route.isr + page'.lull + Delay'
        <4>1. page.held <= route.isr + page.lull + Delay
          BY <1>1, <2>2 DEF PageRecent
        <4>2. /\ page.held \in Nat /\ page.lull \in Nat
          BY <3>1 DEF CopyType
        <4>3. CASE page.held <= route.isr
          BY <1>1, <1>2, <3>2, <3>3, <4>2, <4>3
        <4>4. CASE page.held > route.isr /\ request[r].late = 1
          BY <1>1, <1>2, <3>3, <4>1, <4>2, <4>4 DEF Vain
        <4>5. CASE request[r].late = 0
          <5>1. ASSUME NEW q \in Requests, request[q].late = 1
                PROVE  request'[q].late = 1
            BY <1>1, <4>5, <5>1 DEF RouteTyped
          <5>2. Delay <= Delay'
            BY <1>2, <5>1 DEF Delay
          <5> QED
            BY <1>1, <1>2, <3>2, <3>3, <4>1, <4>2, <5>2
        <4> QED
          BY <1>1, <3>1, <4>2, <4>3, <4>4, <4>5
      <3>5. /\ route.isr > 0 /\ Lifetimes(route, page.kind)' = Lifetimes(route, page.kind)
            /\ Lifetimes(route, page.kind) \in Nat
            /\ page.age <= Lifetimes(route, page.kind) + 1 + page.held
        BY <1>1, <2>2, <3>3 DEF PageRecent
      <3> QED
        BY <3>3, <3>4, <3>5 DEF PageRecent
    <2> QED
      BY <2>1, <2>2
  <1> QED
    BY <1>3, <1>4 DEF Prints

\* What the CDN takes from further in, and what the reader is told, is as recent.
LEMMA Passed ==
  ASSUME RoutesInv, route' = route, NEW kind \in Kinds, NEW age \in Nat, NEW lull \in Nat,
         Lifetimes(route, kind) \in Nat, age <= Lifetimes(route, kind) + 1 + OfPage + lull,
         Passes(kind, age, lull)
  PROVE  /\ edge' \in {Nil} \union CopyType /\ EdgeRecent'
         /\ answered' \in AnswerType /\ ServedIsRecent'
  <1>1. /\ route \in Programs /\ ProgramTyped(route)
        /\ OfPage \in Nat /\ OfCdn(kind) \in Nat
    BY Checked, Windows DEF RoutesInv, RouteTyped
  <1>2. answered' \in AnswerType /\ ServedIsRecent'
    <2>1. answered' = Told(kind, age, lull)
      BY DEF Passes
    <2> QED
      BY <1>1, <2>1, Served
  <1>3. edge' \in {Nil} \union CopyType /\ EdgeRecent'
    <2>1. CASE kind \in DOMAIN route.cdn
      <3>1. edge' = [kind |-> kind, age |-> age, held |-> 0, lull |-> lull, asked |-> FALSE]
        BY <2>1 DEF Passes, Copy
      <3>2. /\ edge' \in CopyType /\ edge'.kind = kind /\ edge'.age = age
            /\ edge'.held = 0 /\ edge'.lull = lull
        BY <3>1 DEF CopyType
      <3>3. /\ OfCdn(edge.kind)' = OfCdn(kind) /\ OfPage' = OfPage
            /\ Lifetimes(route, edge.kind)' = Lifetimes(route, kind)
        BY <3>2 DEF OfCdn, OfPage
      <3> QED
        BY <1>1, <2>1, <3>2, <3>3 DEF EdgeRecent
    <2>2. CASE kind \notin DOMAIN route.cdn
      <3>1. edge' = edge
        BY <2>2 DEF Passes
      <3> QED
        BY <3>1 DEF RoutesInv, OutsideRecent, EdgeRecent, OfCdn, OfPage
    <2> QED
      BY <2>1, <2>2
  <1> QED
    BY <1>2, <1>3

\* A move the program allows: the request is as recent as before, and what is outside
\* as recent as the program says.
LEMMA Moved ==
  ASSUME RoutesInv, route' = route, NEW r \in Requests, Running(r),
         NEW n \in Nat, NEW kind \in Kinds, NEW age \in Nat, NEW b \in Nat,
         age <= b + Waited(request[r].pc, request[r].late),
         LeadsOn(route, request[r].pc, n, Carry(kind, b)),
         Moves(r, n, kind, age)
  PROVE  /\ request' \in [Requests -> RequestType]
         /\ RequestsRecent' /\ OutsideRecent'
  <1> DEFINE pc == request[r].pc
             late == request[r].late
  <1>1. /\ request \in [Requests -> RequestType] /\ request[r] \in RequestType
        /\ pc \in DOMAIN route.steps /\ pc \in Nat \ {0} /\ late \in {0, 1}
        /\ RouteTyped /\ OutsideRecent
    BY Carries DEF RoutesInv, RouteTyped, RequestType
  <1>2. /\ Waited(pc, late) \in {0, 1}
        /\ Waited(pc, late) <= Waited(pc + n, late)
    BY <1>1, WaitedGrows
  <1>3. OfPage \in Nat
    BY <1>1, Checked, Windows
  <1>4. ASSUME NEW q \in Requests, request'[q] = request[q]  PROVE RequestRecent(q)'
    <2>1. RequestRecent(q)
      BY DEF RoutesInv, RequestsRecent
    <2> QED
      BY <1>4, <2>1 DEF RequestRecent, Running, Waited
  <1>5. CASE n = 0
    <2>1. /\ request' = [request EXCEPT ![r] = Resting]
          /\ Prints(r, kind, age)
          /\ Passes(kind, age, 0) \/ (answered' = None /\ edge' = edge)
      BY <1>5 DEF Moves, Says
    <2>2. Lifetimes(route, kind) \in Nat /\ b <= Lifetimes(route, kind)
      BY <1>5 DEF LeadsOn, Carry
    <2>3. age <= Lifetimes(route, kind) + 1
      BY <1>2, <2>2
    <2>4. request' \in [Requests -> RequestType] /\ RequestsRecent'
      <3>1. Resting \in RequestType /\ Resting.pc = 0 /\ Resting.late = 0
        BY DEF Resting, RequestType, Kinds
      <3>2. RequestRecent(r)'
        <4>1. request'[r] = Resting
          BY <1>1, <2>1
        <4> QED
          BY <3>1, <4>1 DEF RequestRecent, Running
      <3>3. ASSUME NEW q \in Requests, q # r  PROVE RequestRecent(q)'
        BY <1>1, <1>4, <2>1, <3>3
      <3> QED
        BY <1>1, <2>1, <3>1, <3>2, <3>3 DEF RequestsRecent
    <2>5. page' \in {Nil} \union CopyType /\ PageRecent'
      BY <2>1, <2>2, <2>3, Printed
    <2>6. /\ edge' \in {Nil} \union CopyType /\ EdgeRecent'
          /\ answered' \in AnswerType /\ ServedIsRecent'
      <3>1. CASE Passes(kind, age, 0)
        <4>1. 0 \in Nat /\ age <= Lifetimes(route, kind) + 1 + OfPage + 0
          BY <1>3, <2>2, <2>3
        <4> QED
          BY <2>2, <3>1, <4>1, Passed
      <3>2. CASE answered' = None /\ edge' = edge
        BY <1>1, <3>2, NothingServed DEF OutsideRecent, EdgeRecent, OfCdn, OfPage
      <3> QED
        BY <2>1, <3>1, <3>2
    <2> QED
      BY <2>4, <2>5, <2>6 DEF OutsideRecent
  <1>6. CASE n # 0
    <2>1. /\ request' = [request EXCEPT ![r] =
                            Ahead(r, n, kind, age)]
          /\ answered' = None /\ edge' = edge /\ page' = page
      BY <1>6 DEF Moves
    <2>2. pc + n \in DOMAIN route.steps /\ Carry(kind, b) \in Carried(route)[pc + n]
      BY <1>6 DEF LeadsOn
    <2>3. request'[r] = Ahead(r, n, kind, age)
      BY <1>1, <2>1
    <2>4. /\ request'[r].pc = pc + n /\ request'[r].kind = kind
          /\ request'[r].age = age /\ request'[r].late = late
          /\ request'[r] \in RequestType
      BY <1>1, <2>3 DEF RequestType, Ahead
    <2>5. RequestRecent(r)'
      <3>1. age <= b + Waited(pc + n, late)
        BY <1>1, <1>2, WaitedGrows
      <3>2. Carry(kind, b).kind = kind /\ Carry(kind, b).age = b
        BY DEF Carry
      <3>3. pc + n > 0
        BY <1>1
      <3> QED
        BY <2>2, <2>4, <3>1, <3>2, <3>3 DEF RequestRecent, Running, Waited
    <2>6. ASSUME NEW q \in Requests, q # r  PROVE RequestRecent(q)' /\ request'[q] = request[q]
      BY <1>1, <1>4, <2>1, <2>6
    <2>7. request' \in [Requests -> RequestType]
      BY <1>1, <2>1, <2>3, <2>4
    <2>8. \A q \in Requests : request'[q].late = request[q].late /\ (Running(q) => Running(q)')
      <3>1. pc + n > 0
        BY <1>1
      <3> QED
        BY <2>4, <2>6, <3>1 DEF Running
    <2>9. OutsideRecent'
      BY <1>1, <2>1, <2>8, OutsideStands
    <2> QED
      BY <2>5, <2>6, <2>7, <2>9 DEF RequestsRecent
  <1> QED
    BY <1>5, <1>6

\* The caches' entries, when a step leaves them alone.
LEMMA MemosStand ==
  ASSUME MemosRecent, route' = route, memo' = memo  PROVE MemosRecent'
  BY DEF MemosRecent, MemoRecent, KeepsAt

\* A check or a fetch that decides for one of its outcomes.
LEMMA BranchesRecent ==
  ASSUME RoutesInv, NEW r \in Requests, Decides(r) \/ Lands(r)
  PROVE  RoutesInv'
  <1> DEFINE i == request[r].pc
             s == route.steps[i]
  <1>1. /\ Running(r) /\ s.do \in Branches /\ route' = route /\ memo' = memo
        /\ \E kind \in DOMAIN s.to : Moves(r, s.to[kind], kind, request[r].age)
    BY DEF Decides, Lands, Does, StepOf, Branches
  <1>2. PICK kind \in DOMAIN s.to : Moves(r, s.to[kind], kind, request[r].age)
    BY <1>1
  <1>3. /\ request[r] \in RequestType /\ i \in DOMAIN route.steps /\ i \in Nat \ {0}
    BY <1>1, Carries
  <1>4. PICK a \in Carried(route)[i] :
           /\ a \in [kind : Kinds, age : Nat]
           /\ a.kind = request[r].kind
           /\ request[r].age <= a.age + Waited(i, request[r].late)
    BY <1>1, Carries
  <1>5. RouteTyped
    BY DEF RoutesInv
  <1>6. kind \in Kinds /\ s.to[kind] \in Nat
    BY <1>1, <1>3, <1>5, Checked DEF ProgramTyped
  <1>7. LeadsOn(route, i, s.to[kind], Carry(kind, a.age))
    BY <1>1, <1>3, <1>4, <1>5, Checked DEF AddsUp
  <1>8. request[r].age \in Nat /\ a.age \in Nat
    BY <1>3, <1>4 DEF RequestType
  <1>9. /\ request' \in [Requests -> RequestType]
        /\ RequestsRecent' /\ OutsideRecent'
    <2> HIDE DEF s
    <2> QED
      BY <1>1, <1>2, <1>4, <1>6, <1>7, <1>8, Moved
  <1> QED
    BY <1>1, <1>5, <1>9, MemosStand DEF RoutesInv, RouteTyped

\* A hit carries the entry's age, at the most its lifetime more than when it was kept.
LEMMA RecallsRecent ==
  ASSUME RoutesInv, NEW r \in Requests, Recalls(r)
  PROVE  RoutesInv'
  <1> DEFINE i == request[r].pc
             s == route.steps[i]
  <1>1. /\ Running(r) /\ s.do = "recall" /\ route' = route /\ memo' = memo
        /\ IF memo[s.cache] # Nil
           THEN Moves(r, s.to.hit, memo[s.cache].kind, Older(memo[s.cache].age, request[r].age))
           ELSE Moves(r, 1, request[r].kind, request[r].age)
    BY DEF Recalls, Does, StepOf, Hits
  <1>2. /\ request[r] \in RequestType /\ i \in DOMAIN route.steps /\ i \in Nat \ {0}
    BY <1>1, Carries
  <1>3. PICK a \in Carried(route)[i] :
           /\ a \in [kind : Kinds, age : Nat]
           /\ a.kind = request[r].kind
           /\ request[r].age <= a.age + Waited(i, request[r].late)
    BY <1>1, Carries
  <1>4. RouteTyped /\ ProgramTyped(route) /\ AddsUp(route)
    BY Checked DEF RoutesInv
  <1>5. s.cache \in Caches /\ s.to.hit \in Nat
    BY <1>1, <1>2, <1>4 DEF ProgramTyped
  <1>6. /\ request[r].late \in {0, 1} /\ request[r].age \in Nat /\ request[r].kind \in Kinds
        /\ Waited(i, request[r].late) \in {0, 1}
    BY <1>2, <1>4, WaitedGrows DEF RequestType
  <1>7. /\ request' \in [Requests -> RequestType]
        /\ RequestsRecent' /\ OutsideRecent'
    <2>1. CASE memo[s.cache] = Nil
      <3>1. LeadsOn(route, i, 1, a)
        BY <1>1, <1>2, <1>3, <1>4 DEF AddsUp
      <3>2. a = Carry(request[r].kind, a.age) /\ a.age \in Nat
        BY <1>3 DEF Carry
      <3> QED
        BY <1>1, <1>3, <1>6, <2>1, <3>1, <3>2, Moved
    <2>2. CASE memo[s.cache] # Nil
      <3> DEFINE e == memo[s.cache]
                 age == Older(e.age, request[r].age)
      <3>1. e \in EntryType /\ e.held <= Lives(s.cache)
        BY <1>4, <1>5, <2>2 DEF RoutesInv, RouteTyped, MemosRecent, MemoRecent
      <3>2. PICK q \in DOMAIN route.steps :
               /\ KeepsAt(route.steps, q, s.cache)
               /\ \E m \in Carried(route)[q] : m.kind = e.kind /\ e.age <= m.age + 1 + e.held
        BY <1>5, <2>2 DEF RoutesInv, MemosRecent, MemoRecent
      <3>3. PICK m \in Carried(route)[q] : m.kind = e.kind /\ e.age <= m.age + 1 + e.held
        BY <3>2
      <3>4. m \in [kind : Kinds, age : Nat]
        BY <1>4, <3>2, <3>3 DEF ProgramTyped
      <3>5. LeadsOn(route, i, s.to.hit, Recalled(m, s.cache, a))
        BY <1>1, <1>2, <1>3, <1>4, <3>2, <3>3 DEF AddsUp
      <3> DEFINE b == Older(m.age + 1 + Lives(s.cache), a.age)
      <3>6. LeadsOn(route, i, s.to.hit, Carry(e.kind, b))
        BY <3>3, <3>5 DEF Recalled
      <3>7. b \in Nat /\ age \in Nat /\ age <= b + Waited(i, request[r].late)
        BY <1>3, <1>6, <3>1, <3>3, <3>4, LivesNat DEF Older, EntryType
      <3>8. e.kind \in Kinds
        BY <3>1 DEF EntryType
      <3>9. Moves(r, s.to.hit, e.kind, age)
        BY <1>1, <2>2
      <3> HIDE DEF b, age, e, s
      <3> QED
        BY <1>1, <1>5, <3>6, <3>7, <3>8, <3>9, Moved
    <2> QED
      BY <2>1, <2>2
  <1> QED
    BY <1>1, <1>7, MemosStand DEF RoutesInv, RouteTyped

\* What is kept is what the request carries: a tick older at the most, or stamped as late.
LEMMA KeepsRecent ==
  ASSUME RoutesInv, NEW r \in Requests, Keeps(r)
  PROVE  RoutesInv'
  <1> DEFINE i == request[r].pc
  <1>0. PICK c : c = route.steps[i].cache
    OBVIOUS
  <1> DEFINE held == IF c \in StampedAtStart THEN request[r].late ELSE 0
  <1>1. /\ Running(r) /\ route.steps[i].do = "keep" /\ route' = route
        /\ memo' = [memo EXCEPT ![c] = Entry(request[r].kind, request[r].age, held)]
        /\ Moves(r, 1, request[r].kind, request[r].age)
    BY <1>0 DEF Keeps, Does, StepOf
  <1>2. /\ request[r] \in RequestType /\ i \in DOMAIN route.steps /\ i \in Nat \ {0}
    BY <1>1, Carries
  <1>3. PICK a \in Carried(route)[i] :
           /\ a \in [kind : Kinds, age : Nat]
           /\ a.kind = request[r].kind
           /\ request[r].age <= a.age + Waited(i, request[r].late)
    BY <1>1, Carries
  <1>4. RouteTyped /\ ProgramTyped(route) /\ AddsUp(route)
    BY Checked DEF RoutesInv
  <1>5. c \in Caches
    BY <1>0, <1>1, <1>2, <1>4 DEF ProgramTyped
  <1>6. /\ request[r].late \in {0, 1} /\ request[r].age \in Nat /\ request[r].kind \in Kinds
        /\ Waited(i, request[r].late) \in {0, 1}
    BY <1>2, <1>4, WaitedGrows DEF RequestType
  <1>7. /\ request' \in [Requests -> RequestType]
        /\ RequestsRecent' /\ OutsideRecent'
    <2>1. LeadsOn(route, i, 1, a)
      BY <1>1, <1>2, <1>3, <1>4 DEF AddsUp
    <2>2. a = Carry(request[r].kind, a.age) /\ a.age \in Nat
      BY <1>3 DEF Carry
    <2> QED
      BY <1>1, <1>3, <1>6, <2>1, <2>2, Moved
  <1> DEFINE e == Entry(request[r].kind, request[r].age, held)
  <1>8. /\ e \in EntryType /\ e.held \in 0..1 /\ e.kind = request[r].kind
        /\ e.age = request[r].age
    BY <1>6 DEF Entry, EntryType
  <1>9. memo \in [Caches -> {Nil} \union EntryType]
    BY <1>4 DEF RouteTyped
  <1>10. memo' \in [Caches -> {Nil} \union EntryType]
    <2> HIDE DEF e, held
    <2> QED
      BY <1>1, <1>5, <1>8, <1>9 DEF e
  <1>11. memo'[c] = e /\ \A d \in Caches \ {c} : memo'[d] = memo[d]
    <2> HIDE DEF e, held
    <2> QED
      BY <1>1, <1>5, <1>9 DEF e
  <1>12. MemoRecent(c)'
    <2>1. memo'[c].held <= Lives(c)
      BY <1>8, <1>11, LivesNat
    <2>2. KeepsAt(route.steps, i, c)
      BY <1>0, <1>1 DEF KeepsAt
    <2>3. a.kind = memo'[c].kind /\ memo'[c].age <= a.age + 1 + memo'[c].held
      <3> HIDE DEF e
      <3> QED
        BY <1>3, <1>6, <1>8, <1>11
    <2>4. \E j \in DOMAIN route.steps :
             /\ KeepsAt(route.steps, j, c)
             /\ \E m \in Carried(route)[j] :
                   m.kind = memo'[c].kind /\ memo'[c].age <= m.age + 1 + memo'[c].held
      BY <1>2, <2>2, <2>3
    <2> QED
      BY <1>1, <2>1, <2>4 DEF MemoRecent, KeepsAt
  <1>13. MemosRecent'
    <2>1. ASSUME NEW d \in Caches, d # c  PROVE MemoRecent(d)'
      <3>1. memo'[d] = memo[d] /\ MemoRecent(d)
        BY <1>11, <2>1 DEF RoutesInv, MemosRecent
      <3> QED
        BY <1>1, <3>1 DEF MemoRecent, KeepsAt
    <2> QED
      BY <1>12, <2>1 DEF MemosRecent
  <1> QED
    BY <1>1, <1>4, <1>7, <1>10, <1>13 DEF RoutesInv, RouteTyped

\* An answer of the function is what the request carried.
LEMMA RepliesRecent ==
  ASSUME RoutesInv, NEW r \in Requests, Replies(r)
  PROVE  RoutesInv'
  <1> DEFINE i == request[r].pc
  <1>1. /\ Running(r) /\ route.steps[i].do = "reply" /\ route' = route /\ memo' = memo
        /\ Moves(r, 0, request[r].kind, request[r].age)
    BY DEF Replies, Does, StepOf, Moves
  <1>2. /\ request[r] \in RequestType /\ i \in DOMAIN route.steps /\ i \in Nat \ {0}
    BY <1>1, Carries
  <1>3. PICK a \in Carried(route)[i] :
           /\ a \in [kind : Kinds, age : Nat]
           /\ a.kind = request[r].kind
           /\ request[r].age <= a.age + Waited(i, request[r].late)
    BY <1>1, Carries
  <1>4. RouteTyped /\ AddsUp(route)
    BY Checked DEF RoutesInv
  <1>5. LeadsOn(route, i, 0, a)
    BY <1>1, <1>2, <1>3, <1>4 DEF AddsUp
  <1>6. a = Carry(request[r].kind, a.age) /\ a.age \in Nat
    BY <1>3 DEF Carry
  <1>7. request[r].age \in Nat /\ request[r].kind \in Kinds
    BY <1>2 DEF RequestType
  <1>8. /\ request' \in [Requests -> RequestType]
        /\ RequestsRecent' /\ OutsideRecent'
    BY <1>1, <1>3, <1>5, <1>6, <1>7, Moved
  <1> QED
    BY <1>1, <1>4, <1>8, MemosStand DEF RoutesInv, RouteTyped

\* Whoever joined the fetch is as old as its first, who is a tick late at the most.
LEMMA JoinsRecent ==
  ASSUME RoutesInv, NEW r \in Requests, LandsForAll(r)
  PROVE  RoutesInv'
  <1>0. PICK i : i = request[r].pc
    OBVIOUS
  <1> DEFINE s == route.steps[i]
  <1>1. /\ Running(r) /\ s.do = "join" /\ route' = route /\ memo' = memo /\ edge' = edge
        /\ page' = page /\ answered' = None
        /\ \E kind \in DOMAIN s.to, first \in Flock(r) :
              request' = [q \in Requests |->
                  IF q \in Flock(r) THEN Ahead(q, s.to[kind], kind, request[first].age)
                  ELSE request[q]]
    BY <1>0 DEF LandsForAll, Does, StepOf
  <1>2. PICK kind \in DOMAIN s.to, first \in Flock(r) :
           request' = [q \in Requests |->
               IF q \in Flock(r) THEN Ahead(q, s.to[kind], kind, request[first].age)
               ELSE request[q]]
    BY <1>1
  <1>3. i \in DOMAIN route.steps /\ i \in Nat \ {0}
    BY <1>0, <1>1, Carries
  <1>4. RouteTyped /\ ProgramTyped(route) /\ AddsUp(route) /\ JoinsLast(route)
    BY Checked DEF RoutesInv
  <1>5. kind \in Kinds /\ s.to[kind] \in Nat \ {0}
    BY <1>1, <1>3, <1>4 DEF ProgramTyped, JoinsLast, Branches
  <1> DEFINE n == s.to[kind]
             age == request[first].age
  <1>6. first \in Requests /\ request[first].pc = i
    BY <1>0 DEF Flock
  <1>7. Running(first)
    BY <1>3, <1>6 DEF Running
  <1>8. PICK a \in Carried(route)[i] :
           /\ a \in [kind : Kinds, age : Nat]
           /\ a.kind = request[first].kind
           /\ request[first].age <= a.age + Waited(i, request[first].late)
    BY <1>6, <1>7, Carries
  <1> DEFINE b == a.age
  <1>9. b \in Nat /\ Carry(kind, b) \in Carried(route)[i + n] /\ i + n \in DOMAIN route.steps
    <2>1. LeadsOn(route, i, n, Carry(kind, a.age))
      BY <1>1, <1>3, <1>4, <1>8 DEF AddsUp, Branches
    <2> QED
      BY <1>5, <1>8, <2>1 DEF LeadsOn
  <1>10. age \in Nat /\ age <= b + 1
    <2>1. /\ request[first].late \in {0, 1} /\ request[first].age \in Nat
      BY <1>4, <1>6 DEF RouteTyped, RequestType
    <2>2. Waited(i, request[first].late) \in {0, 1}
      BY <1>3, <1>4, <2>1, WaitedGrows
    <2> QED
      BY <1>8, <2>1, <2>2
  <1>11. ASSUME NEW q \in Requests
         PROVE  /\ request'[q] \in RequestType /\ RequestRecent(q)'
                /\ request'[q].late = request[q].late /\ (Running(q) => Running(q)')
    <2>1. request[q] \in RequestType
      BY <1>4 DEF RouteTyped
    <2>2. CASE q \in Flock(r)
      <3> HIDE DEF s, n, age, b
      <3>1. request'[q] = Ahead(q, n, kind, age)
        BY <1>2, <2>2 DEF n, age, s
      <3>2. request[q].pc = i
        BY <1>0, <2>2 DEF Flock
      <3>3. /\ request'[q].pc = i + n /\ request'[q].kind = kind /\ request'[q].age = age
            /\ request'[q].late = request[q].late /\ request'[q] \in RequestType
        BY <1>3, <1>5, <1>10, <2>1, <3>1, <3>2 DEF Ahead, RequestType, n, s
      <3>4. Carry(kind, b).kind = kind /\ Carry(kind, b).age = b
        BY DEF Carry
      <3>5. \E w \in Carried(route)[i + n] : w.kind = kind /\ age <= w.age + 1
        BY <1>9, <1>10, <3>4
      <3>6. i + n > 0
        BY <1>3, <1>5 DEF n, s
      <3>7. \E j \in DOMAIN route.steps : j < i + n /\ route.steps[j].do = "join"
        <4>1. i < i + n
          BY <1>3, <1>5 DEF n, s
        <4> QED
          BY <1>1, <1>3, <4>1 DEF s
      <3> QED
        BY <1>1, <1>9, <3>3, <3>5, <3>6, <3>7 DEF RequestRecent, Running, Waited
    <2>3. CASE q \notin Flock(r)
      <3>1. request'[q] = request[q] /\ RequestRecent(q)
        BY <1>2, <2>3 DEF RoutesInv, RequestsRecent
      <3> QED
        BY <1>1, <2>1, <3>1 DEF RequestRecent, Running, Waited
    <2> QED
      BY <2>2, <2>3
  <1>12. request' \in [Requests -> RequestType] /\ RequestsRecent'
    <2>1. request' = [q \in Requests |-> request'[q]]
      BY <1>2
    <2> QED
      BY <1>11, <2>1 DEF RequestsRecent
  <1>13. OutsideRecent'
    BY <1>1, <1>11, OutsideStands DEF RoutesInv
  <1> QED
    BY <1>1, <1>4, <1>12, <1>13, MemosStand DEF RoutesInv, RouteTyped

\* A request that begins carries nothing.
LEMMA BeginsRecent ==
  ASSUME RoutesInv, route' = route, NEW r \in Requests, ~Running(r),
         request' = [request EXCEPT ![r] = Starts]
  PROVE  /\ request' \in [Requests -> RequestType] /\ RequestsRecent' /\ Running(r)'
         /\ \A q \in Requests :
               request'[q].late = request[q].late /\ (Running(q) => Running(q)')
  <1>1. request' = [request EXCEPT ![r] = Starts] /\ route' = route
    OBVIOUS
  <1>2. RouteTyped /\ ProgramTyped(route) /\ AddsUp(route)
    BY Checked DEF RoutesInv
  <1>3. /\ Starts \in RequestType /\ Starts.pc = 1 /\ Starts.kind = "nil" /\ Starts.age = 0
        /\ Starts.late = 0
    BY DEF Starts, Resting, RequestType, Kinds
  <1>4. request' \in [Requests -> RequestType] /\ request'[r] = Starts
    BY <1>1, <1>2, <1>3 DEF RouteTyped
  <1>5. RequestRecent(r)'
    <2>1. Carry("nil", 0) \in Carried(route)[1] /\ 1 \in DOMAIN route.steps
      BY <1>2 DEF AddsUp, ProgramTyped
    <2>2. Carry("nil", 0).kind = "nil" /\ Carry("nil", 0).age = 0
      BY DEF Carry
    <2>3. Waited(1, 0) \in {0, 1}
      BY <1>2, WaitedGrows
    <2>4. \E a \in Carried(route)[1] : a.kind = "nil" /\ 0 <= a.age + Waited(1, 0)
      BY <2>1, <2>2, <2>3
    <2> QED
      BY <1>1, <1>3, <1>4, <2>1, <2>4 DEF RequestRecent, Running, Waited
  <1>6. ASSUME NEW q \in Requests, q # r  PROVE RequestRecent(q)'
    <2>1. request'[q] = request[q] /\ RequestRecent(q)
      BY <1>1, <1>2, <1>6 DEF RoutesInv, RouteTyped, RequestsRecent
    <2> QED
      BY <1>1, <2>1 DEF RequestRecent, Running, Waited
  <1>7. request[r].late = 0
    BY DEF RoutesInv, RequestsRecent, RequestRecent
  <1>8. /\ Running(r)'
        /\ \A q \in Requests :
              request'[q].late = request[q].late /\ (Running(q) => Running(q)')
    BY <1>1, <1>2, <1>3, <1>4, <1>7 DEF RouteTyped, Running
  <1> QED
    BY <1>4, <1>5, <1>6, <1>8 DEF RequestsRecent

\* Neither does it disturb what is outside.
LEMMA AsksRecent ==
  ASSUME RoutesInv, NEW r \in Requests, Asks(r)
  PROVE  RoutesInv'
  <1>1. /\ request' = [request EXCEPT ![r] = Starts] /\ answered' = None
        /\ route' = route /\ memo' = memo /\ page' = page /\ edge' = edge /\ ~Running(r)
    BY DEF Asks
  <1>2. RouteTyped /\ OutsideRecent /\ MemosRecent
    BY DEF RoutesInv
  <1>3. request' \in [Requests -> RequestType] /\ RequestsRecent'
    BY <1>1, BeginsRecent
  <1>4. OutsideRecent'
    BY <1>1, <1>2, BeginsRecent, OutsideStands
  <1> QED
    BY <1>1, <1>2, <1>3, <1>4, MemosStand DEF RoutesInv, RouteTyped

\* The ISR copy answers for the program it was made by, within its window, a tick and
\* what nobody asked for it.
LEMMA PageAnswersRecent ==
  ASSUME RoutesInv, NEW r \in Requests, PageAnswers(r)
  PROVE  RoutesInv'
  <1>1. /\ page # Nil /\ Passes(page.kind, page.age, page.lull)
        /\ request' = IF Overdue /\ \A q \in Requests : ~Running(q)
                      THEN [request EXCEPT ![r] = Starts] ELSE request
        /\ page' = IF Overdue THEN [page EXCEPT !.asked = TRUE] ELSE page
        /\ route' = route /\ memo' = memo
    BY DEF PageAnswers
  <1>2. /\ RouteTyped /\ MemosRecent /\ RequestsRecent /\ PageRecent
        /\ page \in CopyType /\ ProgramTyped(route)
    BY <1>1, Checked DEF RoutesInv, OutsideRecent
  <1>3. /\ request' \in [Requests -> RequestType] /\ RequestsRecent'
        /\ \A q \in Requests :
              request'[q].late = request[q].late /\ (Running(q) => Running(q)')
        /\ Overdue => \E q \in Requests : Running(q)'
    <2>1. CASE Overdue /\ \A q \in Requests : ~Running(q)
      BY <1>1, <2>1, BeginsRecent
    <2>2. CASE ~(Overdue /\ \A q \in Requests : ~Running(q))
      BY <1>1, <1>2, <2>2 DEF RouteTyped, RequestsRecent, RequestRecent, Running, Waited
    <2> QED
      BY <2>1, <2>2
  <1>4. /\ page' \in CopyType /\ page'.kind = page.kind /\ page'.age = page.age
        /\ page'.held = page.held /\ page'.lull = page.lull
        /\ page'.asked => page.asked \/ Overdue
    BY <1>1, <1>2 DEF CopyType
  <1>5. /\ route.isr > 0 /\ Lifetimes(route, page.kind) \in Nat
        /\ page.age <= Lifetimes(route, page.kind) + 1 + page.held
        /\ page.held <= route.isr + page.lull + Delay
        /\ page.asked => \E q \in Requests : Running(q)
    BY <1>1, <1>2 DEF PageRecent
  <1>6. PageRecent'
    <2>1. Delay' = Delay
      BY <1>3 DEF Delay
    <2>2. Lifetimes(route, page.kind)' = Lifetimes(route, page.kind)
      BY <1>1, <1>4
    <2> QED
      BY <1>1, <1>3, <1>4, <1>5, <2>1, <2>2 DEF PageRecent
  <1>7. page.age <= Lifetimes(route, page.kind) + 1 + OfPage + page.lull
    <2>1. Delay \in {0, 1} /\ OfPage = route.isr + 1 /\ route.isr \in Nat
      BY <1>2, <1>5, Windows DEF Delay, OfPage
    <2> QED
      BY <1>2, <1>5, <2>1 DEF CopyType
  <1>8. /\ edge' \in {Nil} \union CopyType /\ EdgeRecent'
        /\ answered' \in AnswerType /\ ServedIsRecent'
    <2>1. page.kind \in Kinds /\ page.age \in Nat /\ page.lull \in Nat
      BY <1>2 DEF CopyType
    <2> QED
      BY <1>1, <1>5, <1>7, <2>1, Passed
  <1> QED
    BY <1>1, <1>2, <1>3, <1>4, <1>6, <1>8, MemosStand DEF RoutesInv, RouteTyped, OutsideRecent

\* The CDN's answer is as old as what it holds.
LEMMA EdgeAnswersRecent == ASSUME RoutesInv, EdgeAnswers  PROVE RoutesInv'
  <1>1. /\ edge # Nil /\ answered' = Told(edge.kind, edge.age, edge.lull)
        /\ route' = route /\ memo' = memo /\ page' = page /\ edge' = edge
        /\ request' = request
    BY DEF EdgeAnswers
  <1>2. RouteTyped /\ ProgramTyped(route) /\ OutsideRecent
    BY Checked DEF RoutesInv
  <1>3. edge \in CopyType
    BY <1>1, <1>2 DEF OutsideRecent
  <1>4. /\ Lifetimes(route, edge.kind) \in Nat
        /\ edge.age <= Lifetimes(route, edge.kind) + 1 + OfPage + OfCdn(edge.kind) + edge.lull
    <2>1. /\ Lifetimes(route, edge.kind) \in Nat /\ edge.held <= OfCdn(edge.kind)
          /\ edge.age <= Lifetimes(route, edge.kind) + 1 + OfPage + edge.lull + edge.held
      BY <1>1, <1>2 DEF OutsideRecent, EdgeRecent
    <2>2. OfPage \in Nat /\ OfCdn(edge.kind) \in Nat
      BY <1>2, Windows
    <2> QED
      BY <1>3, <2>1, <2>2 DEF CopyType
  <1>5. answered' \in AnswerType /\ ServedIsRecent'
    <2>1. edge.kind \in Kinds /\ edge.age \in Nat /\ edge.lull \in Nat
      BY <1>3 DEF CopyType
    <2> QED
      BY <1>1, <1>2, <1>4, <2>1, Served DEF RouteTyped
  <1>6. RequestsRecent' /\ PageRecent' /\ EdgeRecent'
    BY <1>1 DEF RoutesInv, OutsideRecent, RequestsRecent, RequestRecent, Running, Waited,
                PageRecent, EdgeRecent, OfCdn, OfPage, Delay
  <1> QED
    BY <1>1, <1>2, <1>5, <1>6, MemosStand DEF RoutesInv, RouteTyped, OutsideRecent

\* An entry lost is an entry less.
LEMMA LostRecent ==
  ASSUME RoutesInv, Recycle \/ \E c \in Shared : Evict(c)
  PROVE  RoutesInv'
  <1>1. /\ route' = route /\ page' \in {page, Nil} /\ edge' = edge /\ request' = request
        /\ answered' = None
        /\ memo' \in [Caches -> {Nil} \union EntryType]
        /\ \A c \in Caches : memo'[c] \in {Nil, memo[c]}
    BY DEF Recycle, Evict, RoutesInv, RouteTyped
  <1>2. MemosRecent'
    BY <1>1 DEF RoutesInv, MemosRecent, MemoRecent, KeepsAt
  <1>3. RequestsRecent'
    BY <1>1 DEF RoutesInv, RequestsRecent, RequestRecent, Running, Waited
  <1>4. PageRecent' /\ EdgeRecent'
    BY <1>1 DEF RoutesInv, OutsideRecent, Running, PageRecent, EdgeRecent, OfCdn, OfPage, Delay
  <1> QED
    BY <1>1, <1>2, <1>3, <1>4, NothingServed DEF RoutesInv, RouteTyped, OutsideRecent

\* A tick ages everything alike; what has lived is dropped, and a request waits for one.
LEMMA TickRecent == ASSUME RoutesInv, Tick  PROVE RoutesInv'
  <1>1. /\ \A r \in Requests : request[r].late = 0 /\ (Running(r) => Waits(r))
        /\ memo' = [c \in Caches |-> Aged(memo[c], Lives(c))]
        /\ page' = IF page = Nil THEN Nil
                   ELSE [Later(page) EXCEPT !.lull = @ + Lull, !.asked = FALSE]
        /\ edge' = IF edge = Nil THEN Nil ELSE Aged(edge, StaleFor - 1)
        /\ request' = [r \in Requests |->
              IF Running(r)
              THEN [Ahead(r, 0, request[r].kind, request[r].age + 1) EXCEPT !.late = 1]
              ELSE Resting]
        /\ answered' = None /\ route' = route
    BY DEF Tick
  <1>2. RouteTyped /\ OutsideRecent /\ ProgramTyped(route) /\ JoinsLast(route)
    BY Checked DEF RoutesInv
  <1>3. ASSUME NEW r \in Requests
        PROVE  /\ request'[r] \in RequestType /\ RequestRecent(r)'
               /\ Running(r) => request'[r].late = 1
    <2>1. CASE ~Running(r)
      <3>1. request'[r] = Resting
        BY <1>1, <2>1
      <3>2. Resting \in RequestType /\ Resting.pc = 0 /\ Resting.late = 0
        BY DEF Resting, RequestType, Kinds
      <3> QED
        BY <2>1, <3>1, <3>2 DEF RequestRecent, Running
    <2>2. CASE Running(r)
      <3> DEFINE i == request[r].pc
      <3>1. /\ request[r] \in RequestType /\ i \in DOMAIN route.steps /\ i \in Nat \ {0}
        BY <2>2, Carries
      <3>2. PICK a \in Carried(route)[i] :
               /\ a \in [kind : Kinds, age : Nat]
               /\ a.kind = request[r].kind
               /\ request[r].age <= a.age + Waited(i, request[r].late)
        BY <2>2, Carries
      <3>3. request[r].late = 0 /\ route.steps[i].do \in Awaits
        BY <1>1, <2>2 DEF Waits, StepOf
      <3>4. ~ \E j \in DOMAIN route.steps : j < i /\ route.steps[j].do = "join"
        BY <1>2, <3>1, <3>3 DEF JoinsLast
      <3>5. request[r].age <= a.age
        BY <3>1, <3>2, <3>3, <3>4 DEF Waited, RequestType
      <3>6. request'[r] = [Ahead(r, 0, request[r].kind, request[r].age + 1) EXCEPT !.late = 1]
        BY <1>1, <2>2
      <3>7. /\ request'[r].pc = i /\ request'[r].kind = request[r].kind
            /\ request'[r].age = request[r].age + 1 /\ request'[r].late = 1
            /\ request'[r] \in RequestType
        BY <3>1, <3>6 DEF Ahead, RequestType
      <3>8. \E w \in Carried(route)[i] : w.kind = request[r].kind /\ request[r].age + 1 <= w.age + 1
        BY <3>1, <3>2, <3>5 DEF RequestType
      <3> QED
        BY <1>1, <3>1, <3>4, <3>7, <3>8 DEF RequestRecent, Running, Waited
    <2> QED
      BY <2>1, <2>2
  <1>4. request' \in [Requests -> RequestType] /\ RequestsRecent'
    <2>1. request' = [r \in Requests |-> request'[r]]
      BY <1>1
    <2> QED
      BY <1>3, <2>1 DEF RequestsRecent
  <1>5. ASSUME NEW e \in EntryType, NEW for \in Nat, Aged(e, for) # Nil
        PROVE  /\ Aged(e, for) \in EntryType /\ Aged(e, for).kind = e.kind
               /\ Aged(e, for).age = e.age + 1 /\ Aged(e, for).held = e.held + 1
               /\ Aged(e, for).held <= for
    <2>1. Aged(e, for) = Later(e) /\ e.held + 1 <= for
      BY <1>5 DEF Aged, EntryType
    <2> QED
      BY <2>1, LaterEntry
  <1>6. ASSUME NEW c \in Caches
        PROVE  memo'[c] \in {Nil} \union EntryType /\ MemoRecent(c)'
    <2>1. memo'[c] = Aged(memo[c], Lives(c)) /\ Lives(c) \in Nat
      BY <1>1, LivesNat
    <2>2. CASE memo'[c] = Nil
      BY <2>2 DEF MemoRecent
    <2>3. CASE memo'[c] # Nil
      <3>1. memo[c] \in EntryType /\ memo[c] # Nil
        BY <1>2, <2>1, <2>3 DEF Aged, RouteTyped
      <3>2. /\ memo'[c] \in EntryType /\ memo'[c].kind = memo[c].kind
            /\ memo'[c].age = memo[c].age + 1 /\ memo'[c].held = memo[c].held + 1
            /\ memo'[c].held <= Lives(c)
        BY <1>5, <2>1, <2>3, <3>1
      <3>3. PICK i \in DOMAIN route.steps :
               /\ KeepsAt(route.steps, i, c)
               /\ \E m \in Carried(route)[i] :
                     m.kind = memo[c].kind /\ memo[c].age <= m.age + 1 + memo[c].held
        BY <3>1 DEF RoutesInv, MemosRecent, MemoRecent
      <3>4. PICK m \in Carried(route)[i] :
               m.kind = memo[c].kind /\ memo[c].age <= m.age + 1 + memo[c].held
        BY <3>3
      <3>5. m \in [kind : Kinds, age : Nat]
        BY <1>2 DEF ProgramTyped
      <3>6. m.kind = memo'[c].kind /\ memo'[c].age <= m.age + 1 + memo'[c].held
        BY <3>1, <3>2, <3>4, <3>5 DEF EntryType
      <3> QED
        BY <1>1, <3>2, <3>3, <3>6 DEF MemoRecent, KeepsAt
    <2> QED
      BY <2>2, <2>3
  <1>7. MemosRecent' /\ memo' \in [Caches -> {Nil} \union EntryType]
    <2>1. memo' = [c \in Caches |-> memo'[c]]
      BY <1>1
    <2> QED
      BY <1>6, <2>1 DEF MemosRecent
  <1>8. page' \in {Nil} \union CopyType /\ PageRecent'
    <2>1. CASE page = Nil
      BY <1>1, <2>1 DEF PageRecent
    <2>2. CASE page # Nil
      <3>1. /\ page \in CopyType /\ Lull \in {0, 1}
            /\ page' = [Later(page) EXCEPT !.lull = @ + Lull, !.asked = FALSE]
        BY <1>1, <1>2, <2>2 DEF OutsideRecent, Lull
      <3>2. /\ page' \in CopyType /\ page'.kind = page.kind /\ page'.age = page.age + 1
            /\ page'.held = page.held + 1 /\ page'.lull = page.lull + Lull /\ ~page'.asked
        <4>1. Later(page) \in CopyType /\ Lull \in Nat
          BY <3>1, LaterCopy
        <4>2. /\ page' \in CopyType /\ page'.kind = Later(page).kind
              /\ page'.age = Later(page).age /\ page'.held = Later(page).held
              /\ page'.lull = Later(page).lull + Lull /\ ~page'.asked
          BY <3>1, <4>1, LulledCopy
        <4> QED
          BY <3>1, <4>2, LaterCopy
      <3>3. /\ route.isr > 0 /\ Lifetimes(route, page.kind) \in Nat
            /\ page.age <= Lifetimes(route, page.kind) + 1 + page.held
            /\ page.held <= route.isr + page.lull + Delay
            /\ page.asked => \E r \in Requests : Running(r)
        BY <1>2, <2>2 DEF OutsideRecent, PageRecent
      <3>4. page'.held <= route.isr + page'.lull + Delay'
        <4>1. Delay = 0 /\ Delay' \in {0, 1} /\ route.isr \in Nat
          BY <1>1, <1>2, Windows DEF Delay
        <4>2. page.held \in Nat /\ page.lull \in Nat
          BY <3>1 DEF CopyType
        <4>3. CASE ~Overdue
          <5>1. page.held < route.isr
            BY <2>2, <4>1, <4>2, <4>3 DEF Overdue
          <5> QED
            BY <3>1, <3>2, <4>1, <4>2, <5>1
        <4>4. CASE Overdue /\ ~page.asked
          <5>1. Lull = 1
            BY <4>4 DEF Lull
          <5> QED
            BY <3>2, <3>3, <4>1, <4>2, <5>1
        <4>5. CASE page.asked
          <5>1. Delay' = 1
            BY <1>3, <3>3, <4>5 DEF Delay
          <5> QED
            BY <3>1, <3>2, <3>3, <4>1, <4>2, <5>1
        <4> QED
          BY <3>1, <4>3, <4>4, <4>5 DEF CopyType
      <3>5. Lifetimes(route, page.kind)' = Lifetimes(route, page.kind)
        BY <1>1, <3>2
      <3>6. page'.age <= Lifetimes(route, page.kind) + 1 + page'.held
        BY <3>1, <3>2, <3>3 DEF CopyType
      <3> QED
        BY <1>1, <3>2, <3>3, <3>4, <3>5, <3>6 DEF PageRecent
    <2> QED
      BY <2>1, <2>2
  <1>9. EdgeRecent' /\ edge' \in {Nil} \union CopyType
    <2>1. CASE edge' = Nil
      BY <2>1 DEF EdgeRecent
    <2>2. CASE edge' # Nil
      <3>1. edge # Nil /\ edge \in CopyType /\ edge' = Aged(edge, StaleFor - 1)
        BY <1>1, <1>2, <2>2 DEF OutsideRecent
      <3>2. /\ edge.kind \in DOMAIN route.cdn /\ Lifetimes(route, edge.kind) \in Nat
            /\ edge.age <= Lifetimes(route, edge.kind) + 1 + OfPage + edge.lull + edge.held
        BY <1>2, <3>1 DEF OutsideRecent, EdgeRecent
      <3>3. StaleFor - 1 \in Nat /\ OfCdn(edge.kind) = StaleFor - 1
        BY <1>2, <3>2 DEF ProgramTyped, StaleFor, OfCdn
      <3>4. /\ edge' \in CopyType /\ edge'.kind = edge.kind /\ edge'.lull = edge.lull
            /\ edge'.age = edge.age + 1 /\ edge'.held = edge.held + 1
            /\ edge'.held <= StaleFor - 1
        <4>1. edge' = Later(edge) /\ edge.held + 1 <= StaleFor - 1
          BY <2>2, <3>1, <3>3 DEF Aged, CopyType
        <4> QED
          BY <3>1, <4>1, LaterCopy
      <3>5. /\ OfCdn(edge.kind)' = OfCdn(edge.kind) /\ OfPage' = OfPage
            /\ Lifetimes(route, edge.kind)' = Lifetimes(route, edge.kind)
        BY <1>1, <3>4 DEF OfCdn, OfPage
      <3>6. edge'.age <= Lifetimes(route, edge.kind) + 1 + OfPage + edge'.lull + edge'.held
        <4>1. OfPage \in Nat
          BY <1>2, Windows
        <4> QED
          BY <3>1, <3>2, <3>4, <4>1 DEF CopyType
      <3> QED
        BY <1>1, <3>2, <3>3, <3>4, <3>5, <3>6 DEF EdgeRecent
    <2> QED
      BY <2>1, <2>2
  <1> QED
    BY <1>1, <1>2, <1>4, <1>7, <1>8, <1>9, NothingServed DEF RoutesInv, RouteTyped, OutsideRecent

\* Every cache is empty and nobody asks.
LEMMA RoutesStart == RoutesInit => RoutesInv
  <1> SUFFICES ASSUME RoutesInit  PROVE RoutesInv
    OBVIOUS
  <1>1. /\ route \in Programs /\ memo = [c \in Caches |-> Nil] /\ page = Nil /\ edge = Nil
        /\ request = [r \in Requests |-> Resting] /\ answered = None
    BY DEF RoutesInit
  <1>2. Resting \in RequestType /\ Resting.pc = 0 /\ Resting.late = 0
    BY DEF Resting, RequestType, Kinds
  <1>3. RouteTyped
    BY <1>1, <1>2 DEF RouteTyped
  <1>4. RequestsRecent
    BY <1>1, <1>2 DEF RequestsRecent, RequestRecent, Running
  <1>5. OutsideRecent
    BY <1>1 DEF OutsideRecent, PageRecent, EdgeRecent, AnswerType, ServedIsRecent, None, Told, Kinds
  <1> QED
    BY <1>1, <1>3, <1>4, <1>5 DEF RoutesInv, MemosRecent, MemoRecent

\* No step makes anything older than its program says.
LEMMA RoutesStep == RoutesInv /\ [RoutesNext]_routeVars => RoutesInv'
  <1> SUFFICES ASSUME RoutesInv, [RoutesNext]_routeVars  PROVE RoutesInv'
    OBVIOUS
  <1>1. CASE UNCHANGED routeVars
    <2>1. /\ route' = route /\ memo' = memo /\ page' = page /\ edge' = edge
          /\ request' = request /\ answered' = answered
      BY <1>1 DEF routeVars
    <2>2. RouteTyped' /\ RequestsRecent' /\ MemosRecent'
      BY <2>1 DEF RoutesInv, RouteTyped, RequestsRecent, RequestRecent, Running, Waited,
                  MemosRecent, MemoRecent, KeepsAt
    <2>3. OutsideRecent'
      BY <2>1 DEF RoutesInv, OutsideRecent, PageRecent, EdgeRecent, ServedIsRecent, Promised,
                  OfPage, OfCdn, Delay, Running
    <2> QED
      BY <2>2, <2>3 DEF RoutesInv
  <1>2. CASE \E r \in Requests :
                \/ Asks(r) \/ PageAnswers(r) \/ Decides(r) \/ Recalls(r) \/ Lands(r)
                \/ LandsForAll(r) \/ Keeps(r) \/ Replies(r)
    BY <1>2, AsksRecent, PageAnswersRecent, BranchesRecent, RecallsRecent, JoinsRecent, KeepsRecent, RepliesRecent
  <1>3. CASE EdgeAnswers
    BY <1>3, EdgeAnswersRecent
  <1>4. CASE Recycle \/ \E c \in Shared : Evict(c)
    BY <1>4, LostRecent
  <1>5. CASE Tick
    BY <1>5, TickRecent
  <1> QED
    BY <1>1, <1>2, <1>3, <1>4, <1>5 DEF RoutesNext

\* Requests, memos, the ISR copy and the CDN stay within what the programs add up to, for
\* any number of requests at the same time.
THEOREM RoutesInvariance == RoutesSpec => []RoutesInv
  BY RoutesStart, RoutesStep, PTL DEF RoutesSpec

\* No read route answers with anything older than the lifetimes of the caches it came
\* through add up to, but for the time nobody asked for the ISR copy among them or asked
\* in vain.
THEOREM ServedCorrect == RoutesSpec => []ServedIsRecent
  <1>1. RoutesInv => ServedIsRecent
    BY DEF RoutesInv, OutsideRecent
  <1> QED
    BY <1>1, RoutesInvariance, PTL
=============================================================================
