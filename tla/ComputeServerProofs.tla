------------------------ MODULE ComputeServerProofs ------------------------
(***************************************************************************)
(* Proofs about ComputeServer, for every page, word size, script and       *)
(* order of priorities.                                                    *)
(*                                                                         *)
(* While a caller waits, the page is its server's alone.  PartReversed     *)
(* says what the loop has made of it after i turns; two totals of a page   *)
(* are compared by induction over the length, which Induction gives as a   *)
(* fact about sets: a set with 0 in it and closed under the successor      *)
(* holds every natural number.                                             *)
(***************************************************************************)
EXTENDS ComputeServer, WellFoundedInduction, TLAPS

-----------------------------------------------------------------------------
(* Induction.                                                              *)

LEMMA LessThan ==
  \A x, y \in Nat : <<y, x>> \in OpToRel(<, Nat) <=> y < x
  BY DEF OpToRel

LEMMA LeastElement ==
  ASSUME NEW T \in SUBSET Nat, T # {}
  PROVE  \E m \in T : \A k \in T : m <= k
  <1>1. PICK m \in T : \A k \in T : ~(<<k, m>> \in OpToRel(<, Nat))
    BY NatLessThanWellFounded, WFMin
  <1>2. \A k \in T : ~(k < m)
    BY <1>1, LessThan
  <1> QED
    BY <1>2

LEMMA Induction ==
  ASSUME NEW T, 0 \in T, \A n \in Nat : n \in T => n + 1 \in T
  PROVE  Nat \subseteq T
  <1> SUFFICES ASSUME Nat \ T # {} PROVE FALSE
    OBVIOUS
  <1>1. PICK m \in Nat \ T : \A k \in Nat \ T : m <= k
    BY LeastElement
  <1>2. m # 0 /\ m - 1 \in Nat
    BY <1>1
  <1>3. m - 1 \in T
    BY <1>1, <1>2
  <1> QED
    BY <1>1, <1>2, <1>3

-----------------------------------------------------------------------------
(* Totals of a page.                                                       *)

(* s adds up the first k elements of p, step by step.                      *)
AddsUp(s, p, k) ==
  /\ s \in [0 .. k -> Int]
  /\ s[0] = 0
  /\ \A n \in 1 .. k : s[n] = s[n - 1] + p[n - 1]

LEMMA SumsExist ==
  ASSUME NEW p \in Pages
  PROVE  \E s : AddsUp(s, p, PAGE)
  <1> DEFINE T == {k \in Nat : k <= PAGE => \E s : AddsUp(s, p, k)}
  <1>0. PAGE \in Nat
    BY SpansAssumption
  <1>1. 0 \in T
    <2>1. AddsUp([n \in 0 .. 0 |-> 0], p, 0)
      BY DEF AddsUp
    <2> QED
      BY <2>1
  <1>2. ASSUME NEW k \in Nat, k \in T PROVE k + 1 \in T
    <2> SUFFICES ASSUME k + 1 <= PAGE PROVE \E s : AddsUp(s, p, k + 1)
      BY <1>2
    <2>1. PICK s : AddsUp(s, p, k)
      BY <1>0, <1>2
    <2> DEFINE t == [n \in 0 .. (k + 1) |-> IF n <= k THEN s[n] ELSE s[k] + p[k]]
    <2>2. p[k] \in Int
      BY <1>0 DEF Pages
    <2>3. t \in [0 .. (k + 1) -> Int]
      BY <2>1, <2>2 DEF AddsUp
    <2>4. t[0] = 0
      BY <2>1 DEF AddsUp
    <2>5. ASSUME NEW n \in 1 .. (k + 1) PROVE t[n] = t[n - 1] + p[n - 1]
      <3>1. CASE n = k + 1
        BY <3>1
      <3>2. CASE n # k + 1
        BY <2>1, <3>2 DEF AddsUp
      <3> QED
        BY <3>1, <3>2
    <2> HIDE DEF t
    <2>6. AddsUp(t, p, k + 1)
      BY <2>3, <2>4, <2>5 DEF AddsUp
    <2> QED
      BY <2>6
  <1> HIDE DEF T
  <1>3. Nat \subseteq T
    BY <1>1, <1>2, Induction
  <1> QED
    BY <1>0, <1>3 DEF T

LEMMA TotalAddsUp ==
  ASSUME NEW p \in Pages
  PROVE  AddsUp(Total(p), p, PAGE)
  <1> DEFINE Step(s) == [n \in 0 .. PAGE |-> IF n = 0 THEN 0 ELSE s[n - 1] + p[n - 1]]
             sum == CHOOSE s : s = Step(s)
  <1>0. PAGE \in Nat
    BY SpansAssumption
  <1>1. PICK s : AddsUp(s, p, PAGE)
    BY SumsExist
  <1>2. s = Step(s)
    BY <1>0, <1>1 DEF AddsUp
  <1>3. sum = Step(sum)
    BY <1>2
  <1>4. Total(p) = sum
    BY DEF Total
  <1> HIDE DEF sum
  <1>5. /\ DOMAIN sum = 0 .. PAGE
        /\ sum[0] = 0
        /\ \A n \in 1 .. PAGE : sum[n] = sum[n - 1] + p[n - 1]
    <2>1. \A n \in 0 .. PAGE : sum[n] = IF n = 0 THEN 0 ELSE sum[n - 1] + p[n - 1]
      BY <1>3, Zenon
    <2>2. DOMAIN sum = 0 .. PAGE
      BY <1>3, Zenon
    <2> QED
      BY <1>0, <2>1, <2>2
  <1>6. \A n \in 0 .. PAGE : sum[n] = s[n]
    <2> DEFINE T == {n \in Nat : n <= PAGE => sum[n] = s[n]}
    <2>1. 0 \in T
      BY <1>1, <1>5 DEF AddsUp
    <2>2. ASSUME NEW n \in Nat, n \in T PROVE n + 1 \in T
      <3> SUFFICES ASSUME n + 1 <= PAGE PROVE sum[n + 1] = s[n + 1]
        OBVIOUS
      <3>1. sum[n] = s[n] /\ n + 1 \in 1 .. PAGE /\ (n + 1) - 1 = n
        BY <1>0, <2>2
      <3> QED
        BY <1>1, <1>5, <3>1 DEF AddsUp
    <2> HIDE DEF T
    <2>3. Nat \subseteq T
      BY <2>1, <2>2, Induction
    <2> QED
      BY <1>0, <2>3 DEF T
  <1>7. sum = s
    BY <1>1, <1>3, <1>6 DEF AddsUp
  <1> QED
    BY <1>1, <1>4, <1>7

(* Pages that agree below n have the same total of n elements.             *)
LEMMA TotalBelow ==
  ASSUME NEW p \in Pages, NEW q \in Pages, NEW n \in 0 .. PAGE,
         \A x \in 0 .. (n - 1) : p[x] = q[x]
  PROVE  Total(p)[n] = Total(q)[n]
  <1>0. /\ PAGE \in Nat
        /\ AddsUp(Total(p), p, PAGE) /\ AddsUp(Total(q), q, PAGE)
    BY SpansAssumption, TotalAddsUp
  <1> DEFINE T == {k \in Nat : k <= n => Total(p)[k] = Total(q)[k]}
  <1>1. 0 \in T
    BY <1>0 DEF AddsUp
  <1>2. ASSUME NEW k \in Nat, k \in T PROVE k + 1 \in T
    <2> SUFFICES ASSUME k + 1 <= n PROVE Total(p)[k + 1] = Total(q)[k + 1]
      OBVIOUS
    <2>1. /\ k + 1 \in 1 .. PAGE /\ (k + 1) - 1 = k
          /\ Total(p)[k] = Total(q)[k] /\ p[k] = q[k]
      BY <1>0, <1>2
    <2> QED
      BY <1>0, <2>1 DEF AddsUp
  <1> HIDE DEF T
  <1>3. Nat \subseteq T
    BY <1>1, <1>2, Induction
  <1> QED
    BY <1>0, <1>3 DEF T

(* A store changes the totals past it by the difference it makes.          *)
LEMMA TotalStore ==
  ASSUME NEW p \in Pages, NEW x \in 0 .. (PAGE - 1), NEW v \in Int,
         NEW n \in 0 .. PAGE, x < n
  PROVE  Total([p EXCEPT ![x] = v])[n] = Total(p)[n] + v - p[x]
  <1>0. PICK q : q = [p EXCEPT ![x] = v]
    OBVIOUS
  <1>1. /\ PAGE \in Nat /\ x \in Nat /\ x + 1 <= PAGE /\ p[x] \in Int
        /\ q \in Pages /\ q[x] = v
        /\ \A y \in 0 .. (PAGE - 1) : y # x => q[y] = p[y]
    BY <1>0, SpansAssumption DEF Pages
  <1>2. AddsUp(Total(p), p, PAGE) /\ AddsUp(Total(q), q, PAGE)
    BY <1>1, TotalAddsUp
  <1>3. Total(q)[x + 1] = Total(p)[x + 1] + v - p[x]
    <2>1. Total(q)[x] = Total(p)[x]
      BY <1>1, TotalBelow
    <2>2. x + 1 \in 1 .. PAGE /\ (x + 1) - 1 = x /\ Total(p)[x] \in Int
      BY <1>1, <1>2 DEF AddsUp
    <2> QED
      BY <1>1, <1>2, <2>1, <2>2 DEF AddsUp
  <1> DEFINE T == {k \in Nat : x + 1 + k <= PAGE =>
                     Total(q)[x + 1 + k] = Total(p)[x + 1 + k] + v - p[x]}
  <1>4. 0 \in T
    BY <1>1, <1>3
  <1>5. ASSUME NEW k \in Nat, k \in T PROVE k + 1 \in T
    <2> SUFFICES ASSUME x + 1 + (k + 1) <= PAGE
                 PROVE  Total(q)[x + 1 + (k + 1)]
                          = Total(p)[x + 1 + (k + 1)] + v - p[x]
      OBVIOUS
    <2>0. PICK m : m = x + 1 + k
      OBVIOUS
    <2>1. /\ m + 1 \in 1 .. PAGE /\ m \in 0 .. (PAGE - 1) /\ m # x
          /\ m = (m + 1) - 1 /\ x + 1 + (k + 1) = m + 1
      BY <1>1, <2>0
    <2>2. Total(q)[m] = Total(p)[m] + v - p[x]
      BY <1>1, <1>5, <2>0, <2>1
    <2>3. /\ Total(q)[m + 1] = Total(q)[m] + p[m]
          /\ Total(p)[m + 1] = Total(p)[m] + p[m]
          /\ Total(p)[m] \in Int
      BY <1>1, <1>2, <2>1 DEF AddsUp
    <2>4. p[m] \in Int
      BY <2>1 DEF Pages
    <2> QED
      BY <1>1, <2>1, <2>2, <2>3, <2>4
  <1> HIDE DEF T
  <1>6. Nat \subseteq T
    BY <1>4, <1>5, Induction
  <1>7. n - (x + 1) \in Nat /\ x + 1 + (n - (x + 1)) = n /\ n <= PAGE
    BY <1>1
  <1> QED
    BY <1>0, <1>6, <1>7 DEF T

(* Swapping two elements changes no total past both.                       *)
LEMMA TotalSwapped ==
  ASSUME NEW p \in Pages, NEW x \in 0 .. (PAGE - 1), NEW y \in 0 .. (PAGE - 1),
         NEW n \in 0 .. PAGE, x < n, y < n
  PROVE  /\ Swapped(p, x, y) \in Pages
         /\ Total(Swapped(p, x, y))[n] = Total(p)[n]
  <1>0. PICK q : q = [p EXCEPT ![x] = p[y]]
    OBVIOUS
  <1>1. /\ q \in Pages /\ p[x] \in Int /\ p[y] \in Int /\ q[y] = p[y]
        /\ Swapped(p, x, y) = [q EXCEPT ![y] = p[x]]
    BY <1>0 DEF Pages, Swapped
  <1>2. Total(q)[n] = Total(p)[n] + p[y] - p[x]
    <2>1. Total([p EXCEPT ![x] = p[y]])[n] = Total(p)[n] + p[y] - p[x]
      BY <1>1, TotalStore
    <2> QED
      BY <1>0, <2>1, Zenon
  <1>3. Total(Swapped(p, x, y))[n] = Total(q)[n] + p[x] - q[y]
    <2>1. Total([q EXCEPT ![y] = p[x]])[n] = Total(q)[n] + p[x] - q[y]
      BY <1>1, TotalStore
    <2> QED
      BY <1>1, <2>1, Zenon
  <1>4. Total(p)[n] \in Int
    BY SpansAssumption, TotalAddsUp DEF AddsUp
  <1>5. Swapped(p, x, y) \in Pages
    BY <1>1 DEF Pages
  <1> QED
    BY <1>1, <1>2, <1>3, <1>4, <1>5

-----------------------------------------------------------------------------
(* The reversal, turn by turn.                                             *)

(* The first n elements of a page after k turns of the loop.               *)
PartReversed(page, n, k) ==
  [x \in DOMAIN page |-> IF x < n /\ (x < k \/ n - 1 - x < k) THEN page[n - 1 - x]
                                                            ELSE page[x]]

LEMMA TurnReverses ==
  ASSUME NEW p \in Pages, NEW n \in Nat, NEW k \in Nat,
         k < n \div 2, n - 1 - k < PAGE
  PROVE  Swapped(PartReversed(p, n, k), k, n - 1 - k) = PartReversed(p, n, k + 1)
  <1>0. /\ PAGE \in Nat /\ DOMAIN p = 0 .. (PAGE - 1)
        /\ k < n - 1 - k /\ k \in DOMAIN p /\ n - 1 - k \in DOMAIN p
    BY SpansAssumption DEF Pages
  <1>1. PICK q : q = PartReversed(p, n, k)
    OBVIOUS
  <1>2. /\ DOMAIN q = DOMAIN p
        /\ q[k] = p[k] /\ q[n - 1 - k] = p[n - 1 - k]
        /\ \A x \in DOMAIN p :
             q[x] = IF x < n /\ (x < k \/ n - 1 - x < k) THEN p[n - 1 - x] ELSE p[x]
        /\ q = [x \in DOMAIN p |-> q[x]]
    BY <1>0, <1>1 DEF PartReversed
  <1>3. PICK l : l = n - 1 - k
    OBVIOUS
  <1>4. /\ l \in DOMAIN p /\ k # l /\ l \in Nat
        /\ n - 1 - l = k /\ q[l] = p[l] /\ l < n
    BY <1>0, <1>2, <1>3
  <1>5. PICK s : s = Swapped(q, k, l)
    OBVIOUS
  <1>6. /\ s = [x \in DOMAIN p |-> s[x]]
        /\ s[k] = q[l] /\ s[l] = q[k]
        /\ \A x \in DOMAIN p : x # k /\ x # l => s[x] = q[x]
    BY <1>0, <1>2, <1>4, <1>5 DEF Swapped
  <1>7. ASSUME NEW x \in DOMAIN p
        PROVE  s[x] = IF x < n /\ (x < k + 1 \/ n - 1 - x < k + 1) THEN p[n - 1 - x]
                                                                ELSE p[x]
    <2>0. x \in Nat
      BY <1>0
    <2>1. CASE x = k
      BY <1>0, <1>2, <1>3, <1>6, <2>1
    <2>2. CASE x = l
      BY <1>0, <1>2, <1>3, <1>4, <1>6, <2>2
    <2>3. CASE x # k /\ x # l
      <3>1. s[x] = q[x]
        BY <1>6, <2>3
      <3>2. (x < k + 1 \/ n - 1 - x < k + 1) <=> (x < k \/ n - 1 - x < k)
        BY <1>3, <2>0, <2>3
      <3> QED
        BY <1>2, <3>1, <3>2
    <2> QED
      BY <2>1, <2>2, <2>3
  <1>8. s = PartReversed(p, n, k + 1)
    BY <1>6, <1>7 DEF PartReversed
  <1> QED
    BY <1>1, <1>3, <1>5, <1>8

LEMMA AllTurns ==
  ASSUME NEW p \in Pages, NEW n \in Nat, n <= PAGE
  PROVE  PartReversed(p, n, n \div 2) = Reversed(p, n)
  <1>0. PAGE \in Nat /\ DOMAIN p = 0 .. (PAGE - 1)
    BY SpansAssumption DEF Pages
  <1>1. ASSUME NEW x \in DOMAIN p
        PROVE  (IF x < n /\ (x < n \div 2 \/ n - 1 - x < n \div 2) THEN p[n - 1 - x]
                                                              ELSE p[x])
                 = (IF x < n THEN p[n - 1 - x] ELSE p[x])
    <2>0. x \in Nat
      BY <1>0
    <2>1. CASE x < n /\ ~(x < n \div 2 \/ n - 1 - x < n \div 2)
      <3>1. n - 1 - x = x
        BY <2>0, <2>1
      <3> QED
        BY <2>1, <3>1
    <2> QED
      BY <2>1
  <1> QED
    BY <1>1 DEF PartReversed, Reversed

LEMMA NoTurn ==
  ASSUME NEW p \in Pages, NEW n \in Nat
  PROVE  PartReversed(p, n, 0) = p
  <1>0. /\ PAGE \in Nat /\ DOMAIN p = 0 .. (PAGE - 1)
        /\ p = [x \in DOMAIN p |-> p[x]]
    BY SpansAssumption DEF Pages
  <1>1. \A x \in DOMAIN p : ~(x < n /\ (x < 0 \/ n - 1 - x < 0))
    BY <1>0
  <1> QED
    BY <1>0, <1>1 DEF PartReversed

LEMMA PagesKept ==
  ASSUME NEW p \in Pages, NEW n \in Nat
  PROVE  /\ Filled(p, n) \in Pages
         /\ \A x \in 0 .. (PAGE - 1) : x < n => Filled(p, n)[x] = (x + 1) * 10
         /\ Filled(Filled(p, n), n) = Filled(p, n)
         /\ n <= PAGE => Reversed(p, n) \in Pages
  <1>0. PAGE \in Nat /\ DOMAIN p = 0 .. (PAGE - 1)
    BY SpansAssumption DEF Pages
  <1>1. PICK f : f = Filled(p, n)
    OBVIOUS
  <1>2. /\ f \in Pages /\ DOMAIN f = DOMAIN p
        /\ \A x \in DOMAIN p : f[x] = IF x < n THEN (x + 1) * 10 ELSE p[x]
        /\ f = [x \in DOMAIN p |-> f[x]]
    BY <1>0, <1>1 DEF Filled, Pages
  <1>3. Filled(f, n) = f
    BY <1>2 DEF Filled
  <1>4. n <= PAGE => Reversed(p, n) \in Pages
    BY <1>0 DEF Reversed, Pages
  <1> QED
    BY <1>0, <1>1, <1>2, <1>3, <1>4

-----------------------------------------------------------------------------
(* The inductive invariant.                                                *)

(* q is the request of the line the caller is at, with the page it filled. *)
IsRequestOf(q, server, line) ==
  /\ q = RequestOf(server, line, q.buf)
  /\ q.buf \in Pages
  /\ q.buf = Filled(q.buf, line.fill)

(* A request is open while the caller is blocked, and only then; the       *)
(* server is not past its receive without one.                             *)
CallOpen ==
  /\ cpc \in {"blocked", "check"} => step <= Len(dep.script)
  /\ cpc = "blocked" => IsRequestOf(asked, dep.server, Line)
  /\ cpc # "blocked" => asked = None
  /\ spc \in {"serve", "bulk", "reply", "faulted"} => cpc = "blocked" /\ asked # None

(* What the server has made of the page and of its reply.                  *)
Worked ==
  /\ cpc = "blocked" /\ spc \in {"start", "recv", "serve"} => buf = asked.buf
  /\ spc = "bulk" =>
       /\ IsBulk(asked)
       /\ i <= asked.a \div 2
       /\ i > 0 => asked.a <= PAGE
       /\ buf = PartReversed(asked.buf, asked.a, i)
       /\ asked.a <= PAGE => Total(buf)[asked.a] = Total(asked.buf)[asked.a]
  /\ spc = "reply" =>
       /\ Answered(asked)
       /\ IsResult(asked, [len |-> resp.len, mr |-> resp.mr, buf |-> buf])

(* What the caller has to check is what its script expects.                *)
Heard == cpc = "check" => Matches(Line, heard)

IInv == TypeOK /\ buf \in Pages /\ CallOpen /\ Worked /\ Heard /\ passed

-----------------------------------------------------------------------------
(* Types.                                                                  *)

LEMMA LineType ==
  ASSUME TypeOK, step <= Len(dep.script)
  PROVE  /\ Line \in Lines
         /\ dep.server \in Servers
         /\ ExpectsResult(dep.server, Line)
  <1>1. dep \in Deployments /\ dep.script \in Seq(Lines) /\ dep.server \in Servers
    BY DeploymentsAssumption DEF TypeOK
  <1>2. step \in 1 .. (Len(dep.script) + 1) /\ Len(dep.script) \in Nat
    BY <1>1 DEF TypeOK
  <1>3. step \in DOMAIN dep.script /\ dep.script[step] \in Lines
    BY <1>1, <1>2
  <1> QED
    BY <1>1, <1>3, ScriptsAssumption DEF Line

LEMMA WordsComputed ==
  /\ 0 \in Words
  /\ \A a, b \in Words : Sum(a, b) \in Words
  /\ \A a \in Words : Complement(a) \in Words
  /\ \A p \in Pages, n \in 0 .. PAGE : Checksum(p, n) \in Words
  <1>0. /\ WORD_SPAN \in Nat \ {0} /\ SUM_SPAN \in Nat \ {0}
        /\ SUM_SPAN <= WORD_SPAN
    BY SpansAssumption DEF OP_BULK_PROCESS
  <1>1. ASSUME NEW a \in Words, NEW b \in Words PROVE Sum(a, b) \in Words
    <2>1. a + b \in Int
      BY DEF Words
    <2>2. (a + b) % WORD_SPAN \in 0 .. (WORD_SPAN - 1)
      BY <1>0, <2>1
    <2> QED
      BY <2>2 DEF Sum, Words
  <1>2. \A a \in Words : Complement(a) \in Words
    BY <1>0 DEF Complement, Words
  <1>3. ASSUME NEW p \in Pages, NEW n \in 0 .. PAGE PROVE Checksum(p, n) \in Words
    <2>1. Total(p)[n] \in Int
      BY TotalAddsUp DEF AddsUp
    <2>2. Total(p)[n] % SUM_SPAN \in 0 .. (SUM_SPAN - 1)
      BY <1>0, <2>1
    <2> QED
      BY <1>0, <2>2 DEF Checksum, Words
  <1> QED
    BY <1>0, <1>1, <1>2, <1>3 DEF Words

LEMMA RequestType ==
  ASSUME NEW q, NEW server \in Servers, NEW line \in Lines,
         IsRequestOf(q, server, line)
  PROVE  q \in Requests
  BY DEF IsRequestOf, RequestOf, Requests, Lines

LEMMA OpenRequest ==
  ASSUME TypeOK, CallOpen, spc \in {"serve", "bulk", "reply", "faulted"}
  PROVE  /\ cpc = "blocked" /\ asked # None /\ asked \in Requests
         /\ asked.server = dep.server
         /\ asked.op \in Nat /\ asked.a \in Nat /\ asked.a \in Words
         /\ asked.b \in Words /\ asked.buf \in Pages
  <1>1. /\ cpc = "blocked" /\ asked # None
        /\ IsRequestOf(asked, dep.server, Line) /\ step <= Len(dep.script)
    BY DEF CallOpen
  <1>2. asked \in Requests
    BY <1>1, LineType, RequestType
  <1>3. asked.server = dep.server
    BY <1>1 DEF IsRequestOf, RequestOf
  <1> QED
    BY <1>1, <1>2, <1>3 DEF Requests, Words

LEMMA InitInv == Init => IInv
  <1> SUFFICES ASSUME Init PROVE IInv
    OBVIOUS
  <1>0. /\ dep \in Deployments /\ dep.script \in Seq(Lines) /\ PAGE \in Nat
        /\ Len(dep.script) \in Nat
    BY DeploymentsAssumption, SpansAssumption DEF Init
  <1>1. TypeOK
    BY <1>0, WordsComputed DEF Init, TypeOK, NoReply
  <1>2. buf \in Pages
    BY DEF Init, Pages
  <1>3. CallOpen /\ Worked /\ Heard /\ passed
    BY DEF Init, CallOpen, Worked, Heard
  <1> QED
    BY <1>1, <1>2, <1>3 DEF IInv

-----------------------------------------------------------------------------
(* The caller's steps.                                                     *)

LEMMA CallKeeps == IInv /\ Call => IInv'
  <1> SUFFICES ASSUME IInv, Call PROVE IInv'
    OBVIOUS
  <1>0. /\ TypeOK /\ buf \in Pages /\ CallOpen /\ passed
        /\ cpc = "next" /\ cpc' = "blocked" /\ step <= Len(dep.script)
        /\ UNCHANGED <<dep, prio, step, passed, spc, i, resp>>
        /\ buf' = Filled(buf, Line.fill)
        /\ asked' = RequestOf(dep.server, Line, buf')
        /\ heard' = None
    BY DEF IInv, Call
  <1>1. TypeOK' /\ Line' = Line
    BY <1>0 DEF TypeOK, Line
  <1>2. Line.fill \in Nat
    BY <1>0, LineType, SpansAssumption DEF Lines
  <1>3. buf' \in Pages /\ Filled(buf', Line.fill) = buf'
    BY <1>0, <1>2, PagesKept
  <1>4. asked'.buf = buf'
    BY <1>0 DEF RequestOf
  <1>5. IsRequestOf(asked', dep'.server, Line')
    BY <1>0, <1>1, <1>3, <1>4 DEF IsRequestOf
  <1>6. spc \in {"start", "recv"}
    BY <1>0 DEF TypeOK, CallOpen
  <1>7. CallOpen'
    BY <1>0, <1>5, <1>6 DEF CallOpen, IsRequestOf
  <1>8. Worked' /\ Heard'
    BY <1>0, <1>4, <1>6 DEF Worked, Heard
  <1> QED
    BY <1>0, <1>1, <1>3, <1>7, <1>8 DEF IInv

LEMMA CallerKeeps == IInv /\ (LowerPriority \/ Check \/ Finish) => IInv'
  <1> SUFFICES ASSUME IInv, LowerPriority \/ Check \/ Finish PROVE IInv'
    OBVIOUS
  <1>0. /\ TypeOK /\ buf \in Pages /\ CallOpen /\ Worked /\ Heard /\ passed
        /\ UNCHANGED <<dep, spc, i, resp, buf, asked, heard>>
        /\ cpc \in {"lower", "check", "next"} /\ cpc' \in {"next", "done"}
    BY DEF IInv, LowerPriority, Check, Finish
  <1>1. spc \in {"start", "recv"} /\ asked = None
    BY <1>0 DEF TypeOK, CallOpen
  <1>2. step' \in 1 .. (Len(dep.script) + 1) /\ passed'
    <2>1. Len(dep.script) \in Nat
      BY <1>0, DeploymentsAssumption DEF TypeOK
    <2>2. CASE Check
      <3>1. /\ step <= Len(dep.script) /\ step' = step + 1
            /\ passed' = (passed /\ Matches(Line, heard)) /\ Matches(Line, heard)
        BY <1>0, <2>2 DEF Check, CallOpen, Heard
      <3>2. step' \in 1 .. (Len(dep.script) + 1)
        BY <1>0, <2>1, <3>1 DEF TypeOK
      <3> QED
        BY <1>0, <3>1, <3>2
    <2>3. CASE LowerPriority \/ Finish
      BY <1>0, <2>3 DEF LowerPriority, Finish, TypeOK
    <2> QED
      BY <2>2, <2>3
  <1>3. TypeOK'
    BY <1>0, <1>2 DEF TypeOK
  <1>4. CallOpen' /\ Worked' /\ Heard'
    BY <1>0, <1>1 DEF CallOpen, Worked, Heard
  <1> QED
    BY <1>0, <1>2, <1>3, <1>4 DEF IInv

-----------------------------------------------------------------------------
(* The server's steps.                                                     *)

LEMMA ReceiveKeeps == IInv /\ (Start \/ Receive) => IInv'
  <1> SUFFICES ASSUME IInv, Start \/ Receive PROVE IInv'
    OBVIOUS
  <1>0. /\ TypeOK /\ buf \in Pages /\ CallOpen /\ Worked /\ Heard /\ passed
        /\ UNCHANGED <<dep, prio, cpc, step, passed, i, resp, buf, asked, heard>>
        /\ spc \in {"start", "recv"} /\ spc' \in {"recv", "serve"}
        /\ spc' = "serve" => asked # None
    BY DEF IInv, Start, Receive, callerVars
  <1>1. TypeOK'
    BY <1>0 DEF TypeOK
  <1>2. CallOpen'
    BY <1>0 DEF CallOpen, Line
  <1>3. Worked'
    BY <1>0 DEF Worked
  <1>4. Heard'
    BY <1>0 DEF Heard, Line
  <1> QED
    BY <1>0, <1>1, <1>2, <1>3, <1>4 DEF IInv

(* A server that has put its reply together keeps the rest.                *)
LEMMA RespondKeeps ==
  ASSUME IInv, spc \in {"serve", "bulk"}, NEW l \in {0, 1}, NEW w \in Words,
         Respond(l, w), Answered(asked),
         IsResult(asked, [len |-> l, mr |-> w, buf |-> buf])
  PROVE  IInv'
  <1>0. /\ TypeOK /\ buf \in Pages /\ CallOpen /\ Heard /\ passed
        /\ UNCHANGED <<dep, prio, cpc, step, passed, i, buf, asked, heard>>
        /\ spc' = "reply" /\ resp' = [len |-> l, mr |-> w]
    BY DEF IInv, Respond, callerVars
  <1>1. TypeOK'
    BY <1>0 DEF TypeOK
  <1>2. CallOpen'
    BY <1>0 DEF CallOpen, Line
  <1>3. Worked'
    <2>1. resp'.len = l /\ resp'.mr = w
      BY <1>0
    <2> QED
      BY <1>0, <2>1 DEF Worked
  <1>4. Heard'
    BY <1>0 DEF Heard, Line
  <1> QED
    BY <1>0, <1>1, <1>2, <1>3, <1>4 DEF IInv

LEMMA ServeKeeps == IInv /\ (ServeAdd \/ ServeNot \/ ServeUnknown) => IInv'
  <1> SUFFICES ASSUME IInv, ServeAdd \/ ServeNot \/ ServeUnknown PROVE IInv'
    OBVIOUS
  <1>0. /\ TypeOK /\ CallOpen /\ Worked /\ spc = "serve"
    BY DEF IInv, ServeAdd, ServeNot, ServeUnknown
  <1>1. /\ cpc = "blocked" /\ asked \in Requests /\ asked.server = dep.server
        /\ asked.op \in Nat /\ asked.a \in Words /\ asked.b \in Words
    BY <1>0, OpenRequest
  <1>2. buf = asked.buf
    BY <1>0, <1>1 DEF Worked
  <1>3. CASE ServeAdd
    <2>1. asked.op = 1 /\ Respond(1, Sum(asked.a, asked.b))
      BY <1>3 DEF ServeAdd, OP_ADD
    <2>2. ~IsBulk(asked)
      BY <2>1 DEF IsBulk, OP_BULK_PROCESS
    <2>3. Result(asked) = Sum(asked.a, asked.b)
      BY <2>1, <2>2 DEF Result, OP_ADD, OP_NOT
    <2>4. PICK r : r = [len |-> 1, mr |-> Sum(asked.a, asked.b), buf |-> buf]
      OBVIOUS
    <2>5. IsResult(asked, r)
      BY <1>2, <2>1, <2>2, <2>3, <2>4 DEF IsResult, PageAfter
    <2>6. Sum(asked.a, asked.b) \in Words /\ Answered(asked)
      BY <1>1, <2>2, WordsComputed DEF Answered
    <2> QED
      BY <1>0, <2>1, <2>4, <2>5, <2>6, RespondKeeps
  <1>4. CASE ServeNot
    <2>1. asked.op = 2 /\ Respond(1, Complement(asked.a))
      BY <1>4 DEF ServeNot, OP_NOT
    <2>2. ~IsBulk(asked)
      BY <2>1 DEF IsBulk, OP_BULK_PROCESS
    <2>3. Result(asked) = Complement(asked.a)
      BY <2>1, <2>2 DEF Result, OP_ADD, OP_NOT
    <2>4. PICK r : r = [len |-> 1, mr |-> Complement(asked.a), buf |-> buf]
      OBVIOUS
    <2>5. IsResult(asked, r)
      BY <1>2, <2>1, <2>2, <2>3, <2>4 DEF IsResult, PageAfter
    <2>6. Complement(asked.a) \in Words /\ Answered(asked)
      BY <1>1, <2>2, WordsComputed DEF Answered
    <2> QED
      BY <1>0, <2>1, <2>4, <2>5, <2>6, RespondKeeps
  <1>5. CASE ServeUnknown
    <2>0. PICK l : l = IF dep.server = "srv" THEN 0 ELSE 1
      OBVIOUS
    <2>1. /\ asked.op # 1 /\ asked.op # 2
          /\ dep.server # "multi" => asked.op # 3
          /\ Respond(l, 0)
      BY <1>5, <2>0 DEF ServeUnknown, OP_ADD, OP_NOT, OP_BULK_PROCESS, HasBulk
    <2>2. ~IsBulk(asked)
      BY <1>1, <2>1 DEF IsBulk, OP_BULK_PROCESS
    <2>3. Result(asked) = 0
      BY <2>1, <2>2 DEF Result, OP_ADD, OP_NOT
    <2>4. l = IF asked.server = "srv" /\ asked.op \notin 1 .. 3 THEN 0 ELSE 1
      <3>1. asked.server = "srv" => asked.op # 3
        BY <1>1, <2>1
      <3>2. asked.server = "srv" => asked.op \notin 1 .. 3
        BY <1>1, <2>1, <3>1
      <3> QED
        BY <1>1, <2>0, <3>2
    <2>5. PICK r : r = [len |-> l, mr |-> 0, buf |-> buf]
      OBVIOUS
    <2>6. IsResult(asked, r)
      BY <1>2, <2>2, <2>3, <2>4, <2>5 DEF IsResult, PageAfter
    <2>7. l \in {0, 1} /\ 0 \in Words /\ Answered(asked)
      BY <2>0, <2>2, WordsComputed DEF Answered
    <2> QED
      BY <1>0, <2>1, <2>5, <2>6, <2>7, RespondKeeps
  <1> QED
    BY <1>3, <1>4, <1>5

LEMMA StartBulkKeeps == IInv /\ StartBulk => IInv'
  <1> SUFFICES ASSUME IInv, StartBulk PROVE IInv'
    OBVIOUS
  <1>0. /\ TypeOK /\ buf \in Pages /\ CallOpen /\ Worked /\ Heard /\ passed
        /\ UNCHANGED <<dep, prio, cpc, step, passed, resp, buf, asked, heard>>
        /\ spc = "serve" /\ spc' = "bulk" /\ i' = 0
        /\ asked.op = OP_BULK_PROCESS /\ dep.server # "multi"
    BY DEF IInv, StartBulk, callerVars, HasBulk
  <1>1. /\ cpc = "blocked" /\ asked.server = dep.server
        /\ asked.a \in Nat /\ asked.buf \in Pages
    BY <1>0, OpenRequest
  <1>2. TypeOK'
    <2>1. 0 \in 0 .. PAGE
      BY SpansAssumption
    <2> QED
      BY <1>0, <2>1 DEF TypeOK
  <1>3. CallOpen'
    BY <1>0 DEF CallOpen, Line
  <1>4. Worked'
    <2>1. IsBulk(asked)
      BY <1>0, <1>1 DEF IsBulk
    <2>2. buf = asked.buf /\ PartReversed(asked.buf, asked.a, 0) = asked.buf
      BY <1>0, <1>1, NoTurn DEF Worked
    <2>3. 0 <= asked.a \div 2 /\ ~(0 > 0)
      BY <1>1
    <2> QED
      BY <1>0, <2>1, <2>2, <2>3 DEF Worked
  <1>5. Heard'
    BY <1>0 DEF Heard, Line
  <1> QED
    BY <1>0, <1>2, <1>3, <1>4, <1>5 DEF IInv

LEMMA SwapKeeps == IInv /\ Swap => IInv'
  <1> SUFFICES ASSUME IInv, Swap PROVE IInv'
    OBVIOUS
  <1>0. /\ TypeOK /\ buf \in Pages /\ CallOpen /\ Worked /\ Heard /\ passed
        /\ UNCHANGED <<dep, prio, cpc, step, passed, spc, resp, asked, heard>>
        /\ spc = "bulk" /\ i' = i + 1
        /\ i < asked.a \div 2 /\ asked.a - 1 - i < PAGE
        /\ buf' = Swapped(buf, i, asked.a - 1 - i)
    BY DEF IInv, Swap, callerVars, Last
  <1>1. PICK a : a = asked.a
    OBVIOUS
  <1>2. cpc = "blocked" /\ a \in Nat /\ asked.buf \in Pages
    BY <1>0, <1>1, OpenRequest
  <1>3. /\ IsBulk(asked) /\ (i > 0 => a <= PAGE)
        /\ buf = PartReversed(asked.buf, a, i)
        /\ a <= PAGE => Total(buf)[a] = Total(asked.buf)[a]
    BY <1>0, <1>1 DEF Worked
  <1>4. /\ PAGE \in Nat /\ i \in Nat /\ a <= PAGE /\ i < a /\ a - 1 - i < a
        /\ i \in 0 .. (PAGE - 1) /\ a - 1 - i \in 0 .. (PAGE - 1)
        /\ a \in 0 .. PAGE /\ i + 1 <= a \div 2 /\ i + 1 \in 0 .. PAGE
    <2>1. PAGE \in Nat /\ i \in Nat
      BY <1>0, SpansAssumption DEF TypeOK
    <2> QED
      BY <1>0, <1>1, <1>2, <1>3, <2>1
  <1>5. buf' \in Pages /\ Total(buf')[a] = Total(buf)[a]
    BY <1>0, <1>1, <1>4, TotalSwapped
  <1>6. buf' = PartReversed(asked.buf, a, i + 1)
    BY <1>0, <1>1, <1>2, <1>3, <1>4, TurnReverses
  <1>7. TypeOK'
    BY <1>0, <1>4 DEF TypeOK
  <1>8. CallOpen'
    BY <1>0 DEF CallOpen, Line
  <1>9. Worked'
    BY <1>0, <1>1, <1>3, <1>4, <1>5, <1>6 DEF Worked
  <1>10. Heard'
    BY <1>0 DEF Heard, Line
  <1> QED
    BY <1>0, <1>5, <1>7, <1>8, <1>9, <1>10 DEF IInv

LEMMA FaultKeeps == IInv /\ Fault => IInv'
  <1> SUFFICES ASSUME IInv, Fault PROVE IInv'
    OBVIOUS
  <1>0. /\ TypeOK /\ buf \in Pages /\ CallOpen /\ Heard /\ passed
        /\ UNCHANGED <<dep, prio, cpc, step, passed, i, resp, buf, asked, heard>>
        /\ spc = "bulk" /\ spc' = "faulted"
    BY DEF IInv, Fault, callerVars
  <1>1. TypeOK'
    BY <1>0 DEF TypeOK
  <1>2. CallOpen'
    BY <1>0 DEF CallOpen, Line
  <1>3. Worked'
    BY <1>0 DEF Worked
  <1>4. Heard'
    BY <1>0 DEF Heard, Line
  <1> QED
    BY <1>0, <1>1, <1>2, <1>3, <1>4 DEF IInv

LEMMA EndBulkKeeps == IInv /\ EndBulk => IInv'
  <1> SUFFICES ASSUME IInv, EndBulk PROVE IInv'
    OBVIOUS
  <1>0. /\ TypeOK /\ buf \in Pages /\ CallOpen /\ Worked
        /\ spc = "bulk" /\ i >= asked.a \div 2
    BY DEF IInv, EndBulk
  <1>1. PICK a : a = asked.a
    OBVIOUS
  <1>2. /\ asked.server = dep.server /\ a \in Nat /\ asked.buf \in Pages
    BY <1>0, <1>1, OpenRequest
  <1>3. /\ IsBulk(asked) /\ i <= a \div 2 /\ (i > 0 => a <= PAGE)
        /\ buf = PartReversed(asked.buf, a, i)
        /\ a <= PAGE => Total(buf)[a] = Total(asked.buf)[a]
    BY <1>0, <1>1 DEF Worked
  <1>4. i = a \div 2 /\ a \in 0 .. PAGE /\ a <= PAGE
    <2>1. PAGE \in Nat \ {0} /\ i \in Nat
      BY <1>0, SpansAssumption DEF TypeOK
    <2> QED
      BY <1>0, <1>1, <1>2, <1>3, <2>1
  <1>5. buf = PageAfter(asked)
    BY <1>1, <1>2, <1>3, <1>4, AllTurns DEF PageAfter
  <1>6. Checksum(buf, a) = Checksum(asked.buf, a)
    BY <1>3, <1>4 DEF Checksum
  <1>7. PICK w : w = IF dep.server = "bak" THEN Checksum(buf, a) ELSE 0
    OBVIOUS
  <1>8. Respond(1, w) /\ w \in Words
    BY <1>0, <1>1, <1>4, <1>7, WordsComputed DEF EndBulk
  <1>9. Result(asked) = w /\ asked.op = 3
    BY <1>1, <1>2, <1>3, <1>6, <1>7 DEF Result, IsBulk, OP_ADD, OP_NOT, OP_BULK_PROCESS
  <1>10. PICK r : r = [len |-> 1, mr |-> w, buf |-> buf]
    OBVIOUS
  <1>11. IsResult(asked, r)
    BY <1>5, <1>9, <1>10 DEF IsResult
  <1>12. Answered(asked)
    BY <1>1, <1>4 DEF Answered
  <1> QED
    BY <1>0, <1>8, <1>10, <1>11, <1>12, RespondKeeps

-----------------------------------------------------------------------------
(* What a line expects of a page of zeroes it gets of any page: it has     *)
(* filled all that the server reads of it and all that it looks at.        *)

LEMMA LineMatches ==
  ASSUME NEW server \in Servers, NEW line \in Lines, ExpectsResult(server, line),
         NEW q, IsRequestOf(q, server, line), Answered(q),
         NEW r, IsResult(q, r)
  PROVE  Matches(line, r)
  <1> DEFINE f == Filled([n \in 0 .. (PAGE - 1) |-> 0], line.fill)
             z == RequestOf(server, line, f)
  <1>0. /\ PAGE \in Nat /\ line.fill \in 0 .. PAGE /\ line.fill \in Nat
        /\ line.a \in Nat /\ line.first \in Seq(Int)
    BY SpansAssumption DEF Lines, Words
  <1>1. /\ f \in Pages
        /\ \A x \in 0 .. (PAGE - 1) : x < line.fill => f[x] = (x + 1) * 10
    <2>1. [n \in 0 .. (PAGE - 1) |-> 0] \in Pages
      BY DEF Pages
    <2> QED
      BY <1>0, <2>1, PagesKept
  <1> HIDE DEF f
  <1>2. /\ z.server = server /\ z.op = line.op /\ z.a = line.a /\ z.b = line.b
        /\ z.buf = f
    BY DEF RequestOf
  <1>3. /\ q.server = server /\ q.op = line.op /\ q.a = line.a /\ q.b = line.b
        /\ q.buf \in Pages /\ q.buf = Filled(q.buf, line.fill)
    BY DEF IsRequestOf, RequestOf
  <1>4. \A x \in 0 .. (PAGE - 1) : x < line.fill => q.buf[x] = f[x]
    BY <1>0, <1>1, <1>3, PagesKept
  <1>5. /\ Len(line.first) <= line.fill
        /\ IsBulk(z) /\ Answered(z) => line.a <= line.fill
        /\ Answered(z) => Matches(line, [mr |-> Result(z), buf |-> PageAfter(z)])
    BY <1>2 DEF ExpectsResult, f
  <1> HIDE DEF z
  <1>6. (IsBulk(q) <=> IsBulk(z)) /\ Answered(z)
    BY <1>2, <1>3 DEF IsBulk, Answered
  <1>7. /\ Result(z) \in line.res
        /\ \A n \in 1 .. Len(line.first) : PageAfter(z)[n - 1] = line.first[n]
    BY <1>5, <1>6 DEF Matches
  <1>8. IsBulk(q) => line.a <= line.fill
    BY <1>5, <1>6
  <1>9. Result(q) = Result(z)
    <2>1. CASE IsBulk(q)
      <3>1. Checksum(q.buf, line.a) = Checksum(f, line.a)
        <4>1. line.a \in 0 .. PAGE /\ \A x \in 0 .. (line.a - 1) : q.buf[x] = f[x]
          BY <1>0, <1>4, <1>8, <2>1
        <4>2. Total(q.buf)[line.a] = Total(f)[line.a]
          BY <1>1, <1>3, <4>1, TotalBelow
        <4> QED
          BY <4>2 DEF Checksum
      <3>2. line.op = 3
        BY <1>3, <2>1 DEF IsBulk, OP_BULK_PROCESS
      <3>3. Result(q) = IF server = "bak" THEN Checksum(q.buf, line.a) ELSE 0
        BY <1>3, <2>1, <3>2 DEF Result, OP_ADD, OP_NOT
      <3>4. Result(z) = IF server = "bak" THEN Checksum(f, line.a) ELSE 0
        BY <1>2, <1>6, <2>1, <3>2 DEF Result, OP_ADD, OP_NOT
      <3> QED
        BY <3>1, <3>3, <3>4
    <2>2. CASE ~IsBulk(q)
      BY <1>2, <1>3, <1>6, <2>2 DEF Result, OP_ADD, OP_NOT
    <2> QED
      BY <2>1, <2>2
  <1>10. ASSUME NEW n \in 1 .. Len(line.first)
         PROVE  PageAfter(q)[n - 1] = PageAfter(z)[n - 1]
    <2>1. /\ n - 1 \in 0 .. (PAGE - 1) /\ n - 1 < line.fill
          /\ DOMAIN q.buf = 0 .. (PAGE - 1) /\ DOMAIN f = 0 .. (PAGE - 1)
      BY <1>0, <1>1, <1>3, <1>5 DEF Pages
    <2>2. CASE IsBulk(q)
      <3>1. /\ PageAfter(q) = Reversed(q.buf, line.a)
            /\ PageAfter(z) = Reversed(f, line.a)
        BY <1>2, <1>3, <1>6, <2>2 DEF PageAfter
      <3>2. CASE n - 1 < line.a
        <4>1. PICK y : y = line.a - 1 - (n - 1)
          OBVIOUS
        <4>2. y \in 0 .. (PAGE - 1) /\ y < line.fill
          BY <1>0, <1>8, <2>1, <2>2, <3>2, <4>1
        <4>3. PageAfter(q)[n - 1] = q.buf[y] /\ PageAfter(z)[n - 1] = f[y]
          BY <2>1, <3>1, <3>2, <4>1 DEF Reversed
        <4> QED
          BY <1>4, <4>2, <4>3
      <3>3. CASE ~(n - 1 < line.a)
        BY <1>4, <2>1, <3>1, <3>3 DEF Reversed
      <3> QED
        BY <3>2, <3>3
    <2>3. CASE ~IsBulk(q)
      BY <1>2, <1>3, <1>4, <1>6, <2>1, <2>3 DEF PageAfter
    <2> QED
      BY <2>2, <2>3
  <1>11. r.mr = Result(q) /\ r.buf = PageAfter(q)
    BY DEF IsResult
  <1> QED
    BY <1>7, <1>9, <1>10, <1>11 DEF Matches

LEMMA ReplyKeeps == IInv /\ ReplyRecv => IInv'
  <1> SUFFICES ASSUME IInv, ReplyRecv PROVE IInv'
    OBVIOUS
  <1>0. /\ TypeOK /\ buf \in Pages /\ CallOpen /\ Worked /\ passed
        /\ UNCHANGED <<dep, prio, step, passed, i, resp, buf>>
        /\ spc = "reply" /\ spc' = "recv" /\ cpc' = "check"
        /\ asked' = None
        /\ heard' = [len |-> resp.len, mr |-> resp.mr, buf |-> buf]
    BY DEF IInv, ReplyRecv
  <1>1. /\ cpc = "blocked" /\ step <= Len(dep.script)
        /\ IsRequestOf(asked, dep.server, Line)
    BY <1>0 DEF CallOpen
  <1>2. Answered(asked) /\ IsResult(asked, heard')
    BY <1>0 DEF Worked
  <1>3. Matches(Line, heard')
    BY <1>0, <1>1, <1>2, LineType, LineMatches
  <1>4. TypeOK' /\ Line' = Line
    BY <1>0 DEF TypeOK, Line
  <1>5. CallOpen' /\ Worked'
    BY <1>0, <1>1 DEF CallOpen, Worked
  <1>6. Heard'
    BY <1>3, <1>4 DEF Heard
  <1> QED
    BY <1>0, <1>4, <1>5, <1>6 DEF IInv

-----------------------------------------------------------------------------
(* The theorems.                                                           *)

LEMMA NextInv == IInv /\ [Next]_vars => IInv'
  <1> SUFFICES ASSUME IInv, [Next]_vars PROVE IInv'
    OBVIOUS
  <1>1. CASE CallerStep
    BY <1>1, CallKeeps, CallerKeeps DEF CallerStep
  <1>2. CASE ServerStep
    BY <1>2, ReceiveKeeps, ServeKeeps, StartBulkKeeps, SwapKeeps, FaultKeeps,
       EndBulkKeeps, ReplyKeeps DEF ServerStep
  <1>3. CASE UNCHANGED vars
    BY <1>3 DEF IInv, TypeOK, CallOpen, Worked, Heard, Line, vars, callerVars
  <1> QED
    BY <1>1, <1>2, <1>3 DEF Next

LEMMA Invariance == Spec => []IInv
  BY InitInv, NextInv, PTL DEF Spec

(* Types: the loop counter of the reversal never leaves the page, whatever *)
(* length the caller asks for, and every reply is a word, the sum, the     *)
(* complement and the checksum wrapping as the machine's do                *)
(* (srv.c:20-47, bak/srv.c:29-63, multiserver/src/srv.c:17-44).            *)
THEOREM TypeCorrect == Spec => []TypeOK
  <1>1. IInv => TypeOK
    BY DEF IInv
  <1> QED
    BY <1>1, Invariance, PTL

(* Every check a caller makes holds: a script whose lines expect what the  *)
(* server computes of a fresh page finds it on the page it has, as earlier *)
(* calls have left it (client.c:32 and :52, bak/client.c:62,               *)
(* bak/main.c:142 and :167).                                               *)
THEOREM ScriptsCorrect == Spec => []ScriptsPass
  <1>1. IInv => ScriptsPass
    BY DEF IInv, ScriptsPass
  <1> QED
    BY <1>1, Invariance, PTL

(* A call over an endpoint gets one reply, and it is the result of that    *)
(* request on the page as it was at the call, though the server works on   *)
(* it in place and without a lock (srv.c:20-47, bak/srv.c:29-63).          *)
THEOREM CallImplemented == Spec => ImplementsCall
  <1>1. Init => RPC!Init
    BY DEF Init, RPC!Init
  <1>2. IInv /\ [Next]_vars => [RPC!Next]_<<asked, heard>>
    <2> SUFFICES ASSUME IInv, [Next]_vars PROVE [RPC!Next]_<<asked, heard>>
      OBVIOUS
    <2>1. CASE Call
      <3>1. asked = None /\ heard' = None
        BY <2>1 DEF Call, IInv, CallOpen
      <3>2. IInv' /\ cpc' = "blocked" /\ step' <= Len(dep'.script)
        BY <2>1, CallKeeps DEF Call
      <3>3. TypeOK' /\ CallOpen'
        BY <3>2 DEF IInv
      <3>4. IsRequestOf(asked', dep.server, Line) /\ dep.server \in Servers /\ Line \in Lines
        <4>1. IsRequestOf(asked', dep'.server, Line')
          BY <3>2, <3>3 DEF CallOpen
        <4>2. dep'.server = dep.server /\ Line' = Line /\ step <= Len(dep.script)
          BY <2>1 DEF Call, Line
        <4> QED
          BY <4>1, <4>2, LineType DEF IInv
      <3>5. asked' \in Requests
        BY <3>4, RequestType
      <3> QED
        BY <3>1, <3>5 DEF RPC!Next, RPC!Ask
    <2>2. CASE ReplyRecv
      <3>0. /\ TypeOK /\ CallOpen /\ Worked /\ buf \in Pages
            /\ spc = "reply" /\ asked' = None
            /\ heard' = [len |-> resp.len, mr |-> resp.mr, buf |-> buf]
        BY <2>2 DEF IInv, ReplyRecv
      <3>1. asked # None /\ IsResult(asked, heard')
        BY <3>0 DEF CallOpen, Worked
      <3>2. heard' \in Replies
        BY <3>0 DEF TypeOK, Replies
      <3>3. heard' # None
        BY <3>2, NoneAssumption
      <3> QED
        BY <3>0, <3>1, <3>3 DEF RPC!Next, RPC!Answer
    <2>3. CASE LowerPriority \/ Check \/ Finish
      BY <2>3 DEF LowerPriority, Check, Finish
    <2>4. CASE ServerStep /\ ~ReplyRecv
      BY <2>4 DEF ServerStep, Start, Receive, ServeAdd, ServeNot, StartBulk,
                  ServeUnknown, Swap, Fault, EndBulk, Respond
    <2>5. CASE UNCHANGED vars
      BY <2>5 DEF vars
    <2> QED
      BY <2>1, <2>2, <2>3, <2>4, <2>5 DEF Next, CallerStep, ServerStep
  <1> QED
    BY <1>1, <1>2, Invariance, PTL DEF Spec, ImplementsCall, RPC!Spec

=============================================================================
