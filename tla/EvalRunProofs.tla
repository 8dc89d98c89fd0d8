---------------------------- MODULE EvalRunProofs ----------------------------
(***************************************************************************)
(* What an evaluation saves can be replayed, and its summary counts saved  *)
(* episodes only: for any manifest, seeds and services deployed, and any   *)
(* number of interrupts, kills and resumes.                                *)
(*                                                                         *)
(* The first part follows the random scopes of one reset, entry by entry,  *)
(* to where the prices, the goal and the page are drawn; the others are    *)
(* the invariants of the run directory and of the streams.                 *)
(***************************************************************************)
EXTENDS EvalRun, SequenceTheorems, FiniteSetTheorems, TLAPS

----------------------------------------------------------------------------
(* The scopes of a request.                                                *)

\* The stack after an entry.
After(e, stack) ==
  CASE e.do = "enter" -> <<e.rng>> \o stack
    [] e.do = "exit"  -> Tail(stack)
    [] e.do = "draw"  -> stack

\* The recursion of scopes, as an equation.
IsStack(h, q) ==
  h = [n \in 0 .. Len(q) |-> IF n = 0 THEN <<>> ELSE After(q[n], h[n - 1])]

\* The stacks of a list of entries, since a function follows it.
LEMMA Followed ==
  ASSUME NEW q, Len(q) \in Nat,
         NEW f, f = [n \in 0 .. Len(q) |-> f[n]],
         f[0] = <<>>, \A n \in 1 .. Len(q) : f[n] = After(q[n], f[n - 1])
  PROVE  /\ scopes(q)[0] = <<>>
         /\ \A n \in 1 .. Len(q) : scopes(q)[n] = After(q[n], scopes(q)[n - 1])
<1>1. \A n \in 0 .. Len(q) : n # 0 => n \in 1 .. Len(q)
  OBVIOUS
<1>2. IsStack(f, q)
  <2> DEFINE body(n) == IF n = 0 THEN <<>> ELSE After(q[n], f[n - 1])
  <2>1. \A n \in 0 .. Len(q) : f[n] = body(n)
    BY <1>1
  <2>2. [n \in 0 .. Len(q) |-> f[n]] = [n \in 0 .. Len(q) |-> body(n)]
    BY <2>1
  <2> QED
    BY <2>2 DEF IsStack
<1>3. IsStack(scopes(q), q)
  BY <1>2 DEF scopes, IsStack, After
<1>4. \A h : IsStack(h, q) => h[0] = <<>> /\ \A n \in 1 .. Len(q) : h[n] = After(q[n], h[n - 1])
  <2> SUFFICES ASSUME NEW h, IsStack(h, q)
               PROVE  h[0] = <<>> /\ \A n \in 1 .. Len(q) : h[n] = After(q[n], h[n - 1])
    OBVIOUS
  <2>1. \A n \in 0 .. Len(q) : h[n] = IF n = 0 THEN <<>> ELSE After(q[n], h[n - 1])
    BY DEF IsStack
  <2>2. 0 \in 0 .. Len(q) /\ \A n \in 1 .. Len(q) : n \in 0 .. Len(q) /\ n # 0
    OBVIOUS
  <2> QED
    BY <2>1, <2>2
<1> QED
  BY <1>3, <1>4

\* One and two streams on the stack.
LEMMA Push ==
  ASSUME NEW S, NEW a \in S, NEW b \in S
  PROVE  <<a>> \o <<>> = <<a>> /\ <<a>> \o <<b>> = <<a, b>>
<1>1. <<a>> \in Seq(S) /\ <<b>> \in Seq(S) /\ <<a, b>> \in Seq(S)
  OBVIOUS
<1>2. <<a>> \o <<>> = <<a>>
  BY <1>1, ConcatEmptySeq
<1>3. Len(<<a>> \o <<b>>) = 2 /\ (<<a>> \o <<b>>)[1] = a /\ (<<a>> \o <<b>>)[2] = b
      /\ <<a>> \o <<b>> \in Seq(S)
  BY <1>1, ConcatProperties
<1>4. Len(<<a, b>>) = 2 /\ <<a, b>>[1] = a /\ <<a, b>>[2] = b
  OBVIOUS
<1> DEFINE s == <<a>> \o <<b>>
           t == <<a, b>>
<1>5. s \in Seq(S) /\ t \in Seq(S) /\ Len(s) = 2 /\ Len(t) = 2
      /\ s[1] = t[1] /\ s[2] = t[2]
  BY <1>1, <1>3, <1>4
<1> HIDE DEF s, t
<1>6. \A i \in 1 .. Len(s) : s[i] = t[i]
  BY <1>5
<1>7. s = t
  BY <1>5, <1>6, SeqEqual
<1> QED
  BY <1>2, <1>7 DEF s, t

LEMMA Pop ==
  \A a : /\ Tail(<<a>>) = <<>> /\ Head(<<a>>) = a
         /\ \A b : Tail(<<a, b>>) = <<b>> /\ Head(<<a, b>>) = a
OBVIOUS

\* What each kind of entry does to a stack of at most two.
LEMMA AfterEnter ==
  \A a, b \in Stream : \A e : e.do = "enter" /\ e.rng = a =>
    After(e, <<>>) = <<a>> /\ After(e, <<b>>) = <<a, b>>
<1> TAKE a, b \in Stream
<1>1. <<a>> \o <<>> = <<a>> /\ <<a>> \o <<b>> = <<a, b>>
  BY Push
<1>2. ASSUME NEW e, e.do = "enter", e.rng = a
      PROVE  After(e, <<>>) = <<a>> /\ After(e, <<b>>) = <<a, b>>
  <2>1. \A x : After(e, x) = <<e.rng>> \o x
    BY <1>2 DEF After
  <2> QED
    BY <1>1, <1>2, <2>1, Zenon
<1> QED
  BY <1>2

LEMMA AfterExit ==
  \A a, b : \A e : e.do = "exit" => After(e, <<a>>) = <<>> /\ After(e, <<a, b>>) = <<b>>
<1> SUFFICES ASSUME NEW a, NEW b, NEW e, e.do = "exit"
             PROVE  After(e, <<a>>) = <<>> /\ After(e, <<a, b>>) = <<b>>
  OBVIOUS
<1>1. e.do # "enter"
  OBVIOUS
<1>2. \A x : After(e, x) = Tail(x)
  BY <1>1 DEF After
<1> QED
  BY <1>2, Pop

LEMMA AfterDraw == \A x : \A e : e.do = "draw" => After(e, x) = x
<1> SUFFICES ASSUME NEW x, NEW e, e.do = "draw" PROVE After(e, x) = x
  OBVIOUS
<1>1. e.do # "enter" /\ e.do # "exit"
  OBVIOUS
<1> QED
  BY <1>1 DEF After

\* A draw, the only one of its name and the first of its stream.
LEMMA FirstDraw ==
  ASSUME NEW q, NEW w, NEW d \in DOMAIN q, DOMAIN q \subseteq Int,
         q[d].do = "draw", q[d].what = w,
         \A n \in DOMAIN q : q[n].do = "draw" /\ q[n].what = w => n = d,
         \A n \in DOMAIN q :
           q[n].do = "draw" /\ n < d => Head(scopes(q)[n]) # Head(scopes(q)[d])
  PROVE  drawn_at(q, w) = [stream |-> Head(scopes(q)[d]), position |-> 0]
<1> DEFINE current == scopes(q)
           Draws   == {n \in DOMAIN q : q[n].do = "draw"}
           at      == CHOOSE n \in Draws : q[n].what = w
           before  == {n \in Draws : n < at /\ Head(current[n]) = Head(current[at])}
<1>1. d \in Draws /\ \A n \in Draws : q[n].what = w => n = d
  OBVIOUS
<1>2. at = d
  <2>1. at \in Draws /\ q[at].what = w
    BY <1>1
  <2> QED
    BY <1>1, <2>1
<1>3. before = {}
  BY <1>2
<1>4. Cardinality(before) = 0
  BY <1>3, FS_EmptySet
<1>5. drawn_at(q, w) = [stream |-> Head(current[at]), position |-> Cardinality(before)]
  BY DEF drawn_at
<1> QED
  BY <1>2, <1>4, <1>5

\* A list between two entries, element by element.
LEMMA Wrapped ==
  ASSUME NEW S, NEW a \in S, NEW c \in S, NEW s \in Seq(S),
         NEW r, r = <<a>> \o s \o <<c>>
  PROVE  /\ r \in Seq(S) /\ Len(r) = Len(s) + 2
         /\ r[1] = a /\ r[Len(s) + 2] = c
         /\ \A i \in 1 .. Len(s) : r[i + 1] = s[i]
<1> DEFINE b == <<a>> \o s
           e == <<c>>
<1>0. r = b \o e
  OBVIOUS
<1>1. <<a>> \in Seq(S) /\ Len(<<a>>) = 1 /\ <<a>>[1] = a /\ Len(s) \in Nat
  OBVIOUS
<1>2. e \in Seq(S) /\ Len(e) = 1 /\ e[1] = c
  OBVIOUS
<1>3. b \in Seq(S) /\ Len(b) = Len(s) + 1 /\ b[1] = a
  BY <1>1, ConcatProperties
<1>4. \A i \in 1 .. Len(s) : b[i + 1] = s[i]
  BY <1>1, ConcatProperties
<1> HIDE DEF b, e
<1>5. /\ r \in Seq(S) /\ Len(r) = Len(b) + Len(e)
      /\ \A i \in 1 .. Len(b) + Len(e) :
           r[i] = IF i <= Len(b) THEN b[i] ELSE e[i - Len(b)]
  <2>1. /\ b \o e \in Seq(S) /\ Len(b \o e) = Len(b) + Len(e)
        /\ \A i \in 1 .. Len(b) + Len(e) :
             (b \o e)[i] = IF i <= Len(b) THEN b[i] ELSE e[i - Len(b)]
    BY <1>2, <1>3, ConcatProperties
  <2> QED
    BY <1>0, <2>1
<1>6. r[1] = a /\ \A i \in 1 .. Len(s) : r[i + 1] = s[i]
  BY <1>1, <1>2, <1>3, <1>4, <1>5
<1>7. r[Len(s) + 2] = c
  BY <1>1, <1>2, <1>3, <1>5
<1>8. r \in Seq(S) /\ Len(r) = Len(s) + 2
  BY <1>1, <1>2, <1>3, <1>5
<1> QED
  BY <1>6, <1>7, <1>8

\* In a TEST service every scope has a stream.
LEMMA Scoped ==
  ASSUME endpoint.split = "test", NEW scope, NEW task, NEW calls
  PROVE  _rng_scope(_test_rng(scope, task), calls) =
           <<Enter(local_rng(scope, task))>> \o calls \o <<Exit>>
<1> DEFINE l == local_rng(scope, task)
<1>1. _test_rng(scope, task) = <<l>>
  BY DEF _test_rng
<1> HIDE DEF l
<1>2. <<l>> # << >> /\ <<l>>[1] = l
  OBVIOUS
<1> QED
  BY <1>1, <1>2 DEF _rng_scope, l

\* What may be in a request.
Entries == [do : {"enter", "exit", "draw"}, what : {"none", "prices", "goal", "page"}, rng : Stream]

\* The entries themselves: entering a stream, drawing, leaving.
LEMMA EntryTypes ==
  ASSUME endpoint.split = "test", endpoint.seed \in Seeds, NEW task \in 0 .. Tasks,
         NEW scope \in {"runtime", "goal", "session"}
  PROVE  /\ local_rng(scope, task) \in Stream
         /\ Enter(local_rng(scope, task)) \in Entries /\ Exit \in Entries
<1>1. Undrawn.stream \in Stream
  BY EvalRunAssumption DEF Undrawn, Stream, Runtime
<1> QED
  BY <1>1 DEF local_rng, Stream, Enter, Exit, Entries

LEMMA DrawTypes ==
  ASSUME NEW what \in {"prices", "goal", "page"}
  PROVE  /\ Draw(what) \in Seq(Entries) /\ Len(Draw(what)) = 1
         /\ Draw(what)[1] \in Entries
         /\ Draw(what)[1].do = "draw" /\ Draw(what)[1].what = what
<1>1. Undrawn.stream \in Stream
  BY EvalRunAssumption DEF Undrawn, Stream, Runtime
<1> DEFINE e == [do |-> "draw", what |-> what, rng |-> Undrawn.stream]
<1>2. e \in Entries /\ e.do = "draw" /\ e.what = what
  BY <1>1 DEF Entries
<1> HIDE DEF e
<1>3. <<e>> \in Seq(Entries) /\ Len(<<e>>) = 1 /\ <<e>>[1] = e
  BY <1>2
<1>4. Draw(what) = <<e>>
  BY DEF Draw, e
<1> QED
  BY <1>2, <1>3, <1>4

LEMMA MarkTypes ==
  /\ \A r : Enter(r).do = "enter" /\ Enter(r).rng = r
  /\ Exit.do = "exit"
BY DEF Enter, Exit

\* A scope around calls, entry by entry.
LEMMA ScopedCalls ==
  ASSUME endpoint.split = "test", endpoint.seed \in Seeds, NEW task \in 0 .. Tasks,
         NEW scope \in {"runtime", "goal", "session"}, NEW calls \in Seq(Entries)
  PROVE  LET r == _rng_scope(_test_rng(scope, task), calls)
         IN /\ r \in Seq(Entries) /\ Len(r) = Len(calls) + 2
            /\ r[1] = Enter(local_rng(scope, task)) /\ r[Len(calls) + 2] = Exit
            /\ \A i \in 1 .. Len(calls) : r[i + 1] = calls[i]
<1> DEFINE a == Enter(local_rng(scope, task))
           r == _rng_scope(_test_rng(scope, task), calls)
<1>1. a \in Entries /\ Exit \in Entries
  BY EntryTypes
<1>2. r = <<a>> \o calls \o <<Exit>>
  BY Scoped
<1> HIDE DEF a, r
<1>3. /\ r \in Seq(Entries) /\ Len(r) = Len(calls) + 2
      /\ r[1] = a /\ r[Len(calls) + 2] = Exit
      /\ \A i \in 1 .. Len(calls) : r[i + 1] = calls[i]
  BY <1>1, <1>2, Wrapped
<1> QED
  BY <1>3 DEF a, r

\* A scope around one draw.
LEMMA ScopedDraw ==
  ASSUME endpoint.split = "test", endpoint.seed \in Seeds, NEW task \in 0 .. Tasks,
         NEW scope \in {"runtime", "goal", "session"}, NEW what \in {"prices", "goal", "page"}
  PROVE  LET r == _rng_scope(_test_rng(scope, task), Draw(what))
         IN /\ r \in Seq(Entries) /\ Len(r) = 3
            /\ r[1] = Enter(local_rng(scope, task)) /\ r[2] = Draw(what)[1] /\ r[3] = Exit
<1> DEFINE d == Draw(what)
           r == _rng_scope(_test_rng(scope, task), d)
<1>1. d \in Seq(Entries) /\ Len(d) = 1
  BY DrawTypes
<1> HIDE DEF d
<1>2. /\ r \in Seq(Entries) /\ Len(r) = Len(d) + 2
      /\ r[1] = Enter(local_rng(scope, task)) /\ r[Len(d) + 2] = Exit
      /\ \A i \in 1 .. Len(d) : r[i + 1] = d[i]
  BY <1>1, ScopedCalls
<1> HIDE DEF r
<1>3. r[2] = d[1]
  BY <1>1, <1>2
<1>4. Len(r) = 3 /\ r[3] = Exit
  BY <1>1, <1>2
<1> QED
  BY <1>2, <1>3, <1>4 DEF d, r

\* Two lists of entries, one after the other.
LEMMA Joined ==
  ASSUME NEW s \in Seq(Entries), NEW t \in Seq(Entries), NEW r, r = s \o t
  PROVE  /\ r \in Seq(Entries) /\ Len(r) = Len(s) + Len(t)
         /\ \A i \in 1 .. Len(r) : r[i] = IF i <= Len(s) THEN s[i] ELSE t[i - Len(s)]
<1>1. /\ r \in Seq(Entries) /\ Len(r) = Len(s) + Len(t)
      /\ \A i \in 1 .. Len(s) + Len(t) : r[i] = IF i <= Len(s) THEN s[i] ELSE t[i - Len(s)]
  BY ConcatProperties
<1> QED
  BY <1>1

\* And three.
LEMMA ThreeParts ==
  ASSUME NEW g \in Seq(Entries), NEW e \in Seq(Entries), NEW p \in Seq(Entries),
         NEW q, q = g \o e \o p
  PROVE  /\ q \in Seq(Entries) /\ Len(q) = Len(g) + Len(e) + Len(p)
         /\ \A i \in 1 .. Len(q) :
              q[i] = IF i <= Len(g) THEN g[i]
                     ELSE IF i <= Len(g) + Len(e) THEN e[i - Len(g)]
                     ELSE p[i - Len(g) - Len(e)]
<1>1. PICK ge : ge = g \o e
  OBVIOUS
<1>2. /\ ge \in Seq(Entries) /\ Len(ge) = Len(g) + Len(e)
      /\ \A i \in 1 .. Len(ge) : ge[i] = IF i <= Len(g) THEN g[i] ELSE e[i - Len(g)]
  BY <1>1, Joined
<1>3. q = ge \o p
  BY <1>1
<1>4. /\ q \in Seq(Entries) /\ Len(q) = Len(ge) + Len(p)
      /\ \A i \in 1 .. Len(q) : q[i] = IF i <= Len(ge) THEN ge[i] ELSE p[i - Len(ge)]
  <2>1. ge \in Seq(Entries)
    BY <1>2
  <2> QED
    BY <1>3, <2>1, Joined
<1>5. Len(g) \in Nat /\ Len(e) \in Nat /\ Len(p) \in Nat
  OBVIOUS
<1> QED
  BY <1>2, <1>4, <1>5

\* A scope in which nothing is drawn.
LEMMA ScopedNothing ==
  ASSUME endpoint.split = "test", endpoint.seed \in Seeds, NEW task \in 0 .. Tasks,
         NEW scope \in {"runtime", "goal", "session"}
  PROVE  LET r == _rng_scope(_test_rng(scope, task), << >>)
         IN /\ r \in Seq(Entries) /\ Len(r) = 2
            /\ r[1] = Enter(local_rng(scope, task)) /\ r[2] = Exit
<1>1. PICK n : n = << >>
  OBVIOUS
<1>2. n \in Seq(Entries) /\ Len(n) = 0
  BY <1>1
<1> DEFINE a == Enter(local_rng(scope, task))
           r == _rng_scope(_test_rng(scope, task), n)
<1>3. a \in Entries /\ Exit \in Entries
  BY EntryTypes
<1>4. r = <<a>> \o n \o <<Exit>>
  BY Scoped
<1> HIDE DEF a, r
<1>5. r \in Seq(Entries) /\ Len(r) = Len(n) + 2 /\ r[1] = a /\ r[Len(n) + 2] = Exit
  <2>1. n \in Seq(Entries)
    BY <1>2
  <2> QED
    BY <1>3, <1>4, <2>1, Wrapped
<1>6. Len(n) + 2 = 2
  BY <1>2
<1>7. r \in Seq(Entries) /\ Len(r) = 2 /\ r[1] = a /\ r[2] = Exit
  BY <1>5, <1>6, Zenon
<1> QED
  BY <1>1, <1>7, Zenon DEF a, r

\* A reset after the first: the goal, an environment that draws nothing, the page.
LEMMA WarmRequests ==
  ASSUME endpoint.split = "test", endpoint.seed \in Seeds, NEW task \in 0 .. Tasks,
         ~EnvironmentDraws, endpoint.server,
         NEW q, q = Requests(task)
  PROVE  /\ q \in Seq(Entries) /\ Len(q) = 8
         /\ q[1] = Enter(local_rng("goal", task)) /\ q[2] = Draw("goal")[1] /\ q[3] = Exit
         /\ q[4] = Enter(local_rng("session", task)) /\ q[5] = Exit
         /\ q[6] = Enter(local_rng("session", task)) /\ q[7] = Draw("page")[1] /\ q[8] = Exit
<1>1. PICK g, e, p : /\ g = _rng_scope(_test_rng("goal", task), Draw("goal"))
                     /\ e = _rng_scope(_test_rng("session", task), << >>)
                     /\ p = _rng_scope(_test_rng("session", task), Draw("page"))
  OBVIOUS
<1>2. q = g \o e \o p
  BY <1>1 DEF Requests, task_goals, Constructor
<1>3. /\ g \in Seq(Entries) /\ Len(g) = 3
      /\ g[1] = Enter(local_rng("goal", task)) /\ g[2] = Draw("goal")[1] /\ g[3] = Exit
  BY <1>1, ScopedDraw
<1>4. /\ e \in Seq(Entries) /\ Len(e) = 2
      /\ e[1] = Enter(local_rng("session", task)) /\ e[2] = Exit
  BY <1>1, ScopedNothing
<1>5. /\ p \in Seq(Entries) /\ Len(p) = 3
      /\ p[1] = Enter(local_rng("session", task)) /\ p[2] = Draw("page")[1] /\ p[3] = Exit
  BY <1>1, ScopedDraw
<1>6. /\ q \in Seq(Entries) /\ Len(q) = Len(g) + Len(e) + Len(p)
      /\ \A i \in 1 .. Len(q) :
           q[i] = IF i <= Len(g) THEN g[i]
                  ELSE IF i <= Len(g) + Len(e) THEN e[i - Len(g)]
                  ELSE p[i - Len(g) - Len(e)]
  <2>1. g \in Seq(Entries) /\ e \in Seq(Entries) /\ p \in Seq(Entries)
    BY <1>3, <1>4, <1>5
  <2> QED
    BY <1>2, <2>1, ThreeParts
<1>7. Len(q) = 8
  BY <1>3, <1>4, <1>5, <1>6
<1>8. /\ Len(g) = 3 /\ Len(e) = 2
      /\ \A i \in 1 .. 8 :
           q[i] = IF i <= Len(g) THEN g[i]
                  ELSE IF i <= Len(g) + Len(e) THEN e[i - Len(g)]
                  ELSE p[i - Len(g) - Len(e)]
  BY <1>3, <1>4, <1>6, <1>7
<1>9. /\ q[1] = g[1] /\ q[2] = g[2] /\ q[3] = g[3] /\ q[4] = e[1] /\ q[5] = e[2]
      /\ q[6] = p[1] /\ q[7] = p[2] /\ q[8] = p[3]
  BY <1>8
<1> QED
  BY <1>3, <1>4, <1>5, <1>6, <1>7, <1>9


\* The first reset, which also draws the prices.
LEMMA ColdRequests ==
  ASSUME endpoint.split = "test", endpoint.seed \in Seeds, NEW task \in 0 .. Tasks,
         ~EnvironmentDraws, ~endpoint.server,
         NEW q, q = Requests(task)
  PROVE  /\ q \in Seq(Entries) /\ Len(q) = 9
         /\ q[1] = Enter(local_rng("runtime", Runtime)) /\ q[2] = Draw("prices")[1]
         /\ q[3] = Enter(local_rng("goal", task)) /\ q[4] = Draw("goal")[1] /\ q[5] = Exit
         /\ q[6] = Exit
         /\ q[7] = Enter(local_rng("session", task)) /\ q[8] = Draw("page")[1] /\ q[9] = Exit
<1>1. PICK d, g, n, b, r, p :
        /\ d = Draw("prices") /\ g = _rng_scope(_test_rng("goal", task), Draw("goal"))
        /\ n = << >> /\ b = d \o g \o n
        /\ r = _rng_scope(_test_rng("runtime", Runtime), b)
        /\ p = _rng_scope(_test_rng("session", task), Draw("page"))
  OBVIOUS
<1>2. q = r \o p
  BY <1>1 DEF Requests, task_goals, Constructor
<1>3. d \in Seq(Entries) /\ Len(d) = 1
  BY <1>1, DrawTypes
<1>4. /\ g \in Seq(Entries) /\ Len(g) = 3
      /\ g[1] = Enter(local_rng("goal", task)) /\ g[2] = Draw("goal")[1] /\ g[3] = Exit
  BY <1>1, ScopedDraw
<1>5. n \in Seq(Entries) /\ Len(n) = 0
  BY <1>1
<1>6. /\ p \in Seq(Entries) /\ Len(p) = 3
      /\ p[1] = Enter(local_rng("session", task)) /\ p[2] = Draw("page")[1] /\ p[3] = Exit
  BY <1>1, ScopedDraw
<1>7. /\ b \in Seq(Entries) /\ Len(b) = Len(d) + Len(g) + Len(n)
      /\ \A i \in 1 .. Len(b) :
           b[i] = IF i <= Len(d) THEN d[i]
                  ELSE IF i <= Len(d) + Len(g) THEN g[i - Len(d)]
                  ELSE n[i - Len(d) - Len(g)]
  <2>1. d \in Seq(Entries) /\ g \in Seq(Entries) /\ n \in Seq(Entries) /\ b = d \o g \o n
    BY <1>1, <1>3, <1>4, <1>5
  <2> QED
    BY <2>1, ThreeParts
<1>8. Len(b) = 4
  BY <1>3, <1>4, <1>5, <1>7
<1>9. /\ Len(d) = 1 /\ Len(g) = 3
      /\ \A i \in 1 .. 4 :
           b[i] = IF i <= Len(d) THEN d[i]
                  ELSE IF i <= Len(d) + Len(g) THEN g[i - Len(d)]
                  ELSE n[i - Len(d) - Len(g)]
  BY <1>3, <1>4, <1>7, <1>8
<1>10. b[1] = d[1] /\ b[2] = g[1] /\ b[3] = g[2] /\ b[4] = g[3]
  BY <1>9
<1>11. /\ r \in Seq(Entries) /\ Len(r) = Len(b) + 2
       /\ r[1] = Enter(local_rng("runtime", Runtime)) /\ r[Len(b) + 2] = Exit
       /\ \A i \in 1 .. Len(b) : r[i + 1] = b[i]
  <2>1. Runtime \in 0 .. Tasks
    BY EvalRunAssumption DEF Runtime
  <2>2. b \in Seq(Entries)
    BY <1>7
  <2> DEFINE c == _rng_scope(_test_rng("runtime", Runtime), b)
  <2>3. /\ c \in Seq(Entries) /\ Len(c) = Len(b) + 2
        /\ c[1] = Enter(local_rng("runtime", Runtime)) /\ c[Len(b) + 2] = Exit
        /\ \A i \in 1 .. Len(b) : c[i + 1] = b[i]
    BY <2>1, <2>2, ScopedCalls
  <2>4. r = c
    BY <1>1
  <2> HIDE DEF c
  <2> QED
    BY <2>3, <2>4
<1>12. Len(r) = 6 /\ r[6] = Exit /\ \A i \in 1 .. 4 : r[i + 1] = b[i]
  BY <1>8, <1>11
<1>13. r[2] = b[1] /\ r[3] = b[2] /\ r[4] = b[3] /\ r[5] = b[4]
  <2>1. 1 \in 1 .. 4 /\ 2 \in 1 .. 4 /\ 3 \in 1 .. 4 /\ 4 \in 1 .. 4
        /\ 1 + 1 = 2 /\ 2 + 1 = 3 /\ 3 + 1 = 4 /\ 4 + 1 = 5
    OBVIOUS
  <2> QED
    BY <1>12, <2>1
<1>14. /\ q \in Seq(Entries) /\ Len(q) = Len(r) + Len(p)
       /\ \A i \in 1 .. Len(q) : q[i] = IF i <= Len(r) THEN r[i] ELSE p[i - Len(r)]
  <2>1. r \in Seq(Entries) /\ p \in Seq(Entries)
    BY <1>6, <1>11
  <2> QED
    BY <1>2, <2>1, Joined
<1>15. Len(q) = 9
  BY <1>6, <1>12, <1>14
<1>16. /\ Len(r) = 6
       /\ \A i \in 1 .. 9 : q[i] = IF i <= Len(r) THEN r[i] ELSE p[i - Len(r)]
  BY <1>12, <1>14, <1>15
<1>17. /\ q[1] = r[1] /\ q[2] = r[2] /\ q[3] = r[3] /\ q[4] = r[4] /\ q[5] = r[5]
       /\ q[6] = r[6] /\ q[7] = p[1] /\ q[8] = p[2] /\ q[9] = p[3]
  BY <1>16
<1> QED
  BY <1>1, <1>4, <1>6, <1>10, <1>11, <1>12, <1>13, <1>14, <1>15, <1>17


\* Where a reset after the first draws the goal and the page.
LEMMA WarmDraws ==
  ASSUME endpoint.split = "test", endpoint.seed \in Seeds, NEW task \in 0 .. Tasks,
         ~EnvironmentDraws, endpoint.server,
         NEW q, q = Requests(task)
  PROVE  /\ drawn_at(q, "goal") = [stream |-> local_rng("goal", task), position |-> 0]
         /\ drawn_at(q, "page") = [stream |-> local_rng("session", task), position |-> 0]
<1>1. PICK g, s : g = local_rng("goal", task) /\ s = local_rng("session", task)
  OBVIOUS
<1>2. g # s /\ g \in Stream /\ s \in Stream
  <2>1. g.scope = "goal" /\ s.scope = "session"
    BY <1>1 DEF local_rng
  <2> QED
    BY <1>1, <2>1, EntryTypes
<1>3. /\ q \in Seq(Entries) /\ Len(q) = 8 /\ DOMAIN q = 1 .. 8
      /\ q[1] = Enter(g) /\ q[2] = Draw("goal")[1] /\ q[3] = Exit
      /\ q[4] = Enter(s) /\ q[5] = Exit
      /\ q[6] = Enter(s) /\ q[7] = Draw("page")[1] /\ q[8] = Exit
  BY <1>1, WarmRequests
<1>4. /\ q[1].do = "enter" /\ q[1].rng = g /\ q[2].do = "draw" /\ q[3].do = "exit"
      /\ q[4].do = "enter" /\ q[4].rng = s /\ q[5].do = "exit"
      /\ q[6].do = "enter" /\ q[6].rng = s /\ q[7].do = "draw" /\ q[8].do = "exit"
      /\ q[2].what = "goal" /\ q[7].what = "page"
  BY <1>3, MarkTypes, DrawTypes
<1>5. \A n \in 1 .. 8 : n \in {1, 2, 3, 4, 5, 6, 7, 8}
  OBVIOUS
<1>6. /\ After(q[1], <<>>) = <<g>> /\ After(q[2], <<g>>) = <<g>> /\ After(q[3], <<g>>) = <<>>
      /\ After(q[4], <<>>) = <<s>> /\ After(q[5], <<s>>) = <<>> /\ After(q[6], <<>>) = <<s>>
      /\ After(q[7], <<s>>) = <<s>> /\ After(q[8], <<s>>) = <<>>
  <2>1. ASSUME NEW e, NEW a \in Stream, e.do = "enter", e.rng = a PROVE After(e, <<>>) = <<a>>
    BY <2>1, AfterEnter, Zenon
  <2>2. ASSUME NEW e, NEW a, e.do = "exit" PROVE After(e, <<a>>) = <<>>
    BY <2>2, AfterExit, Zenon
  <2>3. g \in Stream /\ s \in Stream
    BY <1>2
  <2>4. After(q[1], <<>>) = <<g>>
    <3>1. q[1].do = "enter" /\ q[1].rng = g
      BY <1>4
    <3> QED
      BY <2>1, <2>3, <3>1, Zenon
  <2>5. After(q[4], <<>>) = <<s>>
    <3>1. q[4].do = "enter" /\ q[4].rng = s
      BY <1>4
    <3> QED
      BY <2>1, <2>3, <3>1, Zenon
  <2>6. After(q[6], <<>>) = <<s>>
    <3>1. q[6].do = "enter" /\ q[6].rng = s
      BY <1>4
    <3> QED
      BY <2>1, <2>3, <3>1, Zenon
  <2>7. q[3].do = "exit" /\ q[5].do = "exit" /\ q[8].do = "exit"
    BY <1>4
  <2>8. After(q[3], <<g>>) = <<>> /\ After(q[5], <<s>>) = <<>> /\ After(q[8], <<s>>) = <<>>
    BY <2>2, <2>7, Zenon
  <2>9. q[2].do = "draw" /\ q[7].do = "draw"
    BY <1>4
  <2>10. After(q[2], <<g>>) = <<g>> /\ After(q[7], <<s>>) = <<s>>
    BY <2>9, AfterDraw, Zenon
  <2> QED
    BY <2>4, <2>5, <2>6, <2>8, <2>10, Zenon
<1> DEFINE f == [n \in 0 .. 8 |-> IF n \in {1, 2} THEN <<g>>
                                  ELSE IF n \in {4, 6, 7} THEN <<s>> ELSE <<>>]
<1>7. /\ f[0] = <<>> /\ f[1] = <<g>> /\ f[2] = <<g>> /\ f[3] = <<>> /\ f[4] = <<s>>
      /\ f[5] = <<>> /\ f[6] = <<s>> /\ f[7] = <<s>> /\ f[8] = <<>>
  <2>1. f[1] = <<g>> /\ f[2] = <<g>>
    OBVIOUS
  <2>2. f[4] = <<s>> /\ f[6] = <<s>> /\ f[7] = <<s>>
    OBVIOUS
  <2>3. f[0] = <<>> /\ f[3] = <<>> /\ f[5] = <<>> /\ f[8] = <<>>
    OBVIOUS
  <2> QED
    BY <2>1, <2>2, <2>3
<1>8. Len(q) \in Nat /\ f = [n \in 0 .. Len(q) |-> f[n]]
  BY <1>3
<1> HIDE DEF f
<1>9. \A n \in 1 .. 8 : f[n] = After(q[n], f[n - 1])
  <2>1. /\ f[1] = After(q[1], f[0]) /\ f[2] = After(q[2], f[1]) /\ f[3] = After(q[3], f[2])
        /\ f[4] = After(q[4], f[3]) /\ f[5] = After(q[5], f[4]) /\ f[6] = After(q[6], f[5])
        /\ f[7] = After(q[7], f[6]) /\ f[8] = After(q[8], f[7])
    BY <1>6, <1>7, Zenon
  <2> QED
    BY <1>5, <2>1
<1>10. PICK h : h = scopes(q)
  OBVIOUS
<1>11. h[0] = <<>> /\ \A n \in 1 .. 8 : h[n] = After(q[n], h[n - 1])
  <2>1. f[0] = <<>> /\ \A n \in 1 .. Len(q) : f[n] = After(q[n], f[n - 1])
    BY <1>3, <1>7, <1>9
  <2>2. h[0] = <<>> /\ \A n \in 1 .. Len(q) : h[n] = After(q[n], h[n - 1])
    BY <1>8, <1>10, <2>1, Followed
  <2> QED
    BY <1>3, <2>2
<1>12. /\ h[1] = After(q[1], h[0]) /\ h[2] = After(q[2], h[1]) /\ h[3] = After(q[3], h[2])
       /\ h[4] = After(q[4], h[3]) /\ h[5] = After(q[5], h[4]) /\ h[6] = After(q[6], h[5])
       /\ h[7] = After(q[7], h[6])
  BY <1>11
<1>13. h[2] = <<g>> /\ h[7] = <<s>>
  BY <1>6, <1>11, <1>12
<1>14. Head(scopes(q)[2]) = g /\ Head(scopes(q)[7]) = s
  BY <1>10, <1>13, Pop
<1>15. \A n \in DOMAIN q : q[n].do = "draw" => n \in {2, 7}
  BY <1>3, <1>4, <1>5
<1>16. drawn_at(q, "goal") = [stream |-> Head(scopes(q)[2]), position |-> 0]
  <2>1. 2 \in DOMAIN q /\ DOMAIN q \subseteq Int
    BY <1>3
  <2>2. \A n \in DOMAIN q : q[n].do = "draw" /\ q[n].what = "goal" => n = 2
    BY <1>4, <1>15
  <2>3. \A n \in DOMAIN q :
          q[n].do = "draw" /\ n < 2 => Head(scopes(q)[n]) # Head(scopes(q)[2])
    BY <1>15
  <2> QED
    BY <1>4, <2>1, <2>2, <2>3, FirstDraw
<1>17. drawn_at(q, "page") = [stream |-> Head(scopes(q)[7]), position |-> 0]
  <2>1. 7 \in DOMAIN q /\ DOMAIN q \subseteq Int
    BY <1>3
  <2>2. \A n \in DOMAIN q : q[n].do = "draw" /\ q[n].what = "page" => n = 7
    BY <1>4, <1>15
  <2>3. \A n \in DOMAIN q :
          q[n].do = "draw" /\ n < 7 => Head(scopes(q)[n]) # Head(scopes(q)[7])
    BY <1>2, <1>14, <1>15
  <2> QED
    BY <1>4, <2>1, <2>2, <2>3, FirstDraw
<1> QED
  BY <1>1, <1>14, <1>16, <1>17


\* Where the first reset draws the prices, the goal and the page.
LEMMA ColdDraws ==
  ASSUME endpoint.split = "test", endpoint.seed \in Seeds, NEW task \in 0 .. Tasks,
         ~EnvironmentDraws, ~endpoint.server,
         NEW q, q = Requests(task)
  PROVE  /\ drawn_at(q, "prices") = [stream |-> local_rng("runtime", Runtime), position |-> 0]
         /\ drawn_at(q, "goal") = [stream |-> local_rng("goal", task), position |-> 0]
         /\ drawn_at(q, "page") = [stream |-> local_rng("session", task), position |-> 0]
<1>1. PICK r, g, s : /\ r = local_rng("runtime", Runtime)
                     /\ g = local_rng("goal", task) /\ s = local_rng("session", task)
  OBVIOUS
<1>2. r # g /\ r # s /\ g # s /\ r \in Stream /\ g \in Stream /\ s \in Stream
  <2>1. r.scope = "runtime" /\ g.scope = "goal" /\ s.scope = "session"
    BY <1>1 DEF local_rng
  <2>2. Runtime \in 0 .. Tasks
    BY EvalRunAssumption DEF Runtime
  <2> QED
    BY <1>1, <2>1, <2>2, EntryTypes
<1>3. /\ q \in Seq(Entries) /\ Len(q) = 9 /\ DOMAIN q = 1 .. 9
      /\ q[1] = Enter(r) /\ q[2] = Draw("prices")[1]
      /\ q[3] = Enter(g) /\ q[4] = Draw("goal")[1] /\ q[5] = Exit /\ q[6] = Exit
      /\ q[7] = Enter(s) /\ q[8] = Draw("page")[1] /\ q[9] = Exit
  BY <1>1, ColdRequests
<1>4. /\ q[1].do = "enter" /\ q[1].rng = r /\ q[2].do = "draw"
      /\ q[3].do = "enter" /\ q[3].rng = g /\ q[4].do = "draw"
      /\ q[5].do = "exit" /\ q[6].do = "exit"
      /\ q[7].do = "enter" /\ q[7].rng = s /\ q[8].do = "draw" /\ q[9].do = "exit"
      /\ q[2].what = "prices" /\ q[4].what = "goal" /\ q[8].what = "page"
  BY <1>3, MarkTypes, DrawTypes
<1>5. \A n \in 1 .. 9 : n \in {1, 2, 3, 4, 5, 6, 7, 8, 9}
  OBVIOUS
<1>6. /\ After(q[1], <<>>) = <<r>> /\ After(q[2], <<r>>) = <<r>>
      /\ After(q[3], <<r>>) = <<g, r>> /\ After(q[4], <<g, r>>) = <<g, r>>
      /\ After(q[5], <<g, r>>) = <<r>> /\ After(q[6], <<r>>) = <<>>
      /\ After(q[7], <<>>) = <<s>> /\ After(q[8], <<s>>) = <<s>> /\ After(q[9], <<s>>) = <<>>
  <2>1. ASSUME NEW e, NEW a \in Stream, e.do = "enter", e.rng = a PROVE After(e, <<>>) = <<a>>
    BY <2>1, AfterEnter, Zenon
  <2>2. ASSUME NEW e, NEW a, e.do = "exit" PROVE After(e, <<a>>) = <<>>
    BY <2>2, AfterExit, Zenon
  <2>3. r \in Stream /\ g \in Stream /\ s \in Stream
    BY <1>2
  <2>4. After(q[1], <<>>) = <<r>>
    <3>1. q[1].do = "enter" /\ q[1].rng = r
      BY <1>4
    <3> QED
      BY <2>1, <2>3, <3>1, Zenon
  <2>5. After(q[3], <<r>>) = <<g, r>>
    <3>1. q[3].do = "enter" /\ q[3].rng = g
      BY <1>4
    <3> QED
      BY <2>3, <3>1, AfterEnter, Zenon
  <2>6. After(q[7], <<>>) = <<s>>
    <3>1. q[7].do = "enter" /\ q[7].rng = s
      BY <1>4
    <3> QED
      BY <2>1, <2>3, <3>1, Zenon
  <2>7. q[5].do = "exit" /\ q[6].do = "exit" /\ q[9].do = "exit"
    BY <1>4
  <2>8. After(q[6], <<r>>) = <<>> /\ After(q[9], <<s>>) = <<>>
    BY <2>2, <2>7, Zenon
  <2>9. After(q[5], <<g, r>>) = <<r>>
    BY <2>7, AfterExit, Zenon
  <2>10. q[2].do = "draw" /\ q[4].do = "draw" /\ q[8].do = "draw"
    BY <1>4
  <2>11. /\ After(q[2], <<r>>) = <<r>>
         /\ After(q[4], <<g, r>>) = <<g, r>>
         /\ After(q[8], <<s>>) = <<s>>
    BY <2>10, AfterDraw, Zenon
  <2> QED
    BY <2>4, <2>5, <2>6, <2>8, <2>9, <2>11, Zenon
<1> DEFINE f == [n \in 0 .. 9 |-> IF n \in {1, 2, 5} THEN <<r>>
                                  ELSE IF n \in {3, 4} THEN <<g, r>>
                                  ELSE IF n \in {7, 8} THEN <<s>> ELSE <<>>]
<1>7. /\ f[0] = <<>> /\ f[1] = <<r>> /\ f[2] = <<r>> /\ f[3] = <<g, r>> /\ f[4] = <<g, r>>
      /\ f[5] = <<r>> /\ f[6] = <<>> /\ f[7] = <<s>> /\ f[8] = <<s>> /\ f[9] = <<>>
  OBVIOUS
<1>8. Len(q) \in Nat /\ f = [n \in 0 .. Len(q) |-> f[n]]
  BY <1>3
<1> HIDE DEF f
<1>9. \A n \in 1 .. 9 : f[n] = After(q[n], f[n - 1])
  <2>1. /\ f[1] = After(q[1], f[0]) /\ f[2] = After(q[2], f[1]) /\ f[3] = After(q[3], f[2])
        /\ f[4] = After(q[4], f[3]) /\ f[5] = After(q[5], f[4]) /\ f[6] = After(q[6], f[5])
        /\ f[7] = After(q[7], f[6]) /\ f[8] = After(q[8], f[7]) /\ f[9] = After(q[9], f[8])
    BY <1>6, <1>7, Zenon
  <2> QED
    BY <1>5, <2>1
<1>10. PICK h : h = scopes(q)
  OBVIOUS
<1>11. h[0] = <<>> /\ \A n \in 1 .. 9 : h[n] = After(q[n], h[n - 1])
  <2>1. f[0] = <<>> /\ \A n \in 1 .. Len(q) : f[n] = After(q[n], f[n - 1])
    BY <1>3, <1>7, <1>9
  <2>2. h[0] = <<>> /\ \A n \in 1 .. Len(q) : h[n] = After(q[n], h[n - 1])
    BY <1>8, <1>10, <2>1, Followed
  <2> QED
    BY <1>3, <2>2
<1>12. /\ h[1] = After(q[1], h[0]) /\ h[2] = After(q[2], h[1]) /\ h[3] = After(q[3], h[2])
       /\ h[4] = After(q[4], h[3]) /\ h[5] = After(q[5], h[4]) /\ h[6] = After(q[6], h[5])
       /\ h[7] = After(q[7], h[6]) /\ h[8] = After(q[8], h[7])
  BY <1>11
<1>13. h[2] = <<r>> /\ h[4] = <<g, r>> /\ h[8] = <<s>>
  BY <1>6, <1>11, <1>12
<1>14. Head(scopes(q)[2]) = r /\ Head(scopes(q)[4]) = g /\ Head(scopes(q)[8]) = s
  BY <1>10, <1>13, Pop
<1>15. \A n \in DOMAIN q : q[n].do = "draw" => n \in {2, 4, 8}
  BY <1>3, <1>4, <1>5
<1>16. 2 \in DOMAIN q /\ 4 \in DOMAIN q /\ 8 \in DOMAIN q /\ DOMAIN q \subseteq Int
  BY <1>3
<1>17. drawn_at(q, "prices") = [stream |-> Head(scopes(q)[2]), position |-> 0]
  <2>1. \A n \in DOMAIN q : q[n].do = "draw" /\ q[n].what = "prices" => n = 2
    BY <1>4, <1>15
  <2>2. \A n \in DOMAIN q :
          q[n].do = "draw" /\ n < 2 => Head(scopes(q)[n]) # Head(scopes(q)[2])
    BY <1>15
  <2> QED
    BY <1>4, <1>16, <2>1, <2>2, FirstDraw
<1>18. drawn_at(q, "goal") = [stream |-> Head(scopes(q)[4]), position |-> 0]
  <2>1. \A n \in DOMAIN q : q[n].do = "draw" /\ q[n].what = "goal" => n = 4
    BY <1>4, <1>15
  <2>2. \A n \in DOMAIN q :
          q[n].do = "draw" /\ n < 4 => Head(scopes(q)[n]) # Head(scopes(q)[4])
    BY <1>2, <1>14, <1>15
  <2> QED
    BY <1>4, <1>16, <2>1, <2>2, FirstDraw
<1>19. drawn_at(q, "page") = [stream |-> Head(scopes(q)[8]), position |-> 0]
  <2>1. \A n \in DOMAIN q : q[n].do = "draw" /\ q[n].what = "page" => n = 8
    BY <1>4, <1>15
  <2>2. \A n \in DOMAIN q :
          q[n].do = "draw" /\ n < 8 => Head(scopes(q)[n]) # Head(scopes(q)[8])
    BY <1>2, <1>14, <1>15
  <2> QED
    BY <1>4, <1>16, <2>1, <2>2, FirstDraw
<1> QED
  BY <1>1, <1>14, <1>17, <1>18, <1>19

----------------------------------------------------------------------------
(* Types.                                                                  *)

\* What the prices, goals and pages are, and with them the rows, is left open: for an
\* environment whose constructor draws it is not known where they were drawn.
Values(R, P) ==
  /\ dir \in [made : BOOLEAN, manifest : BOOLEAN, episodes : Seq(R), torn : BOOLEAN,
              errors : Nat, tornErrors : BOOLEAN, marker : BOOLEAN,
              summary : Nat, complete : BOOLEAN]
  /\ endpoint \in [split : {"test", "train"}, seed : Seeds, server : BOOLEAN, prices : P]
  /\ rows \in Seq(R)
  /\ play \in [turns : Nat, drawn : Nat, alive : BOOLEAN, prices : P, goal : P, page : P]
  /\ rng \in [seed : Nat, drawn : Nat]

\* Where the process is.
Places == Guarded \cup Early \cup {"down", "validate", "health", "load", "finish",
                                   "handler", "handled"}

Control ==
  /\ pc \in Places /\ resume \in BOOLEAN
  /\ refused \in {"none", "marker", "torn", "health", "not_empty", "no_manifest"}
  /\ faults \in 0 .. MaxFaults /\ launches \in 0 .. MaxLaunches
  /\ play.turns \in 0 .. MaxTurns /\ (pc = "turn" => play.turns < MaxTurns)

\* What Validate and Prepare do, case by case.
LEMMA ValidateCases ==
  ASSUME Validate
  PROVE  /\ pc = "validate"
         /\ \/ pc' = "down" /\ refused' \in {"marker", "torn"}
            \/ pc' = "health" /\ refused' = refused
         /\ UNCHANGED <<dir, endpoint, resume, rows, play, rng, faults, launches>>
BY Zenon DEF Validate, Refuse, Go

LEMMA PrepareCases ==
  ASSUME Prepare
  PROVE  /\ pc = "prepare"
         /\ \/ pc' = "down" /\ refused' \in {"marker", "not_empty", "no_manifest"} /\ dir' = dir
            \/ /\ ~resume /\ ~dir.made /\ pc' = "manifest" /\ refused' = refused
               /\ dir' = [dir EXCEPT !.made = TRUE]
            \/ resume /\ dir.manifest /\ pc' = "load" /\ refused' = refused /\ dir' = dir
         /\ UNCHANGED <<endpoint, resume, rows, play, rng, faults, launches>>
<1>1. \/ dir.marker
      \/ ~dir.marker /\ ~resume /\ dir.made
      \/ ~dir.marker /\ ~resume /\ ~dir.made
      \/ ~dir.marker /\ resume /\ ~dir.manifest
      \/ ~dir.marker /\ resume /\ dir.manifest
  OBVIOUS
<1> QED
BY <1>1, Zenon DEF Prepare, Refuse, Go


\* The prices a reset finds, and the values it draws.
Prices(q) == IF endpoint.server THEN endpoint.prices ELSE drawn_at(q, "prices")

LEMMA ResetCases ==
  ASSUME Reset
  PROVE  /\ pc = "reset"
         /\ \/ /\ endpoint.split = "test" /\ RightSeed /\ pc' = "turn"
               /\ \E q : /\ q = Requests(Len(rows) + 1)
                         /\ endpoint' = [endpoint EXCEPT !.server = TRUE, !.prices = Prices(q)]
                         /\ play' = [turns |-> 0, drawn |-> rng.drawn, alive |-> TRUE,
                                     prices |-> Prices(q), goal |-> drawn_at(q, "goal"),
                                     page |-> drawn_at(q, "page")]
            \/ pc' = "handler" /\ UNCHANGED <<endpoint, play>>
         /\ UNCHANGED <<dir, resume, rows, rng, refused, faults, launches>>
BY Zenon DEF Reset, Go, Prices

LEMMA ResetFrame ==
  ASSUME Reset
  PROVE  /\ pc = "reset" /\ UNCHANGED <<dir, resume, rows, rng, refused, faults, launches>>
         /\ \/ pc' = "turn" /\ play'.turns = 0 /\ play'.drawn = rng.drawn
            \/ pc' = "handler" /\ play' = play /\ endpoint' = endpoint
<1>1. CASE pc' = "handler" /\ UNCHANGED <<endpoint, play>>
  BY <1>1, ResetCases
<1>2. ASSUME NEW q,
             play' = [turns |-> 0, drawn |-> rng.drawn, alive |-> TRUE,
                      prices |-> Prices(q), goal |-> drawn_at(q, "goal"),
                      page |-> drawn_at(q, "page")]
      PROVE  play'.turns = 0 /\ play'.drawn = rng.drawn
  BY <1>2
<1> QED
  BY <1>1, <1>2, ResetCases, Zenon

\* The values that a step may bring in.
Drawing(P) ==
  /\ Undrawn \in P
  /\ pc = "reset" /\ endpoint.split = "test" =>
       \A q : q = Requests(Len(rows) + 1) =>
         Prices(q) \in P /\ drawn_at(q, "goal") \in P /\ drawn_at(q, "page") \in P

\* The types are kept.
LEMMA ValuesKept ==
  ASSUME NEW R, NEW P, Values(R, P), UNCHANGED <<dir, endpoint, rows, play, rng>>
  PROVE  Values(R, P)'
BY DEF Values

LEMMA ValuesStep ==
  ASSUME NEW R, NEW P, Values(R, P), ThisRow \in R, Drawing(P), [Next]_vars
  PROVE  Values(R, P)'
<1>1. CASE Launch
  <2>1. PICK u \in P : u = Undrawn
    BY DEF Drawing
  <2>2. play' = [turns |-> 0, drawn |-> 0, alive |-> FALSE, prices |-> u, goal |-> u, page |-> u]
    BY <1>1, <2>1, Zenon DEF Launch, NoPlay
  <2>3. UNCHANGED <<dir, endpoint, rng>> /\ rows' \in Seq(R)
    BY <1>1 DEF Launch
  <2> QED
    BY <2>2, <2>3 DEF Values
<1>2. CASE Validate
  BY <1>2, ValidateCases, ValuesKept
<1>3. CASE Health
  BY <1>3, ValuesKept DEF Health
<1>4. CASE Prepare
  <2>1. UNCHANGED <<endpoint, rows, play, rng>>
    BY <1>4, PrepareCases
  <2>2. dir' = dir \/ dir' = [dir EXCEPT !.made = TRUE]
    BY <1>4, PrepareCases
  <2>3. ASSUME dir' = dir
        PROVE  Values(R, P)'
    BY <2>1, <2>3, ValuesKept
  <2>4. ASSUME dir' = [dir EXCEPT !.made = TRUE]
        PROVE  Values(R, P)'
    BY <2>1, <2>4 DEF Values
  <2> QED
    BY <2>2, <2>3, <2>4, Zenon
<1>5. CASE WriteManifest
  BY <1>5 DEF WriteManifest, Values
<1>6. CASE Load
  <2>1. rows' \in {rows, dir.episodes, <<>>}
    BY <1>6 DEF Load, Loaded
  <2>2. rows \in Seq(R) /\ dir.episodes \in Seq(R)
    BY DEF Values
  <2>3. <<>> \in Seq(R)
    OBVIOUS
  <2>4. rows' \in Seq(R)
    BY <2>1, <2>2, <2>3, Zenon
  <2> QED
    BY <1>6, <2>4 DEF Load, Values
<1>7. CASE NextTask
  BY <1>7, EvalRunAssumption DEF NextTask, seed_episode, episode_seed, Values
<1>8. CASE Reset
  <2>1. CASE pc' = "handler" /\ UNCHANGED <<endpoint, play>>
    BY <1>8, <2>1, ResetCases, ValuesKept
  <2>2. CASE /\ endpoint.split = "test" /\ RightSeed /\ pc' = "turn"
             /\ \E q : /\ q = Requests(Len(rows) + 1)
                       /\ endpoint' = [endpoint EXCEPT !.server = TRUE, !.prices = Prices(q)]
                       /\ play' = [turns |-> 0, drawn |-> rng.drawn, alive |-> TRUE,
                                   prices |-> Prices(q), goal |-> drawn_at(q, "goal"),
                                   page |-> drawn_at(q, "page")]
    <3>1. PICK q : /\ q = Requests(Len(rows) + 1)
                   /\ endpoint' = [endpoint EXCEPT !.server = TRUE, !.prices = Prices(q)]
                   /\ play' = [turns |-> 0, drawn |-> rng.drawn, alive |-> TRUE,
                               prices |-> Prices(q), goal |-> drawn_at(q, "goal"),
                               page |-> drawn_at(q, "page")]
      BY <2>2
    <3>2. /\ Prices(q) \in P /\ drawn_at(q, "goal") \in P /\ drawn_at(q, "page") \in P
          /\ UNCHANGED <<dir, rows, rng>>
      BY <1>8, <2>2, <3>1, ResetCases DEF Drawing
    <3>3. PICK p, g, w : p = Prices(q) /\ g = drawn_at(q, "goal") /\ w = drawn_at(q, "page")
      OBVIOUS
    <3> QED
      BY <3>1, <3>2, <3>3 DEF Values
  <2> QED
    BY <1>8, <2>1, <2>2, ResetCases
<1>9. CASE Turn
  <2>1. /\ rng' = [rng EXCEPT !.drawn = rng.drawn + 1]
        /\ play' = [play EXCEPT !.turns = play.turns + 1]
        /\ UNCHANGED <<dir, endpoint, rows>>
    BY <1>9 DEF Turn
  <2>2. /\ play' \in [turns : Nat, drawn : Nat, alive : BOOLEAN, prices : P, goal : P, page : P]
        /\ rng' \in [seed : Nat, drawn : Nat]
    <3>1. /\ play \in [turns : Nat, drawn : Nat, alive : BOOLEAN, prices : P, goal : P, page : P]
          /\ rng \in [seed : Nat, drawn : Nat]
      BY DEF Values
    <3>2. PICK k, m \in Nat : k = play.turns + 1 /\ m = rng.drawn + 1
      BY <3>1
    <3>3. play' \in [turns : Nat, drawn : Nat, alive : BOOLEAN, prices : P, goal : P, page : P]
      BY <2>1, <3>1, <3>2
    <3>4. rng' \in [seed : Nat, drawn : Nat]
      BY <2>1, <3>1, <3>2
    <3> QED
      BY <3>3, <3>4
  <2> QED
    BY <2>1, <2>2 DEF Values
<1>10. CASE AppendRow
  <2>1. dir.episodes \in Seq(R) /\ Append(dir.episodes, ThisRow) \in Seq(R)
    BY DEF Values
  <2>2. dir' = [dir EXCEPT !.episodes = Append(dir.episodes, ThisRow)]
    BY <1>10 DEF AppendRow, Appended
  <2>3. PICK e : e = Append(dir.episodes, ThisRow)
    OBVIOUS
  <2> QED
    BY <1>10, <2>1, <2>2, <2>3 DEF AppendRow, Values
<1>11. CASE KeepRow
  <2>1. rows' \in Seq(R)
    BY <1>11 DEF KeepRow, Values
  <2> QED
    BY <1>11, <2>1 DEF KeepRow, Values
<1>12. CASE SaveSummary
  <2>1. dir' = [dir EXCEPT !.summary = Len(rows), !.complete = (Len(rows) = Tasks)]
    BY <1>12 DEF SaveSummary, Summarised
  <2>2. PICK n \in Nat : n = Len(rows)
    BY DEF Values
  <2>3. UNCHANGED <<endpoint, rows, play, rng>>
    BY <1>12 DEF SaveSummary
  <2>4. ASSUME NEW b \in BOOLEAN, dir' = [dir EXCEPT !.summary = n, !.complete = b]
        PROVE  Values(R, P)'
    BY <2>2, <2>3, <2>4 DEF Values
  <2>5. CASE Len(rows) = Tasks
    <3>1. dir' = [dir EXCEPT !.summary = n, !.complete = TRUE]
      BY <2>1, <2>2, <2>5
    <3> QED
      BY <2>4, <3>1
  <2>6. CASE Len(rows) # Tasks
    <3>1. dir' = [dir EXCEPT !.summary = n, !.complete = FALSE]
      BY <2>1, <2>2, <2>6
    <3> QED
      BY <2>4, <3>1
  <2> QED
    BY <2>5, <2>6
<1>13. CASE Handler
  <2>1. dir' = [dir EXCEPT !.errors = dir.errors + 1] /\ UNCHANGED <<endpoint, rows, play, rng>>
    BY <1>13 DEF Handler
  <2>2. PICK n \in Nat : n = dir.errors + 1
    BY DEF Values
  <2>3. dir' = [dir EXCEPT !.errors = n]
    BY <2>1, <2>2
  <2> QED
    BY <2>1, <2>3 DEF Values
<1>14. CASE Interrupt
  BY <1>14, ValuesKept DEF Interrupt
<1>15. CASE Crash
  BY <1>15, ValuesKept DEF Crash
<1>16. CASE PowerLoss
  BY <1>16 DEF PowerLoss, Values
<1>17. CASE Invalidate
  BY <1>17 DEF Invalidate, Values
<1>18. CASE Redeploy
  BY <1>18 DEF Redeploy, Drawing, Values
<1>19. CASE UNCHANGED vars
  BY <1>19, ValuesKept DEF vars
<1> QED
  BY <1>1, <1>2, <1>3, <1>4, <1>5, <1>6, <1>7, <1>8, <1>9, <1>10, <1>11, <1>12, <1>13,
     <1>14, <1>15, <1>16, <1>17, <1>18, <1>19 DEF Next, Main

LEMMA ControlStep ==
  ASSUME NEW R, NEW P, Values(R, P), Control, [Next]_vars
  PROVE  Control'
<1> USE EvalRunAssumption DEF Control, Places, Guarded, Early
<1>1. CASE Launch
  BY <1>1 DEF Launch, NoPlay, Go
<1>2. CASE Validate
  BY <1>2, ValidateCases
<1>3. CASE Health
  BY <1>3 DEF Health, Go, Refuse
<1>4. CASE Prepare
  BY <1>4, PrepareCases
<1>5. CASE WriteManifest
  BY <1>5 DEF WriteManifest, Go
<1>6. CASE Load
  BY <1>6 DEF Load, Go, Refuse
<1>7. CASE NextTask
  BY <1>7 DEF NextTask, Go
<1>8. CASE Reset
  <2>1. play'.turns \in {0, play.turns} /\ (pc' = "turn" => play'.turns = 0)
    BY <1>8, ResetFrame
  <2> QED
    BY <1>8, <2>1, ResetFrame
<1>9. CASE Turn
  <2>1. play'.turns = play.turns + 1 /\ play.turns < MaxTurns /\ play.turns \in Nat
    BY <1>9 DEF Turn, Values
  <2>2. /\ pc' \in {"handler", "turn", "append"} /\ (pc' = "turn" => play.turns + 1 < MaxTurns)
        /\ UNCHANGED <<resume, refused, launches>>
    BY <1>9 DEF Turn, Go
  <2>3. faults' = faults \/ (faults < MaxFaults /\ faults' = faults + 1)
    BY <1>9 DEF Turn, Fault
  <2>4. faults' \in 0 .. MaxFaults
    BY <2>3
  <2>5. play'.turns \in 0 .. MaxTurns /\ (pc' = "turn" => play'.turns < MaxTurns)
    <3>1. PICK k, m : k = play.turns /\ m = play'.turns
      OBVIOUS
    <3>2. k \in Nat /\ m = k + 1 /\ k < MaxTurns /\ (pc' = "turn" => k + 1 < MaxTurns)
      BY <2>1, <2>2, <3>1
    <3>3. m \in 0 .. MaxTurns /\ (pc' = "turn" => m < MaxTurns)
      BY <3>2
    <3> QED
      BY <3>1, <3>3
  <2>6. pc' \in Places
    BY <2>2
  <2> QED
    BY <2>2, <2>4, <2>5, <2>6
<1>10. CASE AppendRow
  BY <1>10 DEF AppendRow, Go
<1>11. CASE KeepRow
  BY <1>11 DEF KeepRow, Go
<1>12. CASE SaveSummary
  BY <1>12 DEF SaveSummary, Go
<1>13. CASE Handler
  BY <1>13 DEF Handler, Go
<1>14. CASE Interrupt
  BY <1>14 DEF Interrupt, Go, Fault
<1>15. CASE Crash
  BY <1>15 DEF Crash, Go, Fault
<1>16. CASE PowerLoss
  BY <1>16 DEF PowerLoss, Go, Fault
<1>17. CASE Invalidate
  BY <1>17 DEF Invalidate, Fault
<1>18. CASE Redeploy
  <2>1. play'.turns = play.turns
    BY <1>18 DEF Redeploy, Values
  <2>2. faults' \in 0 .. MaxFaults
    BY <1>18 DEF Redeploy, Fault
  <2> QED
    BY <1>18, <2>1, <2>2 DEF Redeploy
<1>19. CASE UNCHANGED vars
  BY <1>19 DEF vars
<1> QED
  BY <1>1, <1>2, <1>3, <1>4, <1>5, <1>6, <1>7, <1>8, <1>9, <1>10, <1>11, <1>12, <1>13,
     <1>14, <1>15, <1>16, <1>17, <1>18, <1>19 DEF Next, Main

----------------------------------------------------------------------------
(* The directory and the rows in memory.                                   *)

\* A process past the checks works in a directory it made or found whole.
Inside == Guarded \cup {"manifest", "load", "finish", "handler", "handled"}

Fresh ==
  /\ dir.manifest => dir.made
  /\ pc \in Inside => dir.made
  /\ ~dir.made => dir.episodes = <<>>
  /\ pc = "manifest" => ~resume
  /\ pc \in {"manifest", "load"} /\ ~resume => dir.episodes = <<>>

\* What is counted is saved.
Backed ==
  /\ Len(dir.episodes) \in 0 .. Tasks /\ Len(rows) \in 0 .. Tasks
  /\ dir.summary <= Len(dir.episodes)
  /\ dir.complete => Len(dir.episodes) = Tasks

\* The rows in memory are the saved ones, but for the one that was just appended.
InMemory ==
  /\ pc \in {"next", "reset", "turn", "append", "summary", "finish"} => rows = dir.episodes
  /\ pc = "keep" => dir.episodes = Append(rows, ThisRow)
  /\ pc \in {"handler", "handled"} => Len(rows) <= Len(dir.episodes)
  /\ pc \in {"reset", "turn", "append", "keep"} => Len(rows) < Tasks

Kept == Control /\ Fresh /\ Backed /\ InMemory

\* Arithmetic of the rows.
LEMMA Lengths ==
  ASSUME NEW R, NEW P, Values(R, P)
  PROVE  /\ Len(rows) \in Nat /\ Len(dir.episodes) \in Nat /\ dir.summary \in Nat
         /\ Len(Append(rows, ThisRow)) = Len(rows) + 1
         /\ Len(Append(dir.episodes, ThisRow)) = Len(dir.episodes) + 1
<1>1. rows \in Seq(R) /\ dir.episodes \in Seq(R) /\ dir.summary \in Nat
  BY DEF Values
<1>2. PICK S, r : S = R \cup {ThisRow} /\ r = ThisRow
  OBVIOUS
<1>3. rows \in Seq(S) /\ dir.episodes \in Seq(S) /\ r \in S
  BY <1>1, <1>2, SeqMonotonic
<1> QED
  BY <1>1, <1>2, <1>3

\* Nothing that the invariant speaks of moves, except to where it asks for less.
LEMMA KeptQuiet ==
  ASSUME Kept, Control', UNCHANGED <<dir, rows, resume>>,
         \/ pc' = pc /\ ThisRow' = ThisRow
         \/ pc' \in {"down", "validate", "health", "prepare"}
         \/ pc \in {"reset", "turn"} /\ pc' \in {"turn", "append"}
         \/ pc \in {"reset", "turn"} /\ pc' = "handler"
  PROVE  Kept'
<1>1. Fresh'
  BY DEF Kept, Fresh, Inside, Guarded
<1>2. Backed'
  BY DEF Kept, Backed
<1>3. ASSUME pc' = pc, ThisRow' = ThisRow PROVE InMemory'
  BY <1>3 DEF Kept, InMemory
<1>4. ASSUME pc' \in {"down", "validate", "health", "prepare"} PROVE InMemory'
  BY <1>4 DEF InMemory
<1>5. ASSUME pc \in {"reset", "turn"}, pc' \in {"turn", "append"} PROVE InMemory'
  BY <1>5 DEF Kept, InMemory
<1>6. ASSUME pc \in {"reset", "turn"}, pc' = "handler" PROVE InMemory'
  <2>1. rows = dir.episodes /\ Len(rows) \in 0 .. Tasks
    BY <1>6 DEF Kept, InMemory, Backed
  <2> QED
    BY <1>6, <2>1 DEF InMemory
<1> QED
  BY <1>1, <1>2, <1>3, <1>4, <1>5, <1>6 DEF Kept

LEMMA KeptStep ==
  ASSUME NEW R, NEW P, Values(R, P), Kept, Control', [Next]_vars
  PROVE  Kept'
<1>0. /\ Fresh /\ Backed /\ InMemory /\ Tasks \in Nat \ {0}
      /\ Len(rows) \in 0 .. Tasks /\ Len(dir.episodes) \in 0 .. Tasks
  BY EvalRunAssumption DEF Kept, Backed
<1>1. CASE Launch
  <2>1. rows' = <<>> /\ Len(<<>>) = 0 /\ pc' = "validate" /\ UNCHANGED dir
    BY <1>1 DEF Launch, Go
  <2>2. Len(rows') = 0
    BY <2>1
  <2>3. Fresh'
    BY <1>0, <2>1 DEF Fresh, Inside, Guarded
  <2>4. Backed'
    BY <1>0, <2>1, <2>2 DEF Backed
  <2> QED
    BY <2>1, <2>3, <2>4 DEF Kept, InMemory
<1>2. CASE Validate
  BY <1>2, KeptQuiet, ValidateCases
<1>3. CASE Health
  BY <1>3, KeptQuiet DEF Health, Go, Refuse
<1>4. CASE Prepare
  <2>1. pc = "prepare" /\ UNCHANGED <<rows, resume>>
    BY <1>4, PrepareCases
  <2>2. ASSUME pc' = "down", dir' = dir PROVE Kept'
    BY <2>1, <2>2, KeptQuiet
  <2>3. ASSUME ~resume, ~dir.made, pc' = "manifest", dir' = [dir EXCEPT !.made = TRUE]
        PROVE  Kept'
    <3>1. /\ dir'.made /\ dir'.manifest = dir.manifest /\ dir'.episodes = dir.episodes
          /\ dir'.summary = dir.summary /\ dir'.complete = dir.complete
      BY <2>3 DEF Values
    <3>2. Fresh'
      BY <1>0, <2>1, <2>3, <3>1 DEF Fresh, Inside, Guarded
    <3>3. Backed'
      BY <1>0, <2>1, <3>1 DEF Backed
    <3> QED
      BY <2>3, <3>2, <3>3 DEF Kept, InMemory
  <2>4. ASSUME resume, dir.manifest, pc' = "load", dir' = dir PROVE Kept'
    <3>1. Fresh'
      BY <1>0, <2>1, <2>4 DEF Fresh, Inside, Guarded
    <3>2. Backed'
      BY <1>0, <2>1, <2>4 DEF Backed
    <3> QED
      BY <2>4, <3>1, <3>2 DEF Kept, InMemory
  <2> QED
    BY <1>4, <2>2, <2>3, <2>4, PrepareCases
<1>5. CASE WriteManifest
  <2>1. /\ dir'.made = dir.made /\ dir'.manifest /\ dir'.episodes = dir.episodes
        /\ dir'.summary = dir.summary /\ dir'.complete = dir.complete
        /\ pc = "manifest" /\ pc' = "load" /\ UNCHANGED <<rows, resume>>
    BY <1>5 DEF WriteManifest, Go, Values
  <2>2. Fresh'
    BY <1>0, <2>1 DEF Fresh, Inside, Guarded
  <2>3. Backed'
    BY <1>0, <2>1 DEF Backed
  <2> QED
    BY <2>1, <2>2, <2>3 DEF Kept, InMemory
<1>6. CASE Load
  <2>1. pc = "load" /\ UNCHANGED <<dir, resume>>
    BY <1>6 DEF Load
  <2>2. ASSUME pc' = "down", rows' = rows PROVE Kept'
    BY <2>1, <2>2, KeptQuiet
  <2>3. ASSUME pc' = "next", rows' = IF resume THEN dir.episodes ELSE <<>> PROVE Kept'
    <3>1. rows' = dir.episodes
      BY <1>0, <2>1, <2>3 DEF Fresh
    <3>2. Fresh'
      BY <1>0, <2>1, <2>3 DEF Fresh, Inside, Guarded
    <3>3. Backed'
      BY <1>0, <2>1, <3>1 DEF Backed
    <3> QED
      BY <2>1, <2>3, <3>1, <3>2, <3>3 DEF Kept, InMemory
  <2> QED
    BY <1>6, <2>2, <2>3 DEF Load, Go, Refuse, Loaded
<1>7. CASE NextTask
  <2>1. /\ pc = "next" /\ pc' \in {"finish", "reset"} /\ (pc' = "reset" => Len(rows) # Tasks)
        /\ UNCHANGED <<dir, rows, resume>>
    BY <1>7 DEF NextTask, Exhausted, Go
  <2>2. Fresh'
    BY <1>0, <2>1 DEF Fresh, Inside, Guarded
  <2>3. Backed'
    BY <1>0, <2>1 DEF Backed
  <2>4. InMemory'
    BY <1>0, <2>1 DEF InMemory
  <2> QED
    BY <2>2, <2>3, <2>4 DEF Kept
<1>8. CASE Reset
  BY <1>8, KeptQuiet, ResetFrame
<1>9. CASE Turn
  BY <1>9, KeptQuiet DEF Turn, Go
<1>10. CASE AppendRow
  <2>1. /\ pc = "append" /\ pc' = "keep" /\ UNCHANGED <<rows, resume, play, rng>>
        /\ dir' = [dir EXCEPT !.episodes = Append(dir.episodes, ThisRow)]
    BY <1>10 DEF AppendRow, Appended, Go
  <2>2. /\ dir'.made = dir.made /\ dir'.manifest = dir.manifest
        /\ dir'.episodes = Append(dir.episodes, ThisRow)
        /\ dir'.summary = dir.summary /\ dir'.complete = dir.complete
    BY <2>1 DEF Values
  <2>3. rows = dir.episodes /\ Len(rows) < Tasks /\ Len(dir'.episodes) = Len(dir.episodes) + 1
    BY <1>0, <2>1, <2>2, Lengths DEF InMemory
  <2>4. Fresh'
    BY <1>0, <2>1, <2>2 DEF Fresh, Inside, Guarded
  <2>5. Backed'
    BY <1>0, <2>1, <2>2, <2>3, Lengths DEF Backed
  <2>6. ThisRow' = ThisRow
    BY <2>1 DEF ThisRow
  <2>7. InMemory'
    BY <1>0, <2>1, <2>2, <2>3, <2>6 DEF InMemory
  <2> QED
    BY <2>4, <2>5, <2>7 DEF Kept
<1>11. CASE KeepRow
  <2>1. /\ pc = "keep" /\ pc' = "summary" /\ UNCHANGED <<dir, resume>>
        /\ rows' = Append(rows, ThisRow)
    BY <1>11 DEF KeepRow, Go
  <2>2. rows' = dir.episodes
    BY <1>0, <2>1 DEF InMemory
  <2>3. Fresh'
    BY <1>0, <2>1 DEF Fresh, Inside, Guarded
  <2>4. Backed'
    BY <1>0, <2>1, <2>2 DEF Backed
  <2>5. InMemory'
    BY <2>1, <2>2 DEF InMemory
  <2> QED
    BY <2>3, <2>4, <2>5 DEF Kept
<1>12. CASE SaveSummary
  <2>1. /\ pc \in {"summary", "finish", "handled"} /\ pc' \in {"next", "down"}
        /\ (pc' = "next" => pc = "summary") /\ UNCHANGED <<rows, resume>>
        /\ dir' = [dir EXCEPT !.summary = Len(rows), !.complete = (Len(rows) = Tasks)]
    BY <1>12 DEF SaveSummary, Summarised, Go
  <2>2. /\ dir'.made = dir.made /\ dir'.manifest = dir.manifest /\ dir'.episodes = dir.episodes
        /\ dir'.summary = Len(rows) /\ dir'.complete = (Len(rows) = Tasks)
    BY <2>1 DEF Values
  <2>3. Len(rows) <= Len(dir.episodes)
    BY <1>0, <2>1 DEF InMemory
  <2>4. Fresh'
    BY <1>0, <2>1, <2>2 DEF Fresh, Inside, Guarded
  <2>5. Backed'
    <3>1. PICK m, n : m = Len(dir.episodes) /\ n = Len(rows)
      OBVIOUS
    <3>2. m \in 0 .. Tasks /\ n \in 0 .. Tasks /\ n <= m /\ (n = Tasks => m = Tasks)
      BY <1>0, <2>3, <3>1
    <3> QED
      BY <2>1, <2>2, <3>1, <3>2, Zenon DEF Backed
  <2>6. InMemory'
    BY <1>0, <2>1, <2>2 DEF InMemory
  <2> QED
    BY <2>4, <2>5, <2>6 DEF Kept
<1>13. CASE Handler
  <2>1. /\ dir'.made = dir.made /\ dir'.manifest = dir.manifest /\ dir'.episodes = dir.episodes
        /\ dir'.summary = dir.summary /\ dir'.complete = dir.complete
        /\ pc = "handler" /\ pc' = "handled" /\ UNCHANGED <<rows, resume>>
    BY <1>13 DEF Handler, Go, Values
  <2>2. Fresh'
    BY <1>0, <2>1 DEF Fresh, Inside, Guarded
  <2>3. Backed'
    BY <1>0, <2>1 DEF Backed
  <2>4. InMemory'
    BY <1>0, <2>1 DEF InMemory
  <2> QED
    BY <2>2, <2>3, <2>4 DEF Kept
<1>14. CASE Interrupt
  <2>1. UNCHANGED <<dir, rows, resume>> /\ (pc' = "down" \/ (pc \in Guarded /\ pc' = "handler"))
    BY <1>14 DEF Interrupt, Go
  <2>2. ASSUME pc \in Guarded, pc' = "handler" PROVE Kept'
    <3>1. Len(rows) <= Len(dir.episodes)
      <4>1. CASE pc = "keep"
        BY <1>0, <4>1, Lengths DEF InMemory
      <4>2. CASE pc # "keep"
        BY <1>0, <2>2, <4>2 DEF InMemory, Guarded
      <4> QED
        BY <4>1, <4>2
    <3>2. Fresh'
      BY <1>0, <2>1, <2>2 DEF Fresh, Inside
    <3>3. Backed'
      BY <1>0, <2>1 DEF Backed
    <3>4. InMemory'
      BY <2>1, <2>2, <3>1 DEF InMemory
    <3> QED
      BY <3>2, <3>3, <3>4 DEF Kept
  <2> QED
    BY <2>1, <2>2, KeptQuiet
<1>15. CASE Crash
  BY <1>15, KeptQuiet DEF Crash, Go
<1>16. CASE PowerLoss
  <2>1. /\ dir'.made = dir.made /\ dir'.manifest = dir.manifest /\ dir'.episodes = dir.episodes
        /\ dir'.summary = dir.summary /\ dir'.complete = dir.complete
        /\ pc' = "down" /\ UNCHANGED <<rows, resume>>
    BY <1>16 DEF PowerLoss, Go, Values
  <2>2. Fresh'
    BY <1>0, <2>1 DEF Fresh, Inside, Guarded
  <2>3. Backed'
    BY <1>0, <2>1 DEF Backed
  <2> QED
    BY <2>1, <2>2, <2>3 DEF Kept, InMemory
<1>17. CASE Invalidate
  <2>1. /\ dir'.made = dir.made /\ dir'.manifest = dir.manifest /\ dir'.episodes = dir.episodes
        /\ dir'.summary = dir.summary /\ dir'.complete = dir.complete
        /\ UNCHANGED <<pc, rows, resume, play, rng>>
    BY <1>17 DEF Invalidate, Values
  <2>2. Fresh'
    BY <1>0, <2>1 DEF Fresh
  <2>3. Backed'
    BY <1>0, <2>1 DEF Backed
  <2>4. ThisRow' = ThisRow
    BY <2>1 DEF ThisRow
  <2>5. InMemory'
    BY <1>0, <2>1, <2>4 DEF InMemory
  <2> QED
    BY <2>2, <2>3, <2>5 DEF Kept
<1>18. CASE Redeploy
  <2>1. /\ play' = [play EXCEPT !.alive = FALSE]
        /\ UNCHANGED <<dir, pc, resume, rows, rng>>
    BY <1>18 DEF Redeploy
  <2>2. /\ play'.drawn = play.drawn /\ play'.prices = play.prices /\ play'.goal = play.goal
        /\ play'.page = play.page
    BY <2>1 DEF Values
  <2>3. ThisRow' = ThisRow
    BY <2>1, <2>2 DEF ThisRow
  <2> QED
    BY <2>1, <2>3, KeptQuiet
<1>19. CASE UNCHANGED vars
  <2>1. ThisRow' = ThisRow
    BY <1>19 DEF vars, ThisRow
  <2> QED
    BY <1>19, <2>1, KeptQuiet DEF vars
<1> QED
  BY <1>1, <1>2, <1>3, <1>4, <1>5, <1>6, <1>7, <1>8, <1>9, <1>10, <1>11, <1>12, <1>13,
     <1>14, <1>15, <1>16, <1>17, <1>18, <1>19 DEF Next, Main

----------------------------------------------------------------------------
(* SummaryIsBacked.                                                        *)

LEMMA InitKept ==
  ASSUME Init
  PROVE  (\E R, P : Values(R, P)) /\ Kept
<1>1. \E R, P : Values(R, P)
  <2>1. PICK R, P : R = {} /\ P = {Undrawn}
    OBVIOUS
  <2>2. <<>> \in Seq(R) /\ Undrawn \in P
    BY <2>1
  <2>3. PICK e, u : e = <<>> /\ u = Undrawn
    OBVIOUS
  <2>4. /\ dir = [made |-> FALSE, manifest |-> FALSE, episodes |-> e, torn |-> FALSE,
                  errors |-> 0, tornErrors |-> FALSE, marker |-> FALSE,
                  summary |-> 0, complete |-> FALSE]
        /\ endpoint \in [split : {"test"}, seed : Seeds, server : {FALSE}, prices : {u}]
        /\ rows = e /\ rng = [seed |-> 0, drawn |-> 0]
        /\ play = [turns |-> 0, drawn |-> 0, alive |-> FALSE,
                   prices |-> u, goal |-> u, page |-> u]
    BY <2>3, Zenon DEF Init, NoPlay
  <2>5. Values(R, P)
    BY <2>2, <2>3, <2>4 DEF Values
  <2> QED
    BY <2>5
<1>2. PICK e : e = <<>>
  OBVIOUS
<1>3. dir.episodes = e /\ rows = e /\ dir.summary = 0 /\ ~dir.complete /\ ~dir.manifest
  BY <1>2 DEF Init
<1>4. Len(e) = 0
  BY <1>2
<1>5. /\ pc = "down" /\ resume = FALSE /\ refused = "none"
      /\ faults = 0 /\ launches = 0 /\ play.turns = 0
  BY DEF Init, NoPlay
<1>6. Control
  <2>1. pc \in Places
    BY <1>5 DEF Places
  <2>2. 0 \in 0 .. MaxFaults /\ 0 \in 0 .. MaxLaunches /\ 0 \in 0 .. MaxTurns
    BY EvalRunAssumption
  <2>3. pc # "turn" /\ resume \in BOOLEAN
    BY <1>5
  <2> QED
    BY <1>5, <2>1, <2>2, <2>3, Zenon DEF Control
<1>7. Fresh
  BY <1>2, <1>3, <1>5 DEF Fresh, Inside, Guarded
<1>8. Backed
  <2>1. 0 \in 0 .. Tasks /\ 0 <= 0
    BY EvalRunAssumption
  <2> QED
    BY <1>3, <1>4, <2>1, Zenon DEF Backed
<1>9. InMemory
  BY <1>5 DEF InMemory
<1> QED
  BY <1>1, <1>6, <1>7, <1>8, <1>9 DEF Kept

\* More values, more rows.
LEMMA Wider ==
  ASSUME NEW R, NEW P, Values(R, P), NEW S, R \subseteq S, NEW Q, P \subseteq Q
  PROVE  Values(S, Q)
<1>1. rows \in Seq(R) /\ dir.episodes \in Seq(R)
  BY DEF Values
<1>2. rows \in Seq(S) /\ dir.episodes \in Seq(S)
  BY <1>1, SeqMonotonic
<1>3. dir \in [made : BOOLEAN, manifest : BOOLEAN, episodes : Seq(S), torn : BOOLEAN,
              errors : Nat, tornErrors : BOOLEAN, marker : BOOLEAN,
              summary : Nat, complete : BOOLEAN]
  BY <1>2 DEF Values
<1>4. endpoint \in [split : {"test", "train"}, seed : Seeds, server : BOOLEAN, prices : Q]
  BY DEF Values
<1>5. play \in [turns : Nat, drawn : Nat, alive : BOOLEAN, prices : Q, goal : Q, page : Q]
  BY DEF Values
<1> QED
  BY <1>2, <1>3, <1>4, <1>5 DEF Values

\* Whatever a step draws, it draws something.
LEMMA StepKept ==
  ASSUME \E R, P : Values(R, P), Kept, [Next]_vars
  PROVE  (\E R, P : Values(R, P))' /\ Kept'
<1>1. PICK R, P : Values(R, P)
  OBVIOUS
<1>2. PICK q : q = Requests(Len(rows) + 1)
  OBVIOUS
<1>3. PICK S, Q : /\ S = R \cup {ThisRow}
                  /\ Q = P \cup {Undrawn, Prices(q), drawn_at(q, "goal"), drawn_at(q, "page")}
  OBVIOUS
<1>4. Values(S, Q)
  BY <1>1, <1>3, Wider
<1>5. Drawing(Q)
  BY <1>2, <1>3, Zenon DEF Drawing
<1>6. ThisRow \in S
  BY <1>3
<1>7. Values(S, Q)'
  BY <1>4, <1>5, <1>6, ValuesStep
<1>8. (\E R_1, P_1 : Values(R_1, P_1))'
  BY <1>7
<1>9. Control'
  BY <1>1, ControlStep DEF Kept
<1> QED
  BY <1>1, <1>8, <1>9, KeptStep

\* Whatever the environment draws, and however the evaluation ends: summary.json counts
\* no row that episodes.jsonl does not hold, and says complete only when the whole
\* manifest is there (save_summary, append_metrics).  No row is ever lost between the
\* file and the rows in memory that are summarised.
THEOREM SummariesAreBacked == Spec => []SummaryIsBacked
<1> DEFINE IInv == (\E R, P : Values(R, P)) /\ Kept
<1>1. Init => IInv
  BY InitKept
<1>2. IInv /\ [Next]_vars => IInv'
  BY StepKept
<1>3. IInv => SummaryIsBacked
  BY DEF Kept, Backed, SummaryIsBacked
<1> QED
  BY <1>1, <1>2, <1>3, PTL DEF Spec

----------------------------------------------------------------------------
(* EpisodesAreReplayable.                                                  *)

\* The first number of a stream of the service.
First(scope, task) ==
  [stream |-> [scope |-> scope, seed |-> BaseSeed, task |-> task], position |-> 0]

\* A saved row, the i-th.
Replayed(row, i) ==
  /\ row.index = i - 1
  /\ row.stream = episode_seed(i - 1) /\ row.drawn = 0
  /\ row.seed = row.stream
  /\ Formal => /\ row.prices = First("runtime", Runtime)
               /\ row.goal = First("goal", i) /\ row.page = First("session", i)

Played == {"turn", "append", "keep"}

AllReplayed == \A i \in DOMAIN dir.episodes : Replayed(dir.episodes[i], i)

\* The policy's stream is the one of the task that is played, from its beginning.
PolicyStream ==
  /\ pc \in Played \cup {"reset"} => rng.seed = episode_seed(Len(rows))
  /\ pc = "reset" => rng.drawn = 0
  /\ pc \in Played => play.drawn = 0

\* And the service's.
ServiceStreams ==
  Formal /\ pc \in Played => /\ play.prices = First("runtime", Runtime)
                            /\ play.goal = First("goal", Len(rows) + 1)
                            /\ play.page = First("session", Len(rows) + 1)

\* A service that has built its server was asked by an evaluation that had found its
\* split and seed right.
Served ==
  Formal /\ endpoint.server => /\ endpoint.split = "test" /\ endpoint.seed = BaseSeed
                               /\ endpoint.prices = First("runtime", Runtime)

FromTheStart == AllReplayed /\ PolicyStream /\ ServiceStreams /\ Served

\* What a formal evaluation draws, if the environment's constructor draws nothing.
LEMMA Draws ==
  ASSUME ~EnvironmentDraws, Values(Row, Drawn), Kept, FromTheStart,
         pc = "reset", endpoint.split = "test",
         NEW q, q = Requests(Len(rows) + 1)
  PROVE  /\ Prices(q) \in Drawn /\ drawn_at(q, "goal") \in Drawn /\ drawn_at(q, "page") \in Drawn
         /\ Formal /\ RightSeed => /\ Prices(q) = First("runtime", Runtime)
                                   /\ drawn_at(q, "goal") = First("goal", Len(rows) + 1)
                                   /\ drawn_at(q, "page") = First("session", Len(rows) + 1)
<1>1. PICK task : task = Len(rows) + 1
  OBVIOUS
<1>2. task \in 0 .. Tasks /\ Runtime \in 0 .. Tasks
  BY <1>1, EvalRunAssumption DEF Kept, Backed, InMemory, Runtime
<1>3. endpoint.seed \in Seeds /\ endpoint.prices \in Drawn
  BY DEF Values
<1>4. Formal /\ RightSeed => endpoint.seed = BaseSeed
  BY DEF RightSeed, rng_contract
<1>5. \A scope \in {"runtime", "goal", "session"}, t \in 0 .. Tasks :
        /\ [stream |-> local_rng(scope, t), position |-> 0] \in Drawn
        /\ Formal /\ RightSeed =>
             [stream |-> local_rng(scope, t), position |-> 0] = First(scope, t)
  BY <1>3, <1>4 DEF local_rng, Drawn, Stream, First
<1>6. /\ drawn_at(q, "goal") = [stream |-> local_rng("goal", task), position |-> 0]
      /\ drawn_at(q, "page") = [stream |-> local_rng("session", task), position |-> 0]
      /\ ~endpoint.server =>
           drawn_at(q, "prices") = [stream |-> local_rng("runtime", Runtime), position |-> 0]
  <2>1. CASE endpoint.server
    BY <1>1, <1>2, <1>3, <2>1, WarmDraws, Zenon
  <2>2. CASE ~endpoint.server
    BY <1>1, <1>2, <1>3, <2>2, ColdDraws, Zenon
  <2> QED
    BY <2>1, <2>2
<1>7. Formal /\ endpoint.server => endpoint.prices = First("runtime", Runtime)
  BY DEF FromTheStart, Served
<1>8. Prices(q) = IF endpoint.server THEN endpoint.prices ELSE drawn_at(q, "prices")
  BY Zenon DEF Prices
<1>9. CASE endpoint.server
  BY <1>1, <1>2, <1>3, <1>5, <1>6, <1>7, <1>8, <1>9, Zenon
<1>10. CASE ~endpoint.server
  BY <1>1, <1>2, <1>5, <1>6, <1>8, <1>10, Zenon
<1> QED
  BY <1>9, <1>10

\* An episode is not moved on, and no row is saved.
LEMMA StartQuiet ==
  ASSUME FromTheStart, dir'.episodes = dir.episodes,
         endpoint' = endpoint \/ ~endpoint'.server,
         \/ pc' \notin Played \cup {"reset"}
         \/ /\ rows' = rows /\ rng'.seed = rng.seed
            /\ pc' = "reset" => pc = "reset" /\ rng'.drawn = rng.drawn
            /\ pc' \in Played =>
                 /\ pc \in Played /\ play'.drawn = play.drawn
                 /\ play'.prices = play.prices /\ play'.goal = play.goal /\ play'.page = play.page
  PROVE  FromTheStart'
<1>1. AllReplayed'
  BY DEF FromTheStart, AllReplayed, Replayed
<1>2. PolicyStream'
  BY DEF FromTheStart, PolicyStream
<1>3. ServiceStreams'
  BY DEF FromTheStart, ServiceStreams
<1>4. Served'
  BY DEF FromTheStart, Served
<1> QED
  BY <1>1, <1>2, <1>3, <1>4 DEF FromTheStart

\* The row that is saved.
LEMMA RowReplayed ==
  ASSUME FromTheStart, pc \in Played, NEW i, i = Len(rows) + 1, Len(rows) \in Nat
  PROVE  Replayed(ThisRow, i)
<1>1. PICK n : n = Len(rows)
  OBVIOUS
<1>2. i = n + 1 /\ n = i - 1 /\ n \in Nat
  BY <1>1
<1>3. /\ ThisRow.index = n /\ ThisRow.seed = episode_seed(n) /\ ThisRow.stream = rng.seed
      /\ ThisRow.drawn = play.drawn /\ ThisRow.prices = play.prices
      /\ ThisRow.goal = play.goal /\ ThisRow.page = play.page
  BY <1>1 DEF ThisRow
<1>4. /\ rng.seed = episode_seed(n) /\ play.drawn = 0
      /\ Formal => /\ play.prices = First("runtime", Runtime)
                   /\ play.goal = First("goal", i) /\ play.page = First("session", i)
  BY <1>1 DEF FromTheStart, PolicyStream, ServiceStreams
<1> QED
  BY <1>2, <1>3, <1>4, Zenon DEF Replayed

\* Every step leaves every saved row, and the episode that is played, on its streams.
LEMMA StartStep ==
  ASSUME ~EnvironmentDraws, Values(Row, Drawn), Kept, FromTheStart, [Next]_vars
  PROVE  FromTheStart'
<1> USE DEF Played
<1>1. CASE Launch
  BY <1>1, StartQuiet DEF Launch, Go
<1>2. CASE Validate
  BY <1>2, StartQuiet, ValidateCases
<1>3. CASE Health
  BY <1>3, StartQuiet DEF Health, Go, Refuse
<1>4. CASE Prepare
  <2>1. dir'.episodes = dir.episodes
    BY <1>4, PrepareCases DEF Values
  <2> QED
    BY <1>4, <2>1, StartQuiet, PrepareCases
<1>5. CASE WriteManifest
  <2>1. dir'.episodes = dir.episodes
    BY <1>5 DEF WriteManifest, Values
  <2> QED
    BY <1>5, <2>1, StartQuiet DEF WriteManifest, Go
<1>6. CASE Load
  BY <1>6, StartQuiet DEF Load, Go, Refuse
<1>7. CASE NextTask
  <2>1. CASE Exhausted
    BY <1>7, <2>1, StartQuiet DEF NextTask, Go
  <2>2. CASE ~Exhausted
    <3>1. /\ pc' = "reset" /\ rng' = seed_episode
          /\ UNCHANGED <<dir, endpoint, rows, play>>
      BY <1>7, <2>2, Zenon DEF NextTask, Go
    <3>2. rng'.seed = episode_seed(Len(rows)) /\ rng'.drawn = 0
      BY <3>1 DEF seed_episode
    <3>3. AllReplayed'
      BY <3>1 DEF FromTheStart, AllReplayed, Replayed
    <3>4. PolicyStream'
      BY <3>1, <3>2 DEF PolicyStream, episode_seed
    <3>5. ServiceStreams'
      BY <3>1 DEF ServiceStreams
    <3>6. Served'
      BY <3>1 DEF FromTheStart, Served
    <3> QED
      BY <3>3, <3>4, <3>5, <3>6 DEF FromTheStart
  <2> QED
    BY <2>1, <2>2
<1>8. CASE Reset
  <2>1. pc = "reset" /\ UNCHANGED <<dir, rows, rng>>
    BY <1>8, ResetFrame
  <2>2. CASE pc' = "handler" /\ UNCHANGED <<endpoint, play>>
    BY <2>1, <2>2, StartQuiet
  <2>3. CASE /\ endpoint.split = "test" /\ RightSeed /\ pc' = "turn"
             /\ \E q : /\ q = Requests(Len(rows) + 1)
                       /\ endpoint' = [endpoint EXCEPT !.server = TRUE, !.prices = Prices(q)]
                       /\ play' = [turns |-> 0, drawn |-> rng.drawn, alive |-> TRUE,
                                   prices |-> Prices(q), goal |-> drawn_at(q, "goal"),
                                   page |-> drawn_at(q, "page")]
    <3>1. PICK q : /\ q = Requests(Len(rows) + 1)
                   /\ endpoint' = [endpoint EXCEPT !.server = TRUE, !.prices = Prices(q)]
                   /\ play' = [turns |-> 0, drawn |-> rng.drawn, alive |-> TRUE,
                               prices |-> Prices(q), goal |-> drawn_at(q, "goal"),
                               page |-> drawn_at(q, "page")]
      BY <2>3
    <3>2. Formal => /\ Prices(q) = First("runtime", Runtime)
                    /\ drawn_at(q, "goal") = First("goal", Len(rows) + 1)
                    /\ drawn_at(q, "page") = First("session", Len(rows) + 1)
      BY <2>1, <2>3, <3>1, Draws
    <3>3. PICK p, g, w : p = Prices(q) /\ g = drawn_at(q, "goal") /\ w = drawn_at(q, "page")
      OBVIOUS
    <3>4. /\ play'.drawn = rng.drawn /\ play'.prices = p /\ play'.goal = g /\ play'.page = w
      BY <3>1, <3>3
    <3>5. endpoint'.split = endpoint.split /\ endpoint'.seed = endpoint.seed /\ endpoint'.prices = p
      BY <3>1, <3>3 DEF Values
    <3>6. AllReplayed'
      BY <2>1 DEF FromTheStart, AllReplayed, Replayed
    <3>7. PolicyStream'
      BY <2>1, <2>3, <3>4 DEF FromTheStart, PolicyStream
    <3>8. ServiceStreams'
      BY <2>1, <2>3, <3>2, <3>3, <3>4 DEF ServiceStreams, First
    <3>9. Served'
      <4>1. Formal => endpoint.seed = BaseSeed
        BY <2>3 DEF RightSeed, rng_contract
      <4> QED
        BY <2>3, <3>2, <3>3, <3>5, <4>1 DEF Served, First
    <3> QED
      BY <3>6, <3>7, <3>8, <3>9 DEF FromTheStart
  <2> QED
    BY <1>8, <2>2, <2>3, ResetCases
<1>9. CASE Turn
  <2>1. /\ rng'.seed = rng.seed /\ play'.drawn = play.drawn /\ play'.prices = play.prices
        /\ play'.goal = play.goal /\ play'.page = play.page
    BY <1>9 DEF Turn, Values
  <2> QED
    BY <1>9, <2>1, StartQuiet DEF Turn, Go
<1>10. CASE AppendRow
  <2>1. /\ pc = "append" /\ pc' = "keep" /\ UNCHANGED <<endpoint, rows, play, rng>>
        /\ dir' = [dir EXCEPT !.episodes = Append(dir.episodes, ThisRow)]
    BY <1>10 DEF AppendRow, Appended, Go
  <2>2. PICK e, r : e = dir.episodes /\ r = ThisRow
    OBVIOUS
  <2>3. dir'.episodes = Append(e, r)
    BY <2>1, <2>2 DEF Values
  <2>4. e = rows /\ e \in Seq(Row)
    BY <2>1, <2>2 DEF Kept, InMemory, Values
  <2>5. PICK n : n = Len(e) /\ n \in Nat
    BY <2>4
  <2>6. PICK i : i = n + 1
    OBVIOUS
  <2>7. Replayed(r, i)
    BY <2>1, <2>2, <2>4, <2>5, <2>6, RowReplayed
  <2>8. PICK S : S = Row \cup {r}
    OBVIOUS
  <2>9. e \in Seq(S) /\ r \in S
    BY <2>4, <2>8, SeqMonotonic
  <2>10. /\ DOMAIN Append(e, r) = 1 .. n + 1 /\ DOMAIN e = 1 .. n
         /\ Append(e, r)[n + 1] = r /\ \A k \in 1 .. n : Append(e, r)[k] = e[k]
    BY <2>5, <2>9
  <2>11. \A k \in DOMAIN Append(e, r) : Replayed(Append(e, r)[k], k)
    <3> TAKE k \in DOMAIN Append(e, r)
    <3>1. CASE k = i
      BY <2>6, <2>7, <2>10, <3>1
    <3>2. CASE k # i
      <4>1. k \in 1 .. n
        BY <2>5, <2>6, <2>10, <3>2
      <4>2. Replayed(e[k], k)
        BY <2>2, <2>10, <4>1 DEF FromTheStart, AllReplayed
      <4>3. Append(e, r)[k] = e[k]
        BY <2>10, <4>1
      <4> QED
        BY <4>2, <4>3, Zenon
    <3> QED
      BY <3>1, <3>2
  <2>12. AllReplayed'
    <3>1. PICK f : f = Append(e, r)
      OBVIOUS
    <3> QED
      BY <2>3, <2>11, <3>1 DEF AllReplayed, Replayed
  <2>13. PolicyStream' /\ ServiceStreams' /\ Served'
    BY <2>1 DEF FromTheStart, PolicyStream, ServiceStreams, Served
  <2> QED
    BY <2>12, <2>13 DEF FromTheStart
<1>11. CASE KeepRow
  BY <1>11, StartQuiet DEF KeepRow, Go
<1>12. CASE SaveSummary
  <2>1. /\ dir' = [dir EXCEPT !.summary = Len(rows), !.complete = (Len(rows) = Tasks)]
        /\ pc' \in {"next", "down"} /\ UNCHANGED endpoint
    BY <1>12 DEF SaveSummary, Summarised, Go
  <2>2. dir'.episodes = dir.episodes
    BY <2>1 DEF Values
  <2> QED
    BY <2>1, <2>2, StartQuiet
<1>13. CASE Handler
  <2>1. dir'.episodes = dir.episodes
    BY <1>13 DEF Handler, Values
  <2> QED
    BY <1>13, <2>1, StartQuiet DEF Handler, Go
<1>14. CASE Interrupt
  <2>1. pc' \in {"handler", "down"} /\ UNCHANGED <<dir, endpoint>>
    BY <1>14 DEF Interrupt, Go
  <2> QED
    BY <2>1, StartQuiet
<1>15. CASE Crash
  BY <1>15, StartQuiet DEF Crash, Go
<1>16. CASE PowerLoss
  <2>1. dir'.episodes = dir.episodes
    BY <1>16 DEF PowerLoss, Values
  <2> QED
    BY <1>16, <2>1, StartQuiet DEF PowerLoss, Go
<1>17. CASE Invalidate
  <2>1. dir'.episodes = dir.episodes
    BY <1>17 DEF Invalidate, Values
  <2> QED
    BY <1>17, <2>1, StartQuiet DEF Invalidate
<1>18. CASE Redeploy
  <2>1. /\ play'.drawn = play.drawn /\ play'.prices = play.prices
        /\ play'.goal = play.goal /\ play'.page = play.page
    BY <1>18 DEF Redeploy, Values
  <2>2. ~endpoint'.server
    BY <1>18 DEF Redeploy
  <2> QED
    BY <1>18, <2>1, <2>2, StartQuiet DEF Redeploy
<1>19. CASE UNCHANGED vars
  BY <1>19, StartQuiet DEF vars
<1> QED
  BY <1>1, <1>2, <1>3, <1>4, <1>5, <1>6, <1>7, <1>8, <1>9, <1>10, <1>11, <1>12, <1>13,
     <1>14, <1>15, <1>16, <1>17, <1>18, <1>19 DEF Next, Main

\* In a formal evaluation the values are what their types say.
LEMMA StartDrawing ==
  ASSUME ~EnvironmentDraws, Values(Row, Drawn), Kept, FromTheStart
  PROVE  Drawing(Drawn) /\ (ThisRow \in Row)
<1>1. Undrawn \in Drawn
  BY EvalRunAssumption DEF Undrawn, Drawn, Stream, Runtime
<1>2. Drawing(Drawn)
  <2> SUFFICES ASSUME pc = "reset", endpoint.split = "test",
                      NEW q, q = Requests(Len(rows) + 1)
               PROVE  Prices(q) \in Drawn /\ drawn_at(q, "goal") \in Drawn /\ drawn_at(q, "page") \in Drawn
    BY <1>1 DEF Drawing
  <2> QED
    BY Draws
<1>3. ThisRow \in Row
  <2>1. Len(rows) \in Nat /\ episode_seed(Len(rows)) \in Nat
    BY Lengths, EvalRunAssumption DEF episode_seed
  <2>2. PICK n, s : n = Len(rows) /\ s = episode_seed(Len(rows))
    OBVIOUS
  <2> QED
    BY <2>1, <2>2 DEF ThisRow, Row, Values
<1> QED
  BY <1>2, <1>3

LEMMA InitStart ==
  ASSUME Init
  PROVE  Values(Row, Drawn) /\ FromTheStart
<1>1. Undrawn \in Drawn
  BY EvalRunAssumption DEF Undrawn, Drawn, Stream, Runtime
<1>2. PICK e, u : e = <<>> /\ u = Undrawn
  OBVIOUS
<1>3. /\ dir = [made |-> FALSE, manifest |-> FALSE, episodes |-> e, torn |-> FALSE,
                errors |-> 0, tornErrors |-> FALSE, marker |-> FALSE,
                summary |-> 0, complete |-> FALSE]
      /\ endpoint \in [split : {"test"}, seed : Seeds, server : {FALSE}, prices : {u}]
      /\ rows = e /\ rng = [seed |-> 0, drawn |-> 0] /\ pc = "down"
      /\ play = [turns |-> 0, drawn |-> 0, alive |-> FALSE,
                 prices |-> u, goal |-> u, page |-> u]
  BY <1>2, Zenon DEF Init, NoPlay
<1>4. e \in Seq(Row) /\ u \in Drawn /\ DOMAIN e = {}
  BY <1>1, <1>2
<1>5. Values(Row, Drawn)
  BY <1>3, <1>4 DEF Values
<1>6. AllReplayed
  BY <1>3, <1>4 DEF AllReplayed
<1>7. PolicyStream /\ ServiceStreams /\ Served
  BY <1>3 DEF PolicyStream, ServiceStreams, Served, Played
<1> QED
  BY <1>5, <1>6, <1>7 DEF FromTheStart

\* The inductive invariant, where the constructor of an environment draws nothing.
IInv == Values(Row, Drawn) /\ Kept /\ FromTheStart

LEMMA IInvariant == ~EnvironmentDraws => (Spec => []IInv)
<1> SUFFICES ASSUME ~EnvironmentDraws PROVE Spec => []IInv
  OBVIOUS
<1>1. Init => IInv
  BY InitKept, InitStart DEF IInv
<1>2. IInv /\ [Next]_vars => IInv'
  <2> SUFFICES ASSUME IInv, [Next]_vars PROVE IInv'
    OBVIOUS
  <2>1. Values(Row, Drawn) /\ Kept /\ FromTheStart
    BY DEF IInv
  <2>2. Values(Row, Drawn)'
    BY <2>1, StartDrawing, ValuesStep
  <2>3. Control'
    BY <2>1, ControlStep DEF Kept
  <2> QED
    BY <2>1, <2>2, <2>3, KeptStep, StartStep DEF IInv
<1> QED
  BY <1>1, <1>2, PTL DEF Spec

\* Every variable keeps its type; in particular what a service draws comes from one of
\* its own streams, and no row is saved beyond the manifest.  The constructor of an
\* environment is taken not to draw: where it would, a page is drawn at another position
\* in the first reset of a process than in later ones.
THEOREM TypeCorrect == ~EnvironmentDraws => (Spec => []TypeOK)
<1> SUFFICES ASSUME ~EnvironmentDraws PROVE Spec => []TypeOK
  OBVIOUS
<1>1. IInv => TypeOK
  <2> SUFFICES ASSUME IInv PROVE TypeOK
    OBVIOUS
  <2>1. Values(Row, Drawn) /\ Control /\ Backed
    BY DEF IInv, Kept
  <2>2. Len(rows) <= Tasks /\ dir.summary \in 0 .. Tasks /\ play.turns \in 0 .. MaxTurns
    <3>1. PICK n, k : n = Len(dir.episodes) /\ k = dir.summary
      OBVIOUS
    <3>2. n \in 0 .. Tasks /\ k \in Nat /\ k <= n
      BY <2>1, <3>1 DEF Backed, Values
    <3>3. k \in 0 .. Tasks
      BY <3>2, EvalRunAssumption
    <3>4. Len(rows) <= Tasks /\ play.turns \in 0 .. MaxTurns
      BY <2>1 DEF Backed, Control
    <3> QED
      BY <3>1, <3>3, <3>4
  <2>3. dir \in [made : BOOLEAN, manifest : BOOLEAN, episodes : Seq(Row), torn : BOOLEAN,
                errors : Nat, tornErrors : BOOLEAN, marker : BOOLEAN,
                summary : 0 .. Tasks, complete : BOOLEAN]
    BY <2>1, <2>2 DEF Values
  <2>4. play \in [turns : 0 .. MaxTurns, drawn : Nat, alive : BOOLEAN,
                 prices : Drawn, goal : Drawn, page : Drawn]
    BY <2>1, <2>2 DEF Values
  <2> QED
    BY <2>1, <2>2, <2>3, <2>4 DEF Values, Control, Places, TypeOK
<1> QED
  BY <1>1, IInvariant, PTL

\* The saved episodes are the manifest's first tasks in order, each drawn from the
\* beginning of the streams its index stands for, through any number of interrupts,
\* kills, resumes and redeployments (set_seed, local_rng, upstream_rng_scope and the
\* check of the answered streams in TeacherEnvClient.reset).
THEOREM EpisodesReplay == ~EnvironmentDraws => (Spec => []EpisodesAreReplayable)
<1> SUFFICES ASSUME ~EnvironmentDraws PROVE Spec => []EpisodesAreReplayable
  OBVIOUS
<1>1. IInv => EpisodesAreReplayable
  BY DEF IInv, FromTheStart, AllReplayed, Replayed, First, EpisodesAreReplayable
<1> QED
  BY <1>1, IInvariant, PTL

=============================================================================
