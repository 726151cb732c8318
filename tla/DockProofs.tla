------------------------------ MODULE DockProofs ------------------------------
(***************************************************************************)
(* Proofs about Dock, for any buttons pressed, addresses and bounds: that  *)
(* the tables and the buttons are up to date when no task is left, and     *)
(* that no notification is lost or shown twice on its way to a log.        *)
(***************************************************************************)
EXTENDS Dock, SequenceTheorems, TLAPS

Drains == {"messages", "drain"}
Jobs == [button : Buttons \cup {"drain", "more"}, address : Addresses]
Items == [n : Nat, about : Panels \cup {"other"}]
Entries == [n : Nat, about : Panels \cup {"other"}, logged : BOOLEAN]
Answers == [ok : BOOLEAN, value : Seq(Items) \cup SUBSET Addresses]

Types ==
  /\ waiting \in Seq(Jobs) /\ results \in Seq(Jobs) /\ open \in BOOLEAN
  /\ answers \in Seq(Answers) /\ DOMAIN answers = DOMAIN results
  /\ disabled \subseteq Buttons
  /\ table \in [Panels -> SUBSET Addresses] /\ points \in [Panels -> SUBSET Addresses]
  /\ buffer \in Seq(Items) /\ shown \in Seq(Entries)
  /\ bounds \in [presses : Nat, notes : Nat, sessions : Nat]
  /\ gone \subseteq 0 .. bounds.notes
  /\ stale \in [Panels -> BOOLEAN]

\* A task hands over what it drained, or the points of its panel.
ValueFits(b, value) ==
  /\ b \in Drains => value \in Seq(Items)
  /\ \A p \in Panels : b = Lists[p] => value \in SUBSET Addresses
AnswersFit ==
  \A i \in DOMAIN results : answers[i].ok => ValueFits(results[i].button, answers[i].value)

Has(s, b) == \E i \in DOMAIN s : s[i].button = b

\* A disabled button has a task whose callback enables it.
WillEnable == open => \A b \in disabled : Has(waiting, b) \/ Has(results, b)

\* A change of panel p after position k whose callback will ask for a list.
ChangeAfter(p, k) ==
  \E j \in DOMAIN results : j > k /\ Changes(results[j].button, p) /\ answers[j].ok

\* What table p will show: the last list that ran, unless a change came after
\* it, and then another list is due.
WillShow ==
  open => \A p \in Panels : ~stale[p] =>
    /\ \A k \in DOMAIN results :
         /\ results[k].button = Lists[p]
         /\ \A j \in DOMAIN results : j > k => results[j].button # Lists[p]
         => /\ answers[k].ok
            /\ answers[k].value = points[p] \/ ChangeAfter(p, k)
    /\ ~Has(results, Lists[p]) =>
         table[p] = points[p] \/ Has(waiting, Lists[p]) \/ ChangeAfter(p, 0)

\* Messages stay in the order in which they came, all the way to the logs.
IsDrained(i) == results[i].button \in Drains /\ answers[i].ok
InOrder(s) == \A i, j \in DOMAIN s : i < j => s[i].n < s[j].n
Before(s, t) == \A i \in DOMAIN s : \A j \in DOMAIN t : s[i].n < t[j].n
Order ==
  /\ InOrder(buffer) /\ InOrder(shown) /\ Before(shown, buffer)
  /\ \A i \in DOMAIN buffer : buffer[i].n <= bounds.notes
  /\ \A i \in DOMAIN shown : shown[i].n <= bounds.notes
  /\ \A i \in DOMAIN results : IsDrained(i) =>
       LET value == answers[i].value IN
       /\ InOrder(value) /\ Before(shown, value) /\ Before(value, buffer)
       /\ \A k \in DOMAIN value : value[k].n <= bounds.notes
       /\ \A j \in DOMAIN results : i < j /\ IsDrained(j) => Before(value, answers[j].value)

\* Where each notification is.
Placed ==
  /\ posted = Notes(buffer) \cup InFlight \cup gone \cup Logged
  /\ \A n \in Notes(buffer) \cup InFlight \cup Logged : n \notin gone
  /\ \A i \in DOMAIN shown : shown[i].about \in Panels => shown[i].logged

Closed == ~open => waiting = <<>> /\ results = <<>>

\* The inductive invariant.
DockInv == Types /\ Closed /\ AnswersFit /\ WillEnable /\ WillShow /\ Order /\ Placed
-----------------------------------------------------------------------------
(* Buttons.                                                                *)

LEMMA PanelButtons ==
  /\ Lists["bp"] = "bpList" /\ Lists["wp"] = "wpList"
  /\ \A b : Changes(b, "bp") <=> b \in {"bpSet", "bpRemove", "bpRemoveAll"}
  /\ \A b : Changes(b, "wp") <=> b \in {"wpSet", "wpRemove", "wpRemoveAll"}
BY DEF Lists, Changes, Sets, Removes, RemoveAlls

LEMMA PanelFacts ==
  ASSUME NEW p \in Panels
  PROVE  /\ Lists[p] \in Buttons /\ Lists[p] \notin Drains
         /\ \A b : Changes(b, p) => Clicked(b) = Lists[p] /\ b # Lists[p]
<1>1. p = "bp" \/ p = "wp"
  BY DEF Panels
<1>2. Lists[p] \in {"bpList", "wpList"}
  BY <1>1, PanelButtons
<1>3. "bpList" \in Buttons /\ "wpList" \in Buttons
  BY DEF Buttons, BreakpointButtons, WatchpointButtons
<1>4. \A b : Changes(b, p) => Clicked(b) = Lists[p] /\ b # Lists[p]
  <2>1. CASE p = "bp"
    <3>1. ASSUME NEW b, b \in {"bpSet", "bpRemove", "bpRemoveAll"}
          PROVE  Clicked(b) = "bpList" /\ b # "bpList"
      BY <3>1 DEF Clicked
    <3> QED BY <2>1, <3>1, PanelButtons
  <2>2. CASE p = "wp"
    <3>1. ASSUME NEW b, b \in {"wpSet", "wpRemove", "wpRemoveAll"}
          PROVE  Clicked(b) = "wpList" /\ b # "wpList"
      BY <3>1 DEF Clicked
    <3> QED BY <2>2, <3>1, PanelButtons
  <2> QED BY <1>1, <2>1, <2>2
<1> QED BY <1>2, <1>3, <1>4 DEF Drains

\* What a callback clicks is a button, or nothing more.
LEMMA ClickedIsButton ==
  ASSUME NEW b
  PROVE  Clicked(b) = b \/ Clicked(b) \in Buttons
<1>1. {"bpList", "wpList", "regRead", "clmRefresh"} \subseteq Buttons
  BY DEF Buttons, BreakpointButtons, WatchpointButtons, RegisterButtons, JavaButtons
<1>2. Clicked(b) \in {"bpList", "wpList", "regRead", "clmRefresh", b}
  BY DEF Clicked
<1> QED BY <1>1, <1>2

LEMMA JobsOfClick ==
  ASSUME NEW b \in Buttons, NEW a \in Addresses
  PROVE  /\ JobsOf(b, a) \in Seq(Jobs)
         /\ 1 \in DOMAIN JobsOf(b, a) /\ JobsOf(b, a)[1].button = b
<1>1. \A c \in Buttons \cup {"drain", "more"} : Job(c, a) \in Jobs /\ Job(c, a).button = c
  BY DEF Job, Jobs
<1>2. \/ JobsOf(b, a) = <<Job(b, a), Job("drain", a)>>
      \/ JobsOf(b, a) = <<Job(b, a), Job("more", a), Job("more", a)>>
      \/ JobsOf(b, a) = <<Job(b, a)>>
  BY DEF JobsOf
<1>3. Job(b, a) \in Jobs /\ Job("drain", a) \in Jobs /\ Job("more", a) \in Jobs
      /\ Job(b, a).button = b
  BY <1>1
<1>4. \A x, y \in Jobs : /\ <<x>> \in Seq(Jobs) /\ 1 \in DOMAIN <<x>> /\ <<x>>[1] = x
                        /\ <<x, y>> \in Seq(Jobs) /\ 1 \in DOMAIN <<x, y>> /\ <<x, y>>[1] = x
                        /\ <<x, y, y>> \in Seq(Jobs) /\ 1 \in DOMAIN <<x, y, y>>
                        /\ <<x, y, y>>[1] = x
  OBVIOUS
<1>5. CASE JobsOf(b, a) = <<Job(b, a)>>
  BY <1>3, <1>4, <1>5
<1>6. CASE JobsOf(b, a) = <<Job(b, a), Job("drain", a)>>
  BY <1>3, <1>4, <1>6
<1>7. CASE JobsOf(b, a) = <<Job(b, a), Job("more", a), Job("more", a)>>
  BY <1>3, <1>4, <1>7
<1> QED BY <1>2, <1>5, <1>6, <1>7

-----------------------------------------------------------------------------
(* Queues.                                                                 *)

LEMMA AppendElements ==
  ASSUME NEW S, NEW s \in Seq(S), NEW e \in S
  PROVE  /\ Append(s, e) \in Seq(S)
         /\ Len(s) \in Nat /\ DOMAIN s = 1 .. Len(s)
         /\ DOMAIN Append(s, e) = 1 .. Len(s) + 1
         /\ \A i \in DOMAIN s : Append(s, e)[i] = s[i]
         /\ Append(s, e)[Len(s) + 1] = e
<1> DEFINE a == Append(s, e)
<1>1. Len(s) \in Nat /\ DOMAIN s = 1 .. Len(s)
  BY LenProperties
<1>2. a \in Seq(S) /\ Len(a) = Len(s) + 1 /\ a[Len(s) + 1] = e
      /\ \A i \in 1 .. Len(s) : a[i] = s[i]
  BY AppendProperties
<1>3. DOMAIN a = 1 .. Len(s) + 1
  BY <1>2, LenProperties
<1> QED BY <1>1, <1>2, <1>3

LEMMA TailElements ==
  ASSUME NEW S, NEW s \in Seq(S), s # <<>>
  PROVE  /\ Head(s) \in S /\ Tail(s) \in Seq(S)
         /\ Len(s) \in Nat /\ DOMAIN s = 1 .. Len(s) /\ DOMAIN Tail(s) = 1 .. Len(s) - 1
         /\ 1 \in DOMAIN s /\ Head(s) = s[1]
         /\ \A i \in DOMAIN Tail(s) :
              i \in Nat \ {0} /\ i + 1 \in DOMAIN s /\ Tail(s)[i] = s[i + 1]
         /\ \A i \in DOMAIN s : i = 1 \/ \E j \in DOMAIN Tail(s) : i = j + 1 /\ Tail(s)[j] = s[i]
<1>1. Len(s) \in Nat /\ DOMAIN s = 1 .. Len(s) /\ Len(s) # 0
  BY EmptySeq, LenProperties
<1>2. /\ Head(s) = s[1] /\ Head(s) \in S
      /\ Tail(s) \in Seq(S) /\ Len(Tail(s)) = Len(s) - 1
      /\ \A i \in 1 .. Len(Tail(s)) : Tail(s)[i] = s[i + 1]
  BY HeadTailProperties
<1>3. DOMAIN Tail(s) = 1 .. Len(s) - 1
  BY <1>2, LenProperties
<1>4. \A i \in DOMAIN Tail(s) : i \in Nat \ {0} /\ i + 1 \in DOMAIN s /\ Tail(s)[i] = s[i + 1]
  BY <1>1, <1>2, <1>3
<1>5. ASSUME NEW i \in DOMAIN s, i # 1
      PROVE  \E j \in DOMAIN Tail(s) : i = j + 1 /\ Tail(s)[j] = s[i]
  <2>1. PICK j \in 1 .. Len(s) - 1 : j + 1 = i
    <3>1. i - 1 \in 1 .. Len(s) - 1 /\ (i - 1) + 1 = i
      BY <1>1, <1>5
    <3> QED BY <3>1
  <2> QED BY <1>3, <1>4, <2>1
<1> QED BY <1>1, <1>2, <1>3, <1>4, <1>5

LEMMA ConcatElements ==
  ASSUME NEW S, NEW s \in Seq(S), NEW t \in Seq(S)
  PROVE  /\ s \o t \in Seq(S)
         /\ Len(s) \in Nat /\ DOMAIN s = 1 .. Len(s) /\ DOMAIN t \subseteq Nat \ {0}
         /\ \A i \in DOMAIN s : i \in DOMAIN (s \o t) /\ (s \o t)[i] = s[i]
         /\ \A i \in DOMAIN t : \E j \in DOMAIN (s \o t) : j = Len(s) + i /\ (s \o t)[j] = t[i]
         /\ \A j \in DOMAIN (s \o t) :
              \/ j \in DOMAIN s
              \/ \E i \in DOMAIN t : j = Len(s) + i /\ (s \o t)[j] = t[i]
<1> DEFINE c == s \o t
<1>1. /\ Len(s) \in Nat /\ DOMAIN s = 1 .. Len(s)
      /\ Len(t) \in Nat /\ DOMAIN t = 1 .. Len(t)
  BY LenProperties
<1>2. /\ c \in Seq(S) /\ Len(c) = Len(s) + Len(t)
      /\ \A i \in 1 .. Len(s) + Len(t) :
           c[i] = IF i <= Len(s) THEN s[i] ELSE t[i - Len(s)]
  BY ConcatProperties
<1>3. DOMAIN c = 1 .. Len(s) + Len(t)
  BY <1>2, LenProperties
<1> HIDE DEF c
<1>4. \A i \in DOMAIN s : i \in DOMAIN c /\ c[i] = s[i]
  BY <1>1, <1>2, <1>3
<1>5. ASSUME NEW i \in DOMAIN t
      PROVE  \E j \in DOMAIN c : j = Len(s) + i /\ c[j] = t[i]
  <2>1. /\ i \in Nat /\ Len(s) + i \in DOMAIN c /\ ~(Len(s) + i <= Len(s))
        /\ (Len(s) + i) - Len(s) = i
    BY <1>1, <1>3
  <2>2. c[Len(s) + i] = t[i]
    BY <1>2, <1>3, <2>1
  <2> QED BY <2>1, <2>2
<1>6. ASSUME NEW j \in DOMAIN c, j \notin DOMAIN s
      PROVE  \E i \in DOMAIN t : j = Len(s) + i /\ c[j] = t[i]
  <2>1. /\ j \in Nat /\ j - Len(s) \in DOMAIN t /\ ~(j <= Len(s))
        /\ j = Len(s) + (j - Len(s))
    BY <1>1, <1>3, <1>6
  <2>2. c[j] = t[j - Len(s)]
    BY <1>2, <1>3, <2>1
  <2> QED BY <2>1, <2>2
<1>7. DOMAIN t \subseteq Nat \ {0}
  BY <1>1
<1> QED BY <1>1, <1>2, <1>4, <1>5, <1>6, <1>7 DEF c

\* A task that is handed over waits.
LEMMA HandedOver ==
  ASSUME Types, NEW batch \in Seq(Jobs), waiting' = waiting \o batch
  PROVE  /\ waiting' \in Seq(Jobs)
         /\ \A b : Has(waiting, b) \/ Has(batch, b) => Has(waiting, b)'
<1>1. waiting \in Seq(Jobs)
  BY DEF Types
<1>2. /\ waiting \o batch \in Seq(Jobs)
      /\ \A i \in DOMAIN waiting :
           i \in DOMAIN (waiting \o batch) /\ (waiting \o batch)[i] = waiting[i]
      /\ \A i \in DOMAIN batch :
           \E j \in DOMAIN (waiting \o batch) : (waiting \o batch)[j] = batch[i]
  <2>1. \A i \in DOMAIN batch : \E j \in DOMAIN (waiting \o batch) :
          j = Len(waiting) + i /\ (waiting \o batch)[j] = batch[i]
    BY <1>1, ConcatElements
  <2>2. /\ waiting \o batch \in Seq(Jobs)
        /\ \A i \in DOMAIN waiting :
             i \in DOMAIN (waiting \o batch) /\ (waiting \o batch)[i] = waiting[i]
    BY <1>1, ConcatElements
  <2> QED BY <2>1, <2>2
<1>3. waiting' = waiting \o batch
  OBVIOUS
<1>4. ASSUME NEW b, Has(waiting, b) \/ Has(batch, b)
      PROVE  Has(waiting, b)'
  BY <1>2, <1>3, <1>4 DEF Has
<1> QED BY <1>2, <1>3, <1>4

\* A task that has run has a result.
LEMMA Ran ==
  ASSUME Types, Runner!Execute, NEW ans \in Answers, answers' = Append(answers, ans)
  PROVE  /\ Head(waiting) \in Jobs /\ waiting' \in Seq(Jobs) /\ open' = open
         /\ results' \in Seq(Jobs) /\ answers' \in Seq(Answers)
         /\ Len(results) \in Nat /\ DOMAIN results = 1 .. Len(results)
         /\ DOMAIN results' = 1 .. Len(results) + 1 /\ DOMAIN answers' = DOMAIN results'
         /\ \A i \in DOMAIN results : results'[i] = results[i] /\ answers'[i] = answers[i]
         /\ results'[Len(results) + 1] = Head(waiting) /\ answers'[Len(results) + 1] = ans
         /\ \A b : Has(waiting, b) => Has(waiting, b)' \/ Head(waiting).button = b
<1>1. /\ waiting \in Seq(Jobs) /\ results \in Seq(Jobs) /\ answers \in Seq(Answers)
      /\ DOMAIN answers = DOMAIN results
  BY DEF Types
<1>2. /\ waiting # <<>> /\ waiting' = Tail(waiting) /\ open' = open
      /\ results' = Append(results, Head(waiting))
  BY DEF Runner!Execute
<1>3. Len(answers) = Len(results)
  BY <1>1, LenProperties
<1> HIDE DEF Answers, Jobs
<1>4. /\ Head(waiting) \in Jobs /\ waiting' \in Seq(Jobs)
      /\ \A i \in DOMAIN waiting : i = 1 \/ \E j \in DOMAIN waiting' : waiting'[j] = waiting[i]
      /\ Head(waiting) = waiting[1]
  BY <1>1, <1>2, TailElements
<1>5. /\ results' \in Seq(Jobs) /\ Len(results) \in Nat /\ DOMAIN results = 1 .. Len(results)
      /\ DOMAIN results' = 1 .. Len(results) + 1
      /\ \A i \in DOMAIN results : results'[i] = results[i]
      /\ results'[Len(results) + 1] = Head(waiting)
  BY <1>1, <1>2, <1>4, AppendElements
<1>6. /\ answers' \in Seq(Answers) /\ DOMAIN answers' = 1 .. Len(answers) + 1
      /\ \A i \in DOMAIN answers : answers'[i] = answers[i]
      /\ answers'[Len(answers) + 1] = ans
  BY <1>1, AppendElements
<1>7. \A b : Has(waiting, b) => Has(waiting, b)' \/ Head(waiting).button = b
  BY <1>4 DEF Has
<1> QED BY <1>1, <1>2, <1>3, <1>4, <1>5, <1>6, <1>7

\* The oldest result is answered.
LEMMA Called ==
  ASSUME Types, results # <<>>, results' = Tail(results), answers' = Tail(answers)
  PROVE  /\ Head(results) \in Jobs /\ Head(answers) \in Answers
         /\ results' \in Seq(Jobs) /\ answers' \in Seq(Answers)
         /\ DOMAIN answers' = DOMAIN results'
         /\ 1 \in DOMAIN results /\ Head(results) = results[1] /\ Head(answers) = answers[1]
         /\ DOMAIN results \subseteq Nat \ {0}
         /\ \A i \in DOMAIN results' :
              /\ i \in Nat \ {0} /\ i + 1 \in DOMAIN results
              /\ results'[i] = results[i + 1] /\ answers'[i] = answers[i + 1]
         /\ \A i \in DOMAIN results :
              \/ i = 1
              \/ \E j \in DOMAIN results' :
                   i = j + 1 /\ results'[j] = results[i] /\ answers'[j] = answers[i]
<1>1. /\ results \in Seq(Jobs) /\ answers \in Seq(Answers)
      /\ DOMAIN answers = DOMAIN results
  BY DEF Types
<1> HIDE DEF Answers, Jobs
<1>2. Len(answers) = Len(results) /\ Len(results) \in Nat /\ Len(results) # 0
  BY <1>1, EmptySeq, LenProperties
<1>3. answers # <<>>
  BY <1>1, <1>2
<1>4. /\ Head(results) \in Jobs /\ Tail(results) \in Seq(Jobs)
      /\ DOMAIN results = 1 .. Len(results) /\ DOMAIN Tail(results) = 1 .. Len(results) - 1
      /\ 1 \in DOMAIN results /\ Head(results) = results[1]
      /\ \A i \in DOMAIN Tail(results) :
           i \in Nat \ {0} /\ i + 1 \in DOMAIN results /\ Tail(results)[i] = results[i + 1]
      /\ \A i \in DOMAIN results :
           i = 1 \/ \E j \in DOMAIN Tail(results) : i = j + 1 /\ Tail(results)[j] = results[i]
  BY <1>1, TailElements
<1>5. /\ Head(answers) \in Answers /\ Tail(answers) \in Seq(Answers)
      /\ DOMAIN Tail(answers) = 1 .. Len(answers) - 1
      /\ Head(answers) = answers[1]
      /\ \A i \in DOMAIN Tail(answers) : Tail(answers)[i] = answers[i + 1]
  BY <1>1, <1>3, TailElements
<1>6. DOMAIN results \subseteq Nat \ {0}
  BY <1>4
<1> QED BY <1>1, <1>2, <1>4, <1>5, <1>6

-----------------------------------------------------------------------------
(* Tables and buttons.                                                     *)

Current == Closed /\ AnswersFit /\ WillEnable /\ WillShow

\* Nothing that happens to the session alone makes a table old unnoticed.
LEMMA ShowFrame ==
  ASSUME Current, UNCHANGED <<taskVars, answers, disabled, table>>,
         \A p \in Panels : ~stale'[p] => ~stale[p] /\ points'[p] = points[p]
  PROVE  Current'
<1> USE DEF taskVars
<1>1. Closed' /\ AnswersFit' /\ WillEnable'
  BY DEF Current, Closed, AnswersFit, WillEnable, Has
<1>2. WillShow'
  BY DEF Current, WillShow, ChangeAfter, Has
<1> QED BY <1>1, <1>2 DEF Current

\* A click from the user.
LEMMA ShowPress ==
  ASSUME Types, Current, NEW b \in Buttons, NEW batch \in Seq(Jobs), Has(batch, b),
         open, waiting' = waiting \o batch, disabled' = disabled \cup {b},
         UNCHANGED <<results, open, answers, table, points, stale>>
  PROVE  Current'
<1>1. \A c : Has(waiting, c) \/ Has(batch, c) => Has(waiting, c)'
  BY HandedOver
<1>2. \A c : Has(results, c)' <=> Has(results, c)
  BY DEF Has
<1>3. Closed' /\ AnswersFit'
  BY DEF Current, Closed, AnswersFit
<1>4. WillEnable'
  BY <1>1, <1>2 DEF Current, WillEnable
<1>5. WillShow'
  BY <1>1, <1>2 DEF Current, WillShow, ChangeAfter
<1> QED BY <1>3, <1>4, <1>5 DEF Current

\* The worker runs a task: points changes only by a task of its panel, and
\* stale tells of a call that failed.
LEMMA ShowExecute ==
  ASSUME Types, Current, Runner!Execute, NEW ans \in Answers,
         answers' = Append(answers, ans), UNCHANGED <<disabled, table>>,
         ans.ok => ValueFits(Head(waiting).button, ans.value),
         \A p \in Panels :
           LET b == Head(waiting).button IN
           ~stale'[p] =>
             \/ /\ b = Lists[p] /\ ans.ok /\ ans.value = points[p] /\ points'[p] = points[p]
             \/ /\ b # Lists[p] /\ ~stale[p]
                /\ points'[p] = points[p] \/ (Changes(b, p) /\ ans.ok)
  PROVE  Current'
<1> DEFINE b == Head(waiting).button
           last == Len(results) + 1
<1>0. Closed /\ AnswersFit /\ WillEnable /\ WillShow
  BY DEF Current
<1>1. /\ Len(results) \in Nat /\ DOMAIN results = 1 .. Len(results) /\ open' = open
      /\ DOMAIN results' = 1 .. last
      /\ \A i \in DOMAIN results : results'[i] = results[i] /\ answers'[i] = answers[i]
      /\ results'[last] = Head(waiting) /\ answers'[last] = ans
      /\ \A c : Has(waiting, c) => Has(waiting, c)' \/ b = c
  BY Ran
<1>2. /\ \A i \in DOMAIN results : i \in DOMAIN results' /\ i # last /\ i < last /\ i > 0
      /\ last \in DOMAIN results' /\ last \in Nat /\ last > 0
      /\ \A i \in DOMAIN results' : i \in DOMAIN results \/ i = last
      /\ \A i \in DOMAIN results : i \in Nat
  BY <1>1
<1>3. open
  BY <1>0 DEF Closed, Runner!Execute
<1> HIDE DEF last
<1>4. Closed'
  BY <1>1, <1>3 DEF Closed
<1>5. AnswersFit'
  <2> HIDE DEF b
  <2> QED BY <1>0, <1>1, <1>2 DEF AnswersFit, b
<1>6. \A c : Has(results, c) \/ c = b => Has(results, c)'
  BY <1>1, <1>2 DEF Has
<1>7. WillEnable'
  BY <1>0, <1>1, <1>6 DEF WillEnable
<1>8. ASSUME NEW p \in Panels, ~stale'[p]
      PROVE  /\ \A k \in DOMAIN results' :
                  /\ results'[k].button = Lists[p]
                  /\ \A j \in DOMAIN results' : j > k => results'[j].button # Lists[p]
                  => /\ answers'[k].ok
                     /\ answers'[k].value = points'[p] \/ ChangeAfter(p, k)'
             /\ ~Has(results, Lists[p])' =>
                  table'[p] = points'[p] \/ Has(waiting, Lists[p])' \/ ChangeAfter(p, 0)'
  <2>1. CASE b = Lists[p]
    <3>1. ans.ok /\ ans.value = points'[p]
      BY <1>8, <2>1
    <3>2. \A k \in DOMAIN results : ~(\A j \in DOMAIN results' :
                                        j > k => results'[j].button # Lists[p])
      BY <1>1, <1>2, <2>1
    <3>3. Has(results, Lists[p])'
      BY <1>6, <2>1
    <3> HIDE DEF b
    <3> QED BY <1>1, <1>2, <3>1, <3>2, <3>3
  <2>2. CASE b # Lists[p]
    <3>1. ~stale[p] /\ (points'[p] = points[p] \/ (Changes(b, p) /\ ans.ok))
      BY <1>8, <2>2
    <3>2. ASSUME NEW k \in Nat, k < last, points'[p] # points[p]
          PROVE  ChangeAfter(p, k)'
      BY <1>1, <1>2, <3>1, <3>2 DEF ChangeAfter
    <3>3. \A k : ChangeAfter(p, k) => ChangeAfter(p, k)'
      BY <1>1, <1>2 DEF ChangeAfter
    <3>4. ASSUME NEW k \in DOMAIN results', results'[k].button = Lists[p],
                 \A j \in DOMAIN results' : j > k => results'[j].button # Lists[p]
          PROVE  answers'[k].ok /\ (answers'[k].value = points'[p] \/ ChangeAfter(p, k)')
      <4>1. k \in DOMAIN results
        BY <1>1, <1>2, <2>2, <3>4
      <4>2. \A j \in DOMAIN results : j > k => results[j].button # Lists[p]
        BY <1>1, <1>2, <3>4
      <4>3. answers[k].ok /\ (answers[k].value = points[p] \/ ChangeAfter(p, k))
        BY <1>0, <1>1, <1>3, <3>1, <3>4, <4>1, <4>2 DEF WillShow
      <4>4. k \in Nat /\ k < last /\ answers'[k] = answers[k]
        BY <1>1, <1>2, <4>1
      <4> QED BY <3>2, <3>3, <4>3, <4>4
    <3>5. ASSUME ~Has(results, Lists[p])'
          PROVE  table'[p] = points'[p] \/ Has(waiting, Lists[p])' \/ ChangeAfter(p, 0)'
      <4>1. ~Has(results, Lists[p])
        BY <1>6, <3>5
      <4>2. table[p] = points[p] \/ Has(waiting, Lists[p]) \/ ChangeAfter(p, 0)
        BY <1>0, <1>3, <3>1, <4>1 DEF WillShow
      <4>3. 0 \in Nat /\ 0 < last
        BY <1>2
      <4> QED BY <1>1, <2>2, <3>2, <3>3, <4>2, <4>3
    <3> QED BY <3>4, <3>5
  <2> QED BY <2>1, <2>2
<1>9. WillShow'
  BY <1>8 DEF WillShow
<1> QED BY <1>4, <1>5, <1>7, <1>9 DEF Current

\* A callback: the one of a change has a list of its panel asked for, unless
\* that is due anyhow.
LEMMA ShowCallback ==
  ASSUME Types, Current, results # <<>>, open, open' = open,
         results' = Tail(results), answers' = Tail(answers), points' = points,
         NEW next, NEW batch \in Seq(Jobs), waiting' = waiting \o batch,
         LET enabled == disabled \ {Head(results).button} IN
         /\ \/ disabled' = enabled
            \/ disabled' = enabled \cup {next} /\ Has(batch, next)
         /\ \A p \in Panels : ~stale'[p] =>
              /\ ~stale[p]
              /\ table'[p] = IF Head(results).button = Lists[p] /\ Head(answers).ok
                             THEN Head(answers).value ELSE table[p]
              /\ Changes(Head(results).button, p) /\ Head(answers).ok =>
                   Has(batch, Lists[p]) \/ Lists[p] \in enabled
  PROVE  Current'
<1> DEFINE b == Head(results).button
           enabled == disabled \ {b}
<1>0. Closed /\ AnswersFit /\ WillEnable /\ WillShow
  BY DEF Current
<1>1. /\ 1 \in DOMAIN results /\ Head(results) = results[1] /\ Head(answers) = answers[1]
      /\ DOMAIN results \subseteq Nat \ {0}
      /\ \A i \in DOMAIN results' :
           /\ i \in Nat \ {0} /\ i + 1 \in DOMAIN results
           /\ results'[i] = results[i + 1] /\ answers'[i] = answers[i + 1]
      /\ \A i \in DOMAIN results :
           \/ i = 1
           \/ \E j \in DOMAIN results' :
                i = j + 1 /\ results'[j] = results[i] /\ answers'[j] = answers[i]
  BY Called
<1>2. \A c : Has(waiting, c) \/ Has(batch, c) => Has(waiting, c)'
  BY HandedOver
<1>3. Closed'
  BY DEF Closed
<1>4. AnswersFit'
  <2>1. ASSUME NEW i \in DOMAIN results', answers'[i].ok
        PROVE  ValueFits(results'[i].button, answers'[i].value)
    <3>1. i + 1 \in DOMAIN results /\ results'[i] = results[i + 1] /\ answers'[i] = answers[i + 1]
      BY <1>1
    <3> QED BY <1>0, <2>1, <3>1 DEF AnswersFit
  <2> QED BY <2>1 DEF AnswersFit, ValueFits
<1>5. \A c : Has(results, c) => Has(results, c)' \/ c = b
  BY <1>1 DEF Has
<1>6. WillEnable'
  <2>1. \A c \in enabled : Has(waiting, c)' \/ Has(results, c)'
    BY <1>0, <1>2, <1>5 DEF WillEnable
  <2>2. \A c \in disabled' : c \in enabled \/ Has(batch, c)
    OBVIOUS
  <2> QED BY <1>2, <2>1, <2>2 DEF WillEnable
<1>7. ASSUME NEW p \in Panels, ~stale'[p]
      PROVE  /\ \A k \in DOMAIN results' :
                  /\ results'[k].button = Lists[p]
                  /\ \A j \in DOMAIN results' : j > k => results'[j].button # Lists[p]
                  => /\ answers'[k].ok
                     /\ answers'[k].value = points'[p] \/ ChangeAfter(p, k)'
             /\ ~Has(results, Lists[p])' =>
                  table'[p] = points'[p] \/ Has(waiting, Lists[p])' \/ ChangeAfter(p, 0)'
  <2>1. /\ ~stale[p]
        /\ table'[p] = IF b = Lists[p] /\ Head(answers).ok
                       THEN Head(answers).value ELSE table[p]
        /\ Changes(b, p) /\ Head(answers).ok =>
             Has(batch, Lists[p]) \/ Lists[p] \in enabled
    BY <1>7
  <2>2. ASSUME NEW k \in DOMAIN results', ChangeAfter(p, k + 1)
        PROVE  ChangeAfter(p, k)'
    <3>1. PICK i \in DOMAIN results :
             i > k + 1 /\ Changes(results[i].button, p) /\ answers[i].ok
      BY <2>2 DEF ChangeAfter
    <3>2. k \in Nat /\ i \in Nat /\ i # 1
      BY <1>1, <3>1
    <3>3. PICK j \in DOMAIN results' :
             i = j + 1 /\ results'[j] = results[i] /\ answers'[j] = answers[i]
      BY <1>1, <3>2
    <3>4. j > k
      BY <1>1, <3>1, <3>2, <3>3
    <3> QED BY <3>1, <3>3, <3>4 DEF ChangeAfter
  <2>3. ASSUME NEW k \in DOMAIN results', results'[k].button = Lists[p],
               \A j \in DOMAIN results' : j > k => results'[j].button # Lists[p]
        PROVE  answers'[k].ok /\ (answers'[k].value = points'[p] \/ ChangeAfter(p, k)')
    <3>1. /\ k \in Nat /\ k + 1 \in DOMAIN results
          /\ results'[k] = results[k + 1] /\ answers'[k] = answers[k + 1]
      BY <1>1
    <3>2. ASSUME NEW i \in DOMAIN results, i > k + 1
          PROVE  results[i].button # Lists[p]
      <4>1. i \in Nat /\ i # 1
        BY <1>1, <3>1, <3>2
      <4>2. PICK j \in DOMAIN results' : i = j + 1 /\ results'[j] = results[i]
        BY <1>1, <4>1
      <4>3. j > k
        BY <1>1, <3>1, <3>2, <4>1, <4>2
      <4> QED BY <2>3, <4>2, <4>3
    <3>3. /\ answers[k + 1].ok
          /\ answers[k + 1].value = points[p] \/ ChangeAfter(p, k + 1)
      BY <1>0, <2>1, <2>3, <3>1, <3>2 DEF WillShow
    <3> QED BY <2>2, <3>1, <3>3
  <2>4. ASSUME ~Has(results, Lists[p])'
        PROVE  table'[p] = points'[p] \/ Has(waiting, Lists[p])' \/ ChangeAfter(p, 0)'
    <3>1. \A i \in DOMAIN results : i # 1 => results[i].button # Lists[p]
      BY <1>5, <1>1, <2>4 DEF Has
    <3>2. ASSUME NEW i \in DOMAIN results, i # 1, Changes(results[i].button, p), answers[i].ok
          PROVE  ChangeAfter(p, 0)'
      <4>1. PICK j \in DOMAIN results' : results'[j] = results[i] /\ answers'[j] = answers[i]
        BY <1>1, <3>2
      <4>2. j > 0
        BY <1>1
      <4> QED BY <3>2, <4>1, <4>2 DEF ChangeAfter
    <3>3. CASE b = Lists[p]
      <4>1. \A j \in DOMAIN results : j > 1 => results[j].button # Lists[p]
        BY <1>1, <3>1
      <4>2. answers[1].ok /\ (answers[1].value = points[p] \/ ChangeAfter(p, 1))
        <5>1. 1 \in DOMAIN results /\ results[1].button = Lists[p]
          BY <1>1, <3>3
        <5> HIDE DEF b, enabled
        <5> QED BY <1>0, <2>1, <4>1, <5>1 DEF WillShow
      <4>3. ChangeAfter(p, 1) => ChangeAfter(p, 0)'
        <5>1. \A j \in DOMAIN results : j > 1 => j # 1
          BY <1>1
        <5> QED BY <3>2, <5>1 DEF ChangeAfter
      <4> QED BY <1>1, <2>1, <3>3, <4>2, <4>3
    <3>4. CASE b # Lists[p]
      <4>1. ~Has(results, Lists[p])
        BY <1>1, <3>1, <3>4 DEF Has
      <4>2. table[p] = points[p] \/ Has(waiting, Lists[p]) \/ ChangeAfter(p, 0)
        BY <1>0, <2>1, <4>1 DEF WillShow
      <4>3. CASE Changes(b, p) /\ Head(answers).ok
        <5>1. Has(batch, Lists[p]) \/ Lists[p] \in disabled
          BY <2>1, <4>3
        <5>2. Lists[p] \in disabled => Has(waiting, Lists[p])
          BY <1>0, <4>1 DEF WillEnable
        <5> QED BY <1>2, <5>1, <5>2
      <4>4. CASE ~(Changes(b, p) /\ Head(answers).ok)
        <5>1. ChangeAfter(p, 0) => ChangeAfter(p, 0)'
          <6>1. ASSUME NEW i \in DOMAIN results, Changes(results[i].button, p), answers[i].ok
                PROVE  i # 1
            BY <1>1, <4>4, <6>1
          <6> QED BY <3>2, <6>1 DEF ChangeAfter
        <5> QED BY <1>2, <2>1, <3>4, <4>2, <5>1
      <4> QED BY <4>3, <4>4
    <3> QED BY <3>3, <3>4
  <2> QED BY <2>3, <2>4
<1>8. WillShow'
  BY <1>7 DEF WillShow
<1> QED BY <1>3, <1>4, <1>6, <1>8 DEF Current

-----------------------------------------------------------------------------
(* Notifications.                                                          *)

Messages == Order /\ Placed

LEMMA InFlightIs ==
  InFlight = UNION {Notes(answers[i].value) : i \in {j \in DOMAIN results : IsDrained(j)}}
BY DEF InFlight, Carried, IsDrained, Drains

\* Places of notifications do not overlap.
LEMMA Apart ==
  ASSUME Types, AnswersFit, Order
  PROVE  /\ \A n \in Notes(buffer) \cup InFlight \cup Logged : n \in 0 .. bounds.notes
         /\ \A n \in Notes(buffer) : n \notin InFlight /\ n \notin Logged
         /\ \A n \in InFlight : n \notin Logged
<1>1. /\ \A i \in DOMAIN buffer : buffer[i].n \in Nat
      /\ \A i \in DOMAIN shown : shown[i].n \in Nat
      /\ bounds.notes \in Nat
  <2>1. buffer \in Seq(Items) /\ shown \in Seq(Entries)
    BY DEF Types
  <2>2. \A i \in DOMAIN buffer : buffer[i] \in Items
    BY <2>1
  <2>3. \A i \in DOMAIN shown : shown[i] \in Entries
    BY <2>1
  <2> QED BY <2>2, <2>3 DEF Items, Entries, Types
<1>2. ASSUME NEW i \in DOMAIN results, IsDrained(i), NEW k \in DOMAIN answers[i].value
      PROVE  answers[i].value[k].n \in Nat
  <2>1. answers[i].value \in Seq(Items)
    BY <1>2 DEF AnswersFit, ValueFits, IsDrained
  <2>2. answers[i].value[k] \in Items
    BY <1>2, <2>1
  <2> QED BY <2>2 DEF Items
<1>3. \A n \in InFlight : \E i \in DOMAIN results : /\ IsDrained(i)
                                                   /\ \E k \in DOMAIN answers[i].value :
                                                        n = answers[i].value[k].n
  BY InFlightIs DEF Notes
<1>4. ASSUME NEW n \in InFlight
      PROVE  n \in 0 .. bounds.notes /\ n \notin Logged /\ n \notin Notes(buffer)
  <2>1. PICK i \in DOMAIN results : /\ IsDrained(i)
                                   /\ \E k \in DOMAIN answers[i].value :
                                        n = answers[i].value[k].n
    BY <1>3
  <2>2. PICK k \in DOMAIN answers[i].value : n = answers[i].value[k].n
    BY <2>1
  <2>3. n \in Nat
    BY <1>2, <2>1, <2>2
  <2>4. /\ Before(shown, answers[i].value) /\ Before(answers[i].value, buffer)
        /\ n <= bounds.notes
    BY <2>1, <2>2 DEF Order
  <2>5. \A j \in DOMAIN shown : shown[j].n < n
    BY <2>2, <2>4 DEF Before
  <2>6. \A j \in DOMAIN buffer : n < buffer[j].n
    BY <2>2, <2>4 DEF Before
  <2> QED BY <1>1, <2>3, <2>4, <2>5, <2>6 DEF Notes, Logged
<1>5. \A n \in Notes(buffer) : n \in 0 .. bounds.notes
  BY <1>1 DEF Notes, Order
<1>6. \A n \in Logged : n \in 0 .. bounds.notes
  BY <1>1 DEF Logged, Order
<1>7. \A n \in Notes(buffer) : n \notin Logged
  BY <1>1 DEF Notes, Logged, Order, Before
<1> QED BY <1>4, <1>5, <1>6, <1>7

\* Nothing happens to a message.
LEMMA MessagesFrame ==
  ASSUME Messages, UNCHANGED <<results, answers, buffer, shown, posted, gone>>,
         bounds'.notes = bounds.notes
  PROVE  Messages'
<1>1. \A i : IsDrained(i)' <=> IsDrained(i)
  BY DEF IsDrained
<1>2. Order'
  BY <1>1 DEF Messages, Order, InOrder, Before
<1>3. Placed'
  BY DEF Messages, Placed, InFlight, Carried, Logged
<1> QED BY <1>2, <1>3 DEF Messages

\* A session ends, and its buffer with it, or the console takes what is in it.
LEMMA MessagesEnd ==
  ASSUME Types, AnswersFit, Messages, buffer' = <<>>, gone' = gone \cup Notes(buffer),
         UNCHANGED <<results, answers, shown, posted, bounds>>
  PROVE  Messages'
<1>1. DOMAIN <<>> = {}
  OBVIOUS
<1>2. \A i : IsDrained(i)' <=> IsDrained(i)
  BY DEF IsDrained
<1>3. Order'
  BY <1>1, <1>2 DEF Messages, Order, InOrder, Before
<1>4. Notes(<<>>) = {}
  BY <1>1 DEF Notes
<1>5. InFlight' = InFlight /\ Logged' = Logged
  BY DEF InFlight, Carried, Logged
<1>6. Placed'
  BY <1>4, <1>5, Apart DEF Messages, Placed
<1> QED BY <1>3, <1>6 DEF Messages

\* The dock is destroyed, with the results that were not answered.
LEMMA MessagesDestroyed ==
  ASSUME Types, AnswersFit, Messages, results' = <<>>, gone' = gone \cup InFlight,
         UNCHANGED <<buffer, shown, posted, bounds>>
  PROVE  Messages'
<1>1. DOMAIN <<>> = {}
  OBVIOUS
<1>2. Order'
  BY <1>1 DEF Messages, Order, InOrder, Before
<1>3. InFlight' = {} /\ Logged' = Logged
  BY <1>1 DEF InFlight, Carried, Logged
<1>4. Placed'
  BY <1>3, Apart DEF Messages, Placed
<1> QED BY <1>2, <1>4 DEF Messages

\* A message comes: the buffer loses its oldest at most, and has a new last.
LEMMA BufferKeeps ==
  ASSUME Types, NEW about \in Panels \cup {"other"}, Message(about)
  PROVE  \E kept \in Seq(Items) :
           LET item == [n |-> bounds.notes + 1, about |-> about] IN
           /\ item \in Items /\ bounds'.notes = bounds.notes + 1
           /\ buffer' = Append(kept, item)
           /\ gone' = gone \cup (Notes(buffer) \ Notes(kept))
           /\ posted' = IF about \in Panels THEN posted \cup {item.n} ELSE posted
           /\ \E k \in {0, 1} :
                \A i \in DOMAIN kept : i + k \in DOMAIN buffer /\ kept[i] = buffer[i + k]
<1> DEFINE kept == IF Len(buffer) = BufferMax THEN Tail(buffer) ELSE buffer
           item == [n |-> bounds.notes + 1, about |-> about]
<1>1. buffer \in Seq(Items) /\ bounds.notes \in Nat
  BY DEF Types
<1>2. bounds' = [bounds EXCEPT !.notes = @ + 1] /\ bounds'.notes = bounds.notes + 1
  <2>1. bounds' = [bounds EXCEPT !.notes = @ + 1]
    BY DEF Message
  <2>2. "notes" \in DOMAIN bounds
    BY DEF Message, Types
  <2> QED BY <2>1, <2>2
<1>3. item \in Items
  BY <1>1 DEF Items
<1>4. /\ buffer' = Append(kept, item)
      /\ gone' = gone \cup (Notes(buffer) \ Notes(kept))
      /\ posted' = IF about \in Panels THEN posted \cup {item.n} ELSE posted
  BY <1>2 DEF Message
<1>5. /\ kept \in Seq(Items)
      /\ \E k \in {0, 1} :
           \A i \in DOMAIN kept : i + k \in DOMAIN buffer /\ kept[i] = buffer[i + k]
  <2>1. CASE Len(buffer) = BufferMax
    <3>1. buffer # <<>>
      BY <2>1, DockAssumption
    <3>2. /\ Tail(buffer) \in Seq(Items)
          /\ \A i \in DOMAIN Tail(buffer) :
               i + 1 \in DOMAIN buffer /\ Tail(buffer)[i] = buffer[i + 1]
      BY <1>1, <3>1, TailElements
    <3> QED BY <2>1, <3>2
  <2>2. CASE Len(buffer) # BufferMax
    <3>1. \A i \in DOMAIN buffer : i + 0 = i
      BY <1>1
    <3> QED BY <1>1, <2>2, <3>1
  <2> QED BY <2>1, <2>2
<1> HIDE DEF kept, item
<1> QED BY <1>2, <1>3, <1>4, <1>5 DEF item

LEMMA MessagesCome ==
  ASSUME Types, AnswersFit, Messages, NEW about \in Panels \cup {"other"}, Message(about)
  PROVE  /\ Messages'
         /\ buffer' \in Seq(Items) /\ gone' \subseteq 0 .. bounds'.notes
<1> DEFINE m == bounds.notes + 1
           item == [n |-> m, about |-> about]
           New == IF about \in Panels THEN {m} ELSE {}
<1>1. PICK kept \in Seq(Items) :
        /\ item \in Items /\ bounds'.notes = m
        /\ buffer' = Append(kept, item)
        /\ gone' = gone \cup (Notes(buffer) \ Notes(kept))
        /\ posted' = IF about \in Panels THEN posted \cup {item.n} ELSE posted
        /\ \E k \in {0, 1} :
             \A i \in DOMAIN kept : i + k \in DOMAIN buffer /\ kept[i] = buffer[i + k]
  BY BufferKeeps
<1>2. PICK k \in {0, 1} :
        \A i \in DOMAIN kept : i + k \in DOMAIN buffer /\ kept[i] = buffer[i + k]
  BY <1>1
<1>3. /\ buffer' \in Seq(Items)
      /\ Len(kept) \in Nat /\ DOMAIN kept = 1 .. Len(kept)
      /\ DOMAIN buffer' = 1 .. Len(kept) + 1
      /\ \A i \in DOMAIN kept : buffer'[i] = kept[i]
      /\ buffer'[Len(kept) + 1] = item
  <2> HIDE DEF item
  <2>1. item \in Items /\ kept \in Seq(Items)
    BY <1>1
  <2> HIDE DEF Items
  <2> QED BY <1>1, <2>1, AppendElements
<1>4. m \in Nat /\ bounds.notes \in Nat /\ bounds.notes < m
  BY DEF Types
<1>5. item.n = m /\ item.about = about
  OBVIOUS
<1> DEFINE last == Len(kept) + 1
<1>6. /\ \A i \in DOMAIN buffer' : i \in DOMAIN kept \/ i = last
      /\ \A i \in DOMAIN kept : i \in DOMAIN buffer' /\ i \in Nat /\ i < last
      /\ last \in DOMAIN buffer' /\ last \in Nat
  BY <1>3
<1> HIDE DEF last, item, m
<1>7. buffer'[last] = item
  BY <1>3 DEF last
<1>8. \A i \in DOMAIN kept : \E j \in DOMAIN buffer : buffer'[i] = buffer[j]
  BY <1>2, <1>3
<1>9. \A j \in DOMAIN buffer : buffer[j].n \in Nat /\ buffer[j].n <= bounds.notes
  <2>1. \A j \in DOMAIN buffer : buffer[j] \in Items
    BY DEF Types
  <2> QED BY <2>1 DEF Items, Messages, Order
<1>10. InOrder(buffer')
  <2>1. ASSUME NEW i \in DOMAIN buffer', NEW j \in DOMAIN buffer', i < j
        PROVE  buffer'[i].n < buffer'[j].n
    <3>1. i \in DOMAIN kept
      BY <1>6, <2>1
    <3>2. CASE j = last
      <4>1. PICK h \in DOMAIN buffer : buffer'[i] = buffer[h]
        BY <1>8, <3>1
      <4> QED BY <1>4, <1>5, <1>7, <1>9, <3>2, <4>1
    <3>3. CASE j \in DOMAIN kept
      <4>1. /\ i + k \in DOMAIN buffer /\ buffer'[i] = buffer[i + k]
            /\ j + k \in DOMAIN buffer /\ buffer'[j] = buffer[j + k]
        BY <1>2, <1>3, <3>1, <3>3
      <4>2. i + k < j + k
        BY <1>6, <2>1, <3>1, <3>3
      <4> QED BY <4>1, <4>2 DEF Messages, Order, InOrder
    <3> QED BY <1>6, <3>2, <3>3
  <2> QED BY <2>1 DEF InOrder
<1>11. ASSUME NEW s, \A i \in DOMAIN s : s[i].n \in Nat /\ s[i].n <= bounds.notes,
              Before(s, buffer)
       PROVE  Before(s, buffer')
  <2>1. \A i \in DOMAIN s : s[i].n < m
    BY <1>4, <1>11
  <2> QED BY <1>5, <1>6, <1>7, <1>8, <1>11, <2>1 DEF Before
<1>12. \A i \in DOMAIN shown : shown[i].n \in Nat
  <2>1. \A i \in DOMAIN shown : shown[i] \in Entries
    BY DEF Types
  <2> QED BY <2>1 DEF Entries
<1>13. ASSUME NEW i \in DOMAIN results, IsDrained(i), NEW j \in DOMAIN answers[i].value
       PROVE  answers[i].value[j].n \in Nat /\ answers[i].value[j].n <= bounds.notes
  <2>1. answers[i].value \in Seq(Items)
    BY <1>13 DEF AnswersFit, ValueFits, IsDrained
  <2>2. answers[i].value[j] \in Items
    BY <1>13, <2>1
  <2> QED BY <1>13, <2>2 DEF Items, Messages, Order
<1>14. UNCHANGED <<results, answers, shown>>
  BY DEF Message, taskVars
<1>15. \A i : IsDrained(i)' <=> IsDrained(i)
  BY <1>14 DEF IsDrained
<1>16. Order'
  <2>1. Before(shown, buffer')
    BY <1>11, <1>12 DEF Messages, Order
  <2>2. \A i \in DOMAIN results : IsDrained(i) => Before(answers[i].value, buffer')
    BY <1>11, <1>13 DEF Messages, Order
  <2>3. \A i \in DOMAIN buffer' : buffer'[i].n <= m
    BY <1>4, <1>5, <1>6, <1>7, <1>8, <1>9
  <2>4. \A i \in DOMAIN shown : shown[i].n <= m
    BY <1>4, <1>12 DEF Messages, Order
  <2>5. ASSUME NEW i \in DOMAIN results, IsDrained(i), NEW j \in DOMAIN answers[i].value
        PROVE  answers[i].value[j].n <= m
    BY <1>4, <1>13, <2>5
  <2> QED BY <1>1, <1>10, <1>14, <1>15, <2>1, <2>2, <2>3, <2>4, <2>5
        DEF Messages, Order, InOrder, Before
<1>17. Notes(kept) \subseteq Notes(buffer)
  BY <1>2 DEF Notes
<1>18. Notes(buffer') = Notes(kept) \cup New
  <2>1. \A n \in Notes(buffer') : n \in Notes(kept) \cup New
    BY <1>3, <1>5, <1>6, <1>7 DEF Notes
  <2>2. \A n \in Notes(kept) \cup New : n \in Notes(buffer')
    BY <1>3, <1>5, <1>6, <1>7 DEF Notes
  <2> QED BY <2>1, <2>2
<1>19. /\ gone \subseteq 0 .. bounds.notes
       /\ \A n \in Notes(buffer) \cup InFlight \cup Logged : n \in 0 .. bounds.notes
       /\ \A n \in Notes(buffer) : n \notin InFlight /\ n \notin Logged
  BY Apart DEF Messages, Types
<1>20. posted' = posted \cup New
  BY <1>1, <1>5
<1>21. InFlight' = InFlight /\ Logged' = Logged
  BY <1>14 DEF InFlight, Carried, Logged
<1>22. \A n \in 0 .. bounds.notes : n \notin New
  BY <1>4
<1>23. Placed'
  <2>1. posted' = Notes(buffer') \cup InFlight' \cup gone' \cup Logged'
    BY <1>1, <1>17, <1>18, <1>20, <1>21 DEF Messages, Placed
  <2>2. \A n \in Notes(buffer') \cup InFlight' \cup Logged' : n \notin gone'
    BY <1>1, <1>17, <1>18, <1>19, <1>21, <1>22 DEF Messages, Placed
  <2> QED BY <1>14, <2>1, <2>2 DEF Messages, Placed
<1>24. gone' \subseteq 0 .. bounds'.notes
  <2>1. 0 .. bounds.notes \subseteq 0 .. m
    BY <1>4
  <2> QED BY <1>1, <1>19, <2>1
<1> QED BY <1>3, <1>16, <1>23, <1>24 DEF Messages

\* A task runs: one that drains takes the whole buffer.
LEMMA MessagesRun ==
  ASSUME Types, AnswersFit, Messages, Runner!Execute, NEW ans \in Answers,
         answers' = Append(answers, ans), UNCHANGED <<shown, posted, gone, bounds>>,
         LET drained == Head(waiting).button \in Drains /\ ans.ok IN
         \/ drained /\ ans.value = buffer /\ buffer' = <<>>
         \/ ~drained /\ buffer' = buffer
  PROVE  Messages'
<1> DEFINE drained == Head(waiting).button \in Drains /\ ans.ok
<1>0. PICK last \in Nat : last = Len(results) + 1
  BY Ran
<1>1. /\ Len(results) \in Nat /\ DOMAIN results = 1 .. Len(results)
      /\ DOMAIN results' = 1 .. last
      /\ \A i \in DOMAIN results : results'[i] = results[i] /\ answers'[i] = answers[i]
      /\ results'[last] = Head(waiting) /\ answers'[last] = ans
  BY <1>0, Ran
<1>2. /\ \A i \in DOMAIN results : i \in DOMAIN results' /\ i < last /\ ~(last < i)
      /\ last \in DOMAIN results' /\ ~(last < last)
      /\ \A i \in DOMAIN results' : i \in DOMAIN results \/ i = last
  BY <1>0, <1>1
<1>3. /\ \A i \in DOMAIN results : IsDrained(i)' <=> IsDrained(i)
      /\ IsDrained(last)' <=> drained
  BY <1>1 DEF IsDrained
<1>4. \/ drained /\ ans.value = buffer /\ buffer' = <<>>
      \/ ~drained /\ buffer' = buffer
  OBVIOUS
<1> HIDE DEF drained
<1>5. DOMAIN <<>> = {}
  OBVIOUS
<1>6. Order'
  <2>1. InOrder(buffer') /\ Before(shown, buffer')
        /\ \A i \in DOMAIN buffer' : buffer'[i].n <= bounds.notes
    BY <1>4, <1>5 DEF Messages, Order, InOrder, Before
  <2>2. ASSUME NEW i \in DOMAIN results', IsDrained(i)'
        PROVE  LET value == answers'[i].value IN
               /\ InOrder(value) /\ Before(shown, value) /\ Before(value, buffer')
               /\ \A k \in DOMAIN value : value[k].n <= bounds.notes
               /\ \A j \in DOMAIN results' : i < j /\ IsDrained(j)' =>
                    Before(value, answers'[j].value)
    <3>1. CASE i \in DOMAIN results
      <4>1. /\ IsDrained(i) /\ answers'[i] = answers[i]
            /\ InOrder(answers[i].value) /\ Before(shown, answers[i].value)
            /\ Before(answers[i].value, buffer)
            /\ \A k \in DOMAIN answers[i].value : answers[i].value[k].n <= bounds.notes
            /\ \A j \in DOMAIN results : i < j /\ IsDrained(j) =>
                 Before(answers[i].value, answers[j].value)
        BY <1>1, <1>3, <2>2, <3>1 DEF Messages, Order
      <4>2. Before(answers[i].value, buffer')
        BY <1>4, <1>5, <4>1 DEF Before
      <4>3. ASSUME NEW j \in DOMAIN results', i < j, IsDrained(j)'
            PROVE  Before(answers[i].value, answers'[j].value)
        <5>1. CASE j \in DOMAIN results
          BY <1>1, <1>3, <4>1, <4>3, <5>1
        <5>2. CASE j = last
          BY <1>1, <1>3, <1>4, <4>1, <4>3, <5>2
        <5> QED BY <1>2, <5>1, <5>2
      <4> QED BY <4>1, <4>2, <4>3
    <3>2. CASE i = last
      <4>1. drained /\ answers'[i].value = buffer /\ buffer' = <<>>
        BY <1>1, <1>3, <1>4, <2>2, <3>2
      <4>2. /\ InOrder(buffer) /\ Before(shown, buffer)
            /\ \A k \in DOMAIN buffer : buffer[k].n <= bounds.notes
        BY DEF Messages, Order
      <4>3. Before(buffer, <<>>)
        BY <1>5 DEF Before
      <4>4. \A j \in DOMAIN results' : ~(last < j)
        BY <1>2
      <4> QED BY <3>2, <4>1, <4>2, <4>3, <4>4
    <3> QED BY <1>2, <3>1, <3>2
  <2>3. InOrder(shown) /\ \A i \in DOMAIN shown : shown[i].n <= bounds.notes
    BY DEF Messages, Order
  <2>4. shown' = shown /\ bounds' = bounds
    OBVIOUS
  <2> QED BY <2>1, <2>2, <2>3, <2>4 DEF Order, InOrder, Before
<1>7. Notes(<<>>) = {}
  BY <1>5 DEF Notes
<1>8. InFlight' = InFlight \cup (IF drained THEN Notes(buffer) ELSE {})
  <2>1. InFlight' = UNION {Notes(answers'[i].value) :
                             i \in {j \in DOMAIN results' : IsDrained(j)'}}
    BY DEF InFlight, Carried, IsDrained, Drains
  <2>2. ASSUME NEW n \in InFlight'
        PROVE  n \in InFlight \/ (drained /\ n \in Notes(buffer))
    <3>1. PICK i \in DOMAIN results' : IsDrained(i)' /\ n \in Notes(answers'[i].value)
      BY <2>1, <2>2
    <3>2. CASE i \in DOMAIN results
      BY <1>1, <1>3, <3>1, <3>2, InFlightIs
    <3>3. CASE i = last
      BY <1>1, <1>3, <1>4, <3>1, <3>3
    <3> QED BY <1>2, <3>1, <3>2, <3>3
  <2>3. ASSUME NEW n \in InFlight
        PROVE  n \in InFlight'
    <3>1. PICK i \in DOMAIN results : IsDrained(i) /\ n \in Notes(answers[i].value)
      BY <2>3, InFlightIs
    <3>2. i \in DOMAIN results' /\ IsDrained(i)' /\ n \in Notes(answers'[i].value)
      BY <1>1, <1>2, <1>3, <3>1
    <3> QED BY <2>1, <3>2
  <2>4. ASSUME drained, NEW n \in Notes(buffer)
        PROVE  n \in InFlight'
    <3>1. last \in DOMAIN results' /\ IsDrained(last)' /\ n \in Notes(answers'[last].value)
      BY <1>1, <1>2, <1>3, <1>4, <2>4
    <3> QED BY <2>1, <3>1
  <2> QED BY <2>2, <2>3, <2>4
<1>9. Logged' = Logged
  BY DEF Logged
<1>10. Notes(buffer') \cup InFlight' = Notes(buffer) \cup InFlight
  BY <1>4, <1>7, <1>8
<1>11. Placed'
  BY <1>9, <1>10 DEF Messages, Placed
<1> QED BY <1>6, <1>11 DEF Messages

\* What a callback adds to the logs: the messages that its task drained.
LEMMA ShownIs ==
  ASSUME Types, AnswersFit, results # <<>>, Head(answers).ok
  PROVE  LET e == ShownBy(Head(results).button, Head(answers).value)
             value == answers[1].value IN
         /\ e \in Seq(Entries)
         /\ ~IsDrained(1) => e = <<>>
         /\ IsDrained(1) =>
              /\ DOMAIN e = DOMAIN value
              /\ \A i \in DOMAIN e :
                   /\ e[i].n = value[i].n /\ e[i].about = value[i].about
                   /\ value[i].about \in Panels => e[i].logged
<1> DEFINE b == Head(results).button
           value == answers[1].value
           entry(i) == [n |-> value[i].n, about |-> value[i].about,
                        logged |-> b = "messages" \/ IsNotification(value[i].about)]
<1>1. /\ 1 \in DOMAIN results /\ Head(results) = results[1] /\ Head(answers) = answers[1]
  <2>1. results \in Seq(Jobs) /\ answers \in Seq(Answers) /\ DOMAIN answers = DOMAIN results
    BY DEF Types
  <2> HIDE DEF Jobs, Answers
  <2>2. 1 \in DOMAIN results /\ Head(results) = results[1]
    BY <2>1, TailElements
  <2>3. answers # <<>>
    <3>1. DOMAIN <<>> = {}
      OBVIOUS
    <3> QED BY <2>1, <2>2, <3>1
  <2>4. Head(answers) = answers[1]
    BY <2>1, <2>3, TailElements
  <2> QED BY <2>2, <2>4
<1>2. IsDrained(1) <=> b \in Drains
  BY <1>1 DEF IsDrained
<1>3. CASE b \notin Drains
  <2>1. ShownBy(b, Head(answers).value) = <<>>
    BY <1>3 DEF ShownBy, Drains
  <2>2. <<>> \in Seq(Entries)
    OBVIOUS
  <2> HIDE DEF b
  <2> QED BY <1>2, <1>3, <2>1, <2>2 DEF b
<1>4. CASE b \in Drains
  <2>1. value \in Seq(Items)
    BY <1>1, <1>4 DEF AnswersFit, ValueFits
  <2>2. Len(value) \in Nat /\ DOMAIN value = 1 .. Len(value)
        /\ \A i \in DOMAIN value : value[i] \in Items
    <3> HIDE DEF value, Items
    <3> QED BY <2>1, LenProperties
  <2>3. ShownBy(b, Head(answers).value) = [i \in DOMAIN value |-> entry(i)]
    BY <1>1, <1>4 DEF ShownBy, Drains
  <2>4. \A i \in DOMAIN value : entry(i) \in Entries
    <3>1. ASSUME NEW i \in DOMAIN value
          PROVE  entry(i) \in Entries
      <4>1. value[i] \in Items
        BY <2>2
      <4>2. value[i].n \in Nat /\ value[i].about \in Panels \cup {"other"}
        BY <4>1 DEF Items
      <4>3. (b = "messages" \/ IsNotification(value[i].about)) \in BOOLEAN
        OBVIOUS
      <4> HIDE DEF b, value
      <4> QED BY <4>2, <4>3 DEF Entries
    <3> QED BY <3>1
  <2>5. \A i \in DOMAIN value : /\ entry(i).n = value[i].n /\ entry(i).about = value[i].about
                                /\ value[i].about \in Panels => entry(i).logged
    BY DEF IsNotification
  <2> DEFINE e == [i \in DOMAIN value |-> entry(i)]
  <2> HIDE DEF entry
  <2>6. DOMAIN e = DOMAIN value /\ \A i \in DOMAIN e : e[i] = entry(i)
    OBVIOUS
  <2>7. e \in Seq(Entries)
    <3>1. e \in [1 .. Len(value) -> Entries]
      BY <2>2, <2>4
    <3> HIDE DEF e
    <3> QED BY <2>2, <3>1, SeqDef
  <2>8. e = ShownBy(Head(results).button, Head(answers).value)
    BY <2>3
  <2> HIDE DEF e, value
  <2>9. \A i \in DOMAIN e : /\ e[i].n = value[i].n /\ e[i].about = value[i].about
                            /\ value[i].about \in Panels => e[i].logged
    BY <2>5, <2>6
  <2>10. IsDrained(1)
    BY <1>2, <1>4
  <2> QED BY <2>6, <2>7, <2>8, <2>9, <2>10 DEF value
<1> QED BY <1>3, <1>4

LEMMA MessagesShown ==
  ASSUME Types, AnswersFit, Messages, results # <<>>,
         results' = Tail(results), answers' = Tail(answers),
         UNCHANGED <<buffer, posted, gone, bounds>>,
         NEW e \in Seq(Entries), shown' = shown \o e,
         ~IsDrained(1) => e = <<>>,
         LET value == answers[1].value IN
         IsDrained(1) =>
           /\ DOMAIN e = DOMAIN value
           /\ \A i \in DOMAIN e :
                /\ e[i].n = value[i].n /\ e[i].about = value[i].about
                /\ value[i].about \in Panels => e[i].logged
  PROVE  Messages' /\ shown' \in Seq(Entries)
<1>1. /\ 1 \in DOMAIN results /\ DOMAIN results \subseteq Nat \ {0}
      /\ \A i \in DOMAIN results' :
           /\ i \in Nat \ {0} /\ i + 1 \in DOMAIN results
           /\ results'[i] = results[i + 1] /\ answers'[i] = answers[i + 1]
      /\ \A i \in DOMAIN results :
           \/ i = 1
           \/ \E j \in DOMAIN results' :
                i = j + 1 /\ results'[j] = results[i] /\ answers'[j] = answers[i]
  BY Called
<1>2. DOMAIN <<>> = {}
  OBVIOUS
<1>3. ASSUME NEW i \in DOMAIN results'
      PROVE  IsDrained(i)' <=> IsDrained(i + 1)
  BY <1>1 DEF IsDrained
<1>4. /\ shown' \in Seq(Entries)
      /\ Len(shown) \in Nat /\ DOMAIN shown = 1 .. Len(shown) /\ DOMAIN e \subseteq Nat \ {0}
      /\ \A i \in DOMAIN shown : i \in DOMAIN shown' /\ shown'[i] = shown[i]
      /\ \A i \in DOMAIN e : \E j \in DOMAIN shown' : j = Len(shown) + i /\ shown'[j] = e[i]
      /\ \A j \in DOMAIN shown' :
           \/ j \in DOMAIN shown
           \/ \E i \in DOMAIN e : j = Len(shown) + i /\ shown'[j] = e[i]
  <2>1. shown \in Seq(Entries)
    BY DEF Types
  <2>2. shown' = shown \o e
    OBVIOUS
  <2> HIDE DEF Entries
  <2> QED BY <2>1, <2>2, ConcatElements
<1>5. /\ InOrder(e) /\ Before(shown, e) /\ Before(e, buffer)
      /\ \A i \in DOMAIN e : e[i].n <= bounds.notes
      /\ \A j \in DOMAIN results : 1 < j /\ IsDrained(j) => Before(e, answers[j].value)
  <2>1. CASE IsDrained(1)
    <3> DEFINE value == answers[1].value
    <3>1. DOMAIN e = DOMAIN value /\ \A i \in DOMAIN e : e[i].n = value[i].n
      BY <2>1
    <3>2. /\ InOrder(value) /\ Before(shown, value) /\ Before(value, buffer)
          /\ \A k \in DOMAIN value : value[k].n <= bounds.notes
          /\ \A j \in DOMAIN results : 1 < j /\ IsDrained(j) => Before(value, answers[j].value)
      BY <1>1, <2>1 DEF Messages, Order
    <3> HIDE DEF value
    <3> QED BY <3>1, <3>2 DEF InOrder, Before
  <2>2. CASE ~IsDrained(1)
    BY <1>2, <2>2 DEF InOrder, Before
  <2> QED BY <2>1, <2>2
<1>6. InOrder(shown')
  <2>1. ASSUME NEW i \in DOMAIN shown', NEW j \in DOMAIN shown', i < j
        PROVE  shown'[i].n < shown'[j].n
    <3>1. CASE j \in DOMAIN shown
      <4>1. i \in DOMAIN shown
        BY <1>4, <2>1, <3>1
      <4> QED BY <1>4, <2>1, <3>1, <4>1 DEF Messages, Order, InOrder
    <3>2. CASE j \notin DOMAIN shown
      <4>1. PICK k \in DOMAIN e : j = Len(shown) + k /\ shown'[j] = e[k]
        BY <1>4, <3>2
      <4>2. CASE i \in DOMAIN shown
        BY <1>4, <1>5, <4>1, <4>2 DEF Before
      <4>3. CASE i \notin DOMAIN shown
        <5>1. PICK h \in DOMAIN e : i = Len(shown) + h /\ shown'[i] = e[h]
          BY <1>4, <4>3
        <5>2. h < k
          BY <1>4, <2>1, <4>1, <5>1
        <5> QED BY <1>5, <4>1, <5>1, <5>2 DEF InOrder
      <4> QED BY <4>2, <4>3
    <3> QED BY <3>1, <3>2
  <2> QED BY <2>1 DEF InOrder
<1>7. \A i \in DOMAIN shown' :
        \/ i \in DOMAIN shown /\ shown'[i] = shown[i]
        \/ \E j \in DOMAIN e : shown'[i] = e[j]
  BY <1>4
<1>8. ASSUME NEW s, Before(shown, s), Before(e, s)
      PROVE  Before(shown', s)
  BY <1>7, <1>8 DEF Before
<1>9. Order'
  <2>1. Before(shown', buffer) /\ InOrder(buffer)
        /\ \A i \in DOMAIN buffer : buffer[i].n <= bounds.notes
    BY <1>5, <1>8 DEF Messages, Order
  <2>2. \A i \in DOMAIN shown' : shown'[i].n <= bounds.notes
    BY <1>5, <1>7 DEF Messages, Order
  <2>3. ASSUME NEW i \in DOMAIN results', IsDrained(i)'
        PROVE  LET value == answers'[i].value IN
               /\ InOrder(value) /\ Before(shown', value) /\ Before(value, buffer)
               /\ \A k \in DOMAIN value : value[k].n <= bounds.notes
               /\ \A j \in DOMAIN results' : i < j /\ IsDrained(j)' =>
                    Before(value, answers'[j].value)
    <3>1. /\ i \in Nat /\ 1 < i + 1 /\ i + 1 \in DOMAIN results /\ IsDrained(i + 1)
          /\ answers'[i] = answers[i + 1]
      <4>1. i \in Nat \ {0} /\ i + 1 \in DOMAIN results /\ answers'[i] = answers[i + 1]
        BY <1>1
      <4>2. IsDrained(i + 1)
        BY <1>3, <2>3
      <4>3. i \in Nat /\ 1 < i + 1
        BY <4>1
      <4> QED BY <4>1, <4>2, <4>3, Zenon
    <3>2. LET value == answers[i + 1].value IN
          /\ InOrder(value) /\ Before(shown, value) /\ Before(value, buffer)
          /\ \A k \in DOMAIN value : value[k].n <= bounds.notes
          /\ \A j \in DOMAIN results : i + 1 < j /\ IsDrained(j) =>
               Before(value, answers[j].value)
      BY <3>1 DEF Messages, Order
    <3>3. Before(shown', answers[i + 1].value)
      BY <1>5, <1>8, <3>1, <3>2
    <3>4. ASSUME NEW j \in DOMAIN results', i < j, IsDrained(j)'
          PROVE  Before(answers[i + 1].value, answers'[j].value)
      <4>1. /\ j \in Nat /\ j + 1 \in DOMAIN results /\ IsDrained(j + 1)
            /\ answers'[j] = answers[j + 1]
        BY <1>1, <1>3, <3>4
      <4>2. i + 1 < j + 1
        BY <3>1, <3>4, <4>1
      <4> QED BY <3>2, <4>1, <4>2
    <3> QED BY <3>1, <3>2, <3>3, <3>4
  <2>4. buffer' = buffer /\ bounds' = bounds
    OBVIOUS
  <2>5. InOrder(buffer') /\ InOrder(shown') /\ Before(shown', buffer')
    BY <1>6, <2>1, <2>4
  <2>6. /\ \A i \in DOMAIN buffer' : buffer'[i].n <= bounds'.notes
        /\ \A i \in DOMAIN shown' : shown'[i].n <= bounds'.notes
    BY <2>1, <2>2, <2>4
  <2>7. \A i \in DOMAIN results' : IsDrained(i)' =>
          LET value == answers'[i].value IN
          /\ InOrder(value) /\ Before(shown', value) /\ Before(value, buffer')
          /\ \A k \in DOMAIN value : value[k].n <= bounds'.notes
          /\ \A j \in DOMAIN results' : i < j /\ IsDrained(j)' => Before(value, answers'[j].value)
    BY <2>3, <2>4
  <2> QED BY <2>5, <2>6, <2>7 DEF Order, InOrder, Before
<1> DEFINE carried == IF IsDrained(1) THEN Notes(answers[1].value) ELSE {}
<1>10. InFlight = InFlight' \cup carried
  <2>1. InFlight' = UNION {Notes(answers'[i].value) :
                             i \in {j \in DOMAIN results' : IsDrained(j)'}}
    BY DEF InFlight, Carried, IsDrained, Drains
  <2>2. ASSUME NEW n \in InFlight'
        PROVE  n \in InFlight
    <3>1. PICK i \in DOMAIN results' : IsDrained(i)' /\ n \in Notes(answers'[i].value)
      BY <2>1, <2>2
    <3>2. i + 1 \in DOMAIN results /\ IsDrained(i + 1) /\ n \in Notes(answers[i + 1].value)
      BY <1>1, <1>3, <3>1
    <3> QED BY <3>2, InFlightIs
  <2>3. ASSUME NEW n \in InFlight
        PROVE  n \in InFlight' \/ n \in carried
    <3>1. PICK i \in DOMAIN results : IsDrained(i) /\ n \in Notes(answers[i].value)
      BY <2>3, InFlightIs
    <3>2. CASE i = 1
      BY <3>1, <3>2
    <3>3. CASE i # 1
      <4>1. PICK j \in DOMAIN results' :
              i = j + 1 /\ results'[j] = results[i] /\ answers'[j] = answers[i]
        BY <1>1, <3>3
      <4>2. IsDrained(j)' /\ n \in Notes(answers'[j].value)
        BY <1>3, <3>1, <4>1
      <4> QED BY <2>1, <4>2
    <3> QED BY <3>2, <3>3
  <2>4. carried \subseteq InFlight
    BY <1>1, InFlightIs
  <2> HIDE DEF carried
  <2> QED BY <2>2, <2>3, <2>4
<1>11. ASSUME NEW i \in DOMAIN e
       PROVE  /\ IsDrained(1) /\ i \in DOMAIN answers[1].value
              /\ e[i].n = answers[1].value[i].n /\ e[i].about = answers[1].value[i].about
              /\ e[i].about \in Panels => e[i].logged
  BY <1>2
<1>12. Logged' = Logged \cup carried
  <2>1. ASSUME NEW n \in Logged'
        PROVE  n \in Logged \/ n \in carried
    <3>1. PICK i \in DOMAIN shown' :
            shown'[i].logged /\ shown'[i].about \in Panels /\ n = shown'[i].n
      BY <2>1 DEF Logged
    <3>2. CASE i \in DOMAIN shown /\ shown'[i] = shown[i]
      BY <3>1, <3>2 DEF Logged
    <3>3. ASSUME NEW j \in DOMAIN e, shown'[i] = e[j]
          PROVE  n \in carried
      BY <1>11, <3>1, <3>3 DEF Notes
    <3> HIDE DEF carried
    <3> QED BY <1>7, <3>2, <3>3
  <2>2. ASSUME NEW n \in Logged
        PROVE  n \in Logged'
    BY <1>4, <2>2 DEF Logged
  <2>3. ASSUME NEW n \in carried
        PROVE  n \in Logged'
    <3>1. PICK i \in DOMAIN answers[1].value :
            answers[1].value[i].about \in Panels /\ n = answers[1].value[i].n
      BY <2>3 DEF Notes
    <3>2. i \in DOMAIN e /\ e[i].n = n /\ e[i].about \in Panels /\ e[i].logged
      BY <2>3, <3>1
    <3>3. PICK j \in DOMAIN shown' : shown'[j] = e[i]
      BY <1>4, <3>2
    <3> QED BY <3>2, <3>3 DEF Logged
  <2> HIDE DEF carried
  <2> QED BY <2>1, <2>2, <2>3
<1> HIDE DEF carried
<1>13. Placed'
  <2>1. \A i \in DOMAIN shown' : shown'[i].about \in Panels => shown'[i].logged
    BY <1>7, <1>11 DEF Messages, Placed
  <2> QED BY <1>10, <1>12, <2>1 DEF Messages, Placed
<1> QED BY <1>4, <1>9, <1>13 DEF Messages

-----------------------------------------------------------------------------
(* What the actions do.                                                    *)

LEMMA ValueIs ==
  ASSUME Types, NEW b
  PROVE  /\ Value(b) \in Seq(Items) \cup SUBSET Addresses
         /\ b \in Drains => Value(b) = buffer
         /\ \A p \in Panels : b = Lists[p] => Value(b) = points[p]
         /\ ValueFits(b, Value(b))
<1>1. buffer \in Seq(Items) /\ \A p \in Panels : points[p] \in SUBSET Addresses
  BY DEF Types
<1>2. b \in Drains => Value(b) = buffer
  BY DEF Value, Drains
<1>3. b = "bpList" => Value(b) = points["bp"]
  BY DEF Value
<1>4. b = "wpList" => Value(b) = points["wp"]
  BY DEF Value
<1>5. b \notin Drains \cup {"bpList", "wpList"} => Value(b) = <<>>
  BY DEF Value, Drains
<1>6. \A p \in Panels : b = Lists[p] => Value(b) = points[p]
  BY <1>3, <1>4 DEF Lists, Panels
<1>7. "bp" \in Panels /\ "wp" \in Panels /\ <<>> \in Seq(Items)
  BY DEF Panels
<1>8. Value(b) \in Seq(Items) \cup SUBSET Addresses
  BY <1>1, <1>2, <1>3, <1>4, <1>5, <1>7
<1>9. ValueFits(b, Value(b))
  BY <1>1, <1>2, <1>6 DEF ValueFits
<1> QED BY <1>2, <1>6, <1>8, <1>9

LEMMA PointsAre ==
  ASSUME Types, NEW b, NEW a \in Addresses, NEW p \in Panels
  PROVE  /\ PointsAfter(b, a, p) \in SUBSET Addresses
         /\ ~Changes(b, p) => PointsAfter(b, a, p) = points[p]
<1>1. points[p] \in SUBSET Addresses
  BY DEF Types
<1>2. PointsAfter(b, a, p) \in {points[p] \cup {a}, points[p] \ {a}, {}, points[p]}
  BY DEF PointsAfter
<1>3. ~Changes(b, p) => PointsAfter(b, a, p) = points[p]
  BY DEF PointsAfter, Changes
<1> QED BY <1>1, <1>2, <1>3

\* The tasks and buttons after a callback.
LEMMA CallbackIs ==
  ASSUME Types, results # <<>>, NEW b, NEW next, next = b \/ next \in Buttons,
         Callback(b, next)
  PROVE  LET enabled == disabled \ {b} IN
         /\ results' = Tail(results) /\ answers' = Tail(answers) /\ open /\ open' = open
         /\ disabled' \subseteq Buttons
         /\ \E batch \in Seq(Jobs) :
              /\ waiting' = waiting \o batch
              /\ \/ disabled' = enabled
                 \/ disabled' = enabled \cup {next} /\ Has(batch, next)
              /\ next # b /\ hasSession => Has(batch, next) \/ next \in enabled
<1> DEFINE enabled == disabled \ {b}
           batch == IF next = b THEN <<>> ELSE TasksOfClick(next, AnyAddress, enabled)
<1>1. /\ results' = Tail(results) /\ answers' = Tail(answers) /\ open /\ open' = open
      /\ waiting' = waiting \o batch
      /\ disabled' = IF next = b THEN enabled ELSE DisabledAfter(next, enabled)
  BY DEF Callback, Runner!Answer
<1>2. enabled \subseteq Buttons
  BY DEF Types
<1>3. AnyAddress \in Addresses
  <2>1. results \in Seq(Jobs)
    BY DEF Types
  <2>2. Head(results) \in Jobs
    <3> HIDE DEF Jobs
    <3> QED BY <2>1, TailElements
  <2>3. \E a : a \in Addresses
    BY <2>2 DEF Jobs
  <2> QED BY <2>3 DEF AnyAddress
<1>4. CASE next # b /\ CanClick(next, enabled)
  <2>1. next \in Buttons
    BY <1>4
  <2>2. batch = JobsOf(next, AnyAddress) /\ disabled' = enabled \cup {next}
    BY <1>1, <1>4 DEF TasksOfClick, DisabledAfter
  <2> HIDE DEF batch, enabled
  <2>3. batch \in Seq(Jobs) /\ Has(batch, next)
    BY <1>3, <2>1, <2>2, JobsOfClick DEF Has
  <2> QED BY <1>1, <1>2, <2>1, <2>2, <2>3 DEF enabled
<1>5. CASE next = b \/ ~CanClick(next, enabled)
  <2>1. batch = <<>> /\ disabled' = enabled
    BY <1>1, <1>5 DEF TasksOfClick, DisabledAfter
  <2>2. next # b /\ hasSession => next \in enabled
    BY <1>5 DEF CanClick
  <2>3. <<>> \in Seq(Jobs)
    OBVIOUS
  <2> HIDE DEF batch, enabled
  <2> QED BY <1>1, <1>2, <2>1, <2>2, <2>3 DEF enabled
<1> QED BY <1>4, <1>5

-----------------------------------------------------------------------------
(* Each action keeps the invariant.                                        *)

LEMMA EndsKeeps ==
  ASSUME DockInv, SessionEnds
  PROVE  DockInv'
<1>1. Types /\ AnswersFit /\ Current /\ Messages
  BY DEF DockInv, Current, Messages
<1>2. /\ UNCHANGED <<waiting, results, open, answers, disabled, table, bounds, posted, shown>>
      /\ points' = [p \in Panels |-> {}] /\ buffer' = <<>>
      /\ gone' = gone \cup Notes(buffer) /\ stale' = [p \in Panels |-> TRUE]
  BY DEF SessionEnds, taskVars
<1>3. Types'
  <2>1. gone' \subseteq 0 .. bounds.notes
    BY <1>1, <1>2, Apart DEF Messages, Types
  <2>2. <<>> \in Seq(Items)
    OBVIOUS
  <2>3. buffer' \in Seq(Items) /\ points' \in [Panels -> SUBSET Addresses]
        /\ stale' \in [Panels -> BOOLEAN]
    BY <1>2, <2>2
  <2> QED BY <1>1, <1>2, <2>1, <2>3 DEF Types
<1>4. Current'
  <2>1. UNCHANGED taskVars
    BY <1>2 DEF taskVars
  <2> QED BY <1>1, <1>2, <2>1, ShowFrame
<1>5. Messages'
  BY <1>1, <1>2, MessagesEnd
<1> QED BY <1>3, <1>4, <1>5 DEF DockInv, Current, Messages

\* The console or the death of the script changes the points of some panels.
LEMMA PointsKeep ==
  ASSUME DockInv, UNCHANGED <<taskVars, answers, disabled, table, buffer, bounds, posted,
                              shown, gone>>,
         points' \in [Panels -> SUBSET Addresses], stale' \in [Panels -> BOOLEAN],
         \A p \in Panels : ~stale'[p] => ~stale[p] /\ points'[p] = points[p]
  PROVE  DockInv'
<1>1. Types /\ Current /\ Messages
  BY DEF DockInv, Current, Messages
<1>2. UNCHANGED <<waiting, results, open>>
  BY DEF taskVars
<1>3. Types'
  BY <1>1, <1>2 DEF Types
<1>4. Current'
  BY <1>1, ShowFrame
<1>5. Messages'
  BY <1>1, <1>2, MessagesFrame
<1> QED BY <1>3, <1>4, <1>5 DEF DockInv, Current, Messages

LEMMA ConsoleChangesKeeps ==
  ASSUME DockInv, NEW q \in Panels, NEW a \in Addresses, ConsoleChanges(q, a)
  PROVE  DockInv'
<1>1. points \in [Panels -> SUBSET Addresses] /\ stale \in [Panels -> BOOLEAN]
  BY DEF DockInv, Types
<1>2. PICK b \in {Sets[q], Removes[q], RemoveAlls[q]} :
        points' = [points EXCEPT ![q] = PointsAfter(b, a, q)]
  BY DEF ConsoleChanges
<1>3. PointsAfter(b, a, q) \in SUBSET Addresses
  <2>1. PointsAfter(b, a, q) \in {points[q] \cup {a}, points[q] \ {a}, {}, points[q]}
    BY DEF PointsAfter
  <2> QED BY <1>1, <2>1
<1>4. stale' = [stale EXCEPT ![q] = TRUE]
  BY DEF ConsoleChanges
<1>5. points' \in [Panels -> SUBSET Addresses] /\ stale' \in [Panels -> BOOLEAN]
  BY <1>1, <1>2, <1>3, <1>4
<1>6. \A p \in Panels : ~stale'[p] => ~stale[p] /\ points'[p] = points[p]
  BY <1>1, <1>2, <1>4
<1>7. UNCHANGED <<taskVars, answers, disabled, table, buffer, bounds, posted, shown, gone>>
  BY DEF ConsoleChanges, widgetVars
<1> QED BY <1>5, <1>6, <1>7, PointsKeep

LEMMA ScriptDiesKeeps ==
  ASSUME DockInv, ScriptDies
  PROVE  DockInv'
<1>1. points' = [p \in Panels |-> {}] /\ stale' = [p \in Panels |-> TRUE]
  BY DEF ScriptDies
<1>2. UNCHANGED <<taskVars, answers, disabled, table, buffer, bounds, posted, shown, gone>>
  BY DEF ScriptDies, widgetVars
<1> QED BY <1>1, <1>2, PointsKeep

\* The console takes what is in the buffer.
LEMMA ConsoleDrainsKeeps ==
  ASSUME DockInv, ConsoleDrains
  PROVE  DockInv'
<1>1. Types /\ AnswersFit /\ Current /\ Messages
  BY DEF DockInv, Current, Messages
<1>2. /\ UNCHANGED <<waiting, results, open, answers, disabled, table, points, bounds, posted,
                     shown, stale>>
      /\ buffer' = <<>> /\ gone' = gone \cup Notes(buffer)
  BY DEF ConsoleDrains, taskVars, widgetVars
<1>3. Types'
  <2>1. gone' \subseteq 0 .. bounds.notes
    BY <1>1, <1>2, Apart DEF Messages, Types
  <2>2. <<>> \in Seq(Items)
    OBVIOUS
  <2> QED BY <1>1, <1>2, <2>1, <2>2 DEF Types
<1>4. Current'
  <2>1. UNCHANGED taskVars
    BY <1>2 DEF taskVars
  <2> QED BY <1>1, <1>2, <2>1, ShowFrame
<1>5. Messages'
  BY <1>1, <1>2, MessagesEnd
<1> QED BY <1>3, <1>4, <1>5 DEF DockInv, Current, Messages

\* The session is opened, or the dock looks at it.
LEMMA LookKeeps ==
  ASSUME DockInv, UNCHANGED <<taskVars, answers, disabled, table, points, buffer, history>>,
         bounds' \in [presses : Nat, notes : Nat, sessions : Nat],
         bounds'.notes = bounds.notes
  PROVE  DockInv'
<1>1. Types /\ Current /\ Messages
  BY DEF DockInv, Current, Messages
<1>2. UNCHANGED <<waiting, results, open, answers, disabled, table, points, buffer,
                  posted, shown, gone, stale>>
  BY DEF taskVars, history
<1>3. Types'
  BY <1>1, <1>2 DEF Types
<1>4. Current'
  BY <1>1, <1>2, ShowFrame
<1>5. Messages'
  BY <1>1, <1>2, MessagesFrame
<1> QED BY <1>3, <1>4, <1>5 DEF DockInv, Current, Messages

LEMMA MessageKeeps ==
  ASSUME DockInv, NEW about \in Panels \cup {"other"}, Message(about)
  PROVE  DockInv'
<1>1. Types /\ AnswersFit /\ Current /\ Messages
  BY DEF DockInv, Current, Messages
<1>2. UNCHANGED <<waiting, results, open, answers, disabled, table, points, shown, stale>>
  BY DEF Message, taskVars, widgetVars
<1>3. Messages' /\ buffer' \in Seq(Items) /\ gone' \subseteq 0 .. bounds'.notes
  BY <1>1, MessagesCome
<1>4. bounds' \in [presses : Nat, notes : Nat, sessions : Nat]
  <2>1. bounds' = [bounds EXCEPT !.notes = @ + 1]
    BY DEF Message
  <2>2. bounds \in [presses : Nat, notes : Nat, sessions : Nat]
    BY <1>1 DEF Types
  <2> QED BY <2>1, <2>2
<1>5. Types'
  BY <1>1, <1>2, <1>3, <1>4 DEF Types
<1>6. Current'
  <2>1. UNCHANGED taskVars
    BY <1>2 DEF taskVars
  <2> QED BY <1>1, <1>2, <2>1, ShowFrame
<1> QED BY <1>3, <1>5, <1>6 DEF DockInv, Current, Messages

LEMMA DestroyKeeps ==
  ASSUME DockInv, Destroy
  PROVE  DockInv'
<1>1. Types /\ AnswersFit /\ Current /\ Messages
  BY DEF DockInv, Current, Messages
<1>2. /\ UNCHANGED <<waiting, disabled, table, points, buffer, bounds, posted, shown, stale>>
      /\ waiting = <<>> /\ open' = FALSE /\ results' = <<>> /\ answers' = <<>>
      /\ gone' = gone \cup InFlight
  BY DEF Destroy, Runner!Close, widgetVars, agentVars
<1>3. <<>> \in Seq(Jobs) /\ <<>> \in Seq(Answers) /\ DOMAIN <<>> = {}
  OBVIOUS
<1>4. Types'
  <2>1. gone' \subseteq 0 .. bounds.notes
    BY <1>1, <1>2, Apart DEF Messages, Types
  <2>2. results' \in Seq(Jobs) /\ answers' \in Seq(Answers) /\ DOMAIN answers' = DOMAIN results'
    BY <1>2, <1>3
  <2> QED BY <1>1, <1>2, <2>1, <2>2 DEF Types
<1>5. Current'
  BY <1>2, <1>3 DEF Current, Closed, AnswersFit, WillEnable, WillShow
<1>6. Messages'
  BY <1>1, <1>2, MessagesDestroyed
<1> QED BY <1>4, <1>5, <1>6 DEF DockInv, Current, Messages

LEMMA PressKeeps ==
  ASSUME DockInv, NEW b \in Pressed, NEW a \in Addresses, Press(b, a)
  PROVE  DockInv'
<1>1. Types /\ Current /\ Messages
  BY DEF DockInv, Current, Messages
<1>2. b \in Buttons
  BY DockAssumption
<1> DEFINE batch == JobsOf(b, a)
<1>3. batch \in Seq(Jobs) /\ Has(batch, b)
  BY <1>2, JobsOfClick DEF Has
<1>4. /\ open /\ waiting' = waiting \o batch /\ disabled' = disabled \cup {b}
      /\ UNCHANGED <<results, open, answers, table, points, buffer, posted, shown, gone, stale>>
      /\ bounds' = [bounds EXCEPT !.presses = @ + 1]
  BY DEF Press, TasksOfClick, DisabledAfter, Runner!Hand, agentVars, history
<1> HIDE DEF batch
<1>5. Types'
  <2>1. bounds' \in [presses : Nat, notes : Nat, sessions : Nat] /\ bounds'.notes = bounds.notes
    <3>1. bounds \in [presses : Nat, notes : Nat, sessions : Nat]
      BY <1>1 DEF Types
    <3> QED BY <1>4, <3>1
  <2>2. waiting' \in Seq(Jobs)
    BY <1>1, <1>3, <1>4, HandedOver
  <2>3. disabled' \subseteq Buttons
    BY <1>1, <1>2, <1>4 DEF Types
  <2> QED BY <1>1, <1>4, <2>1, <2>2, <2>3 DEF Types
<1>6. Current'
  BY <1>1, <1>2, <1>3, <1>4, ShowPress
<1>7. Messages'
  <2>1. bounds'.notes = bounds.notes
    BY <1>1, <1>4 DEF Types
  <2> QED BY <1>1, <1>4, <2>1, MessagesFrame
<1> QED BY <1>5, <1>6, <1>7 DEF DockInv, Current, Messages

LEMMA ExecuteKeeps ==
  ASSUME DockInv, Execute
  PROVE  DockInv'
<1> DEFINE job == Head(waiting)
           b == job.button
           ans == [ok |-> TRUE, value |-> Value(b)]
<1>1. Types /\ AnswersFit /\ Current /\ Messages
  BY DEF DockInv, Current, Messages
<1>2. /\ Runner!Execute /\ answers' = Append(answers, ans)
      /\ points' = [p \in Panels |-> PointsAfter(b, job.address, p)]
      /\ buffer' = IF b \in Drains THEN <<>> ELSE buffer
      /\ stale' = [p \in Panels |-> IF b = Lists[p] THEN FALSE ELSE stale[p]]
      /\ UNCHANGED <<disabled, table, bounds, posted, shown, gone>>
  BY DEF Execute, widgetVars, Drains
<1>3. /\ ans \in Answers /\ ans.ok /\ ans.value = Value(b) /\ ValueFits(b, ans.value)
  BY <1>1, ValueIs DEF Answers
<1>4. /\ job \in Jobs /\ waiting' \in Seq(Jobs) /\ open' = open
      /\ results' \in Seq(Jobs) /\ answers' \in Seq(Answers) /\ DOMAIN answers' = DOMAIN results'
  <2> HIDE DEF ans, Jobs, Answers
  <2> QED BY <1>1, <1>2, <1>3, Ran
<1>5. job.address \in Addresses
  BY <1>4 DEF Jobs
<1>6. ASSUME NEW p \in Panels
      PROVE  /\ points'[p] \in SUBSET Addresses
             /\ ~Changes(b, p) => points'[p] = points[p]
  BY <1>1, <1>2, <1>5, PointsAre
<1> HIDE DEF ans, b, job
<1>7. Types'
  <2>1. buffer' \in Seq(Items)
    <3>1. <<>> \in Seq(Items)
      OBVIOUS
    <3> QED BY <1>1, <1>2, <3>1 DEF Types
  <2>2. points' \in [Panels -> SUBSET Addresses] /\ stale' \in [Panels -> BOOLEAN]
    <3>1. stale \in [Panels -> BOOLEAN]
      BY <1>1 DEF Types
    <3> QED BY <1>2, <1>6, <3>1
  <2> QED BY <1>1, <1>2, <1>4, <2>1, <2>2 DEF Types
<1>8. Current'
  <2>1. ASSUME NEW p \in Panels, ~stale'[p]
        PROVE  \/ /\ b = Lists[p] /\ ans.ok /\ ans.value = points[p] /\ points'[p] = points[p]
               \/ /\ b # Lists[p] /\ ~stale[p]
                  /\ points'[p] = points[p] \/ (Changes(b, p) /\ ans.ok)
    <3>1. b = Lists[p] => ~Changes(b, p)
      BY PanelFacts
    <3>2. b = Lists[p] => Value(b) = points[p]
      BY <1>1, ValueIs
    <3>3. b # Lists[p] => ~stale[p]
      BY <1>2, <2>1
    <3> QED BY <1>3, <1>6, <3>1, <3>2, <3>3
  <2> QED BY <1>1, <1>2, <1>3, <2>1, ShowExecute DEF b, job
<1>9. Messages'
  <2>1. b \in Drains => ans.value = buffer
    BY <1>1, <1>3, ValueIs
  <2> QED BY <1>1, <1>2, <1>3, <2>1, MessagesRun DEF b, job
<1> QED BY <1>7, <1>8, <1>9 DEF DockInv, Current, Messages

LEMMA ExecuteFailsKeeps ==
  ASSUME DockInv, ExecuteFails
  PROVE  DockInv'
<1> DEFINE job == Head(waiting)
           b == job.button
           ans == [ok |-> FALSE, value |-> <<>>]
<1>1. Types /\ AnswersFit /\ Current /\ Messages
  BY DEF DockInv, Current, Messages
<1>2. /\ Runner!Execute /\ answers' = Append(answers, ans)
      /\ \/ points' = points
         \/ points' = [p \in Panels |-> PointsAfter(b, job.address, p)]
      /\ stale' = [p \in Panels |-> stale[p] \/ Changes(b, p) \/ b = Lists[p]]
      /\ UNCHANGED <<disabled, table, buffer, bounds, posted, shown, gone>>
  BY DEF ExecuteFails, widgetVars
<1>3. ans \in Answers /\ ~ans.ok
  <2>1. <<>> \in Seq(Items)
    OBVIOUS
  <2> QED BY <2>1 DEF Answers
<1>4. /\ job \in Jobs /\ waiting' \in Seq(Jobs) /\ open' = open
      /\ results' \in Seq(Jobs) /\ answers' \in Seq(Answers) /\ DOMAIN answers' = DOMAIN results'
  <2> HIDE DEF ans, Jobs, Answers
  <2> QED BY <1>1, <1>2, <1>3, Ran
<1>5. job.address \in Addresses
  BY <1>4 DEF Jobs
<1>6. ASSUME NEW p \in Panels
      PROVE  /\ points'[p] \in SUBSET Addresses
             /\ ~Changes(b, p) => points'[p] = points[p]
  <2>1. points \in [Panels -> SUBSET Addresses]
    BY <1>1 DEF Types
  <2>2. /\ PointsAfter(b, job.address, p) \in SUBSET Addresses
        /\ ~Changes(b, p) => PointsAfter(b, job.address, p) = points[p]
    BY <1>1, <1>5, PointsAre
  <2>3. points'[p] = points[p] \/ points'[p] = PointsAfter(b, job.address, p)
    BY <1>2
  <2>4. points[p] \in SUBSET Addresses
    BY <2>1
  <2> QED BY <2>2, <2>3, <2>4
<1> HIDE DEF ans, b, job
<1>7. Types'
  <2>1. points \in [Panels -> SUBSET Addresses] /\ stale \in [Panels -> BOOLEAN]
    BY <1>1 DEF Types
  <2>2. points' \in [Panels -> SUBSET Addresses]
    BY <1>2, <1>6, <2>1
  <2>3. stale' \in [Panels -> BOOLEAN]
    BY <1>2, <2>1, Zenon
  <2> QED BY <1>1, <1>2, <1>4, <2>2, <2>3 DEF Types
<1>8. Current'
  <2>1. ASSUME NEW p \in Panels, ~stale'[p]
        PROVE  b # Lists[p] /\ ~stale[p] /\ points'[p] = points[p]
    BY <1>2, <1>6, <2>1
  <2> QED BY <1>1, <1>2, <1>3, <2>1, ShowExecute DEF b, job
<1>9. Messages'
  BY <1>1, <1>2, <1>3, MessagesRun
<1> QED BY <1>7, <1>8, <1>9 DEF DockInv, Current, Messages

LEMMA AnsweredKeeps ==
  ASSUME DockInv, Answered
  PROVE  DockInv'
<1> DEFINE b == Head(results).button
           next == Clicked(b)
           value == Head(answers).value
           e == ShownBy(b, value)
           enabled == disabled \ {b}
<1>1. Types /\ AnswersFit /\ Current /\ Messages
  BY DEF DockInv, Current, Messages
<1>2. /\ results # <<>> /\ Head(answers).ok /\ Callback(b, next)
      /\ table' = [p \in Panels |-> IF b = Lists[p] THEN value ELSE table[p]]
      /\ shown' = shown \o e
      /\ stale' = [p \in Panels |-> stale[p] \/ (Changes(b, p) /\ ~hasSession)]
      /\ UNCHANGED <<points, buffer, bounds, posted, gone>>
  BY DEF Answered, agentVars
<1>3. next = b \/ next \in Buttons
  BY ClickedIsButton
<1> HIDE DEF next
<1>4. /\ results' = Tail(results) /\ answers' = Tail(answers) /\ open /\ open' = open
      /\ disabled' \subseteq Buttons
      /\ \E batch \in Seq(Jobs) :
           /\ waiting' = waiting \o batch
           /\ \/ disabled' = enabled
              \/ disabled' = enabled \cup {next} /\ Has(batch, next)
           /\ next # b /\ hasSession => Has(batch, next) \/ next \in enabled
  <2> HIDE DEF b
  <2>1. LET en == disabled \ {b} IN
        /\ results' = Tail(results) /\ answers' = Tail(answers) /\ open /\ open' = open
        /\ disabled' \subseteq Buttons
        /\ \E batch \in Seq(Jobs) :
             /\ waiting' = waiting \o batch
             /\ \/ disabled' = en
                \/ disabled' = en \cup {next} /\ Has(batch, next)
             /\ next # b /\ hasSession => Has(batch, next) \/ next \in en
    BY <1>1, <1>2, <1>3, CallbackIs
  <2> QED BY <2>1
<1>5. PICK batch \in Seq(Jobs) :
        /\ waiting' = waiting \o batch
        /\ \/ disabled' = enabled
           \/ disabled' = enabled \cup {next} /\ Has(batch, next)
        /\ next # b /\ hasSession => Has(batch, next) \/ next \in enabled
  BY <1>4
<1>6. /\ e \in Seq(Entries)
      /\ ~IsDrained(1) => e = <<>>
      /\ LET drained == answers[1].value IN
         IsDrained(1) =>
           /\ DOMAIN e = DOMAIN drained
           /\ \A i \in DOMAIN e :
                /\ e[i].n = drained[i].n /\ e[i].about = drained[i].about
                /\ drained[i].about \in Panels => e[i].logged
  BY <1>1, <1>2, ShownIs
<1>7. /\ results' \in Seq(Jobs) /\ answers' \in Seq(Answers) /\ DOMAIN answers' = DOMAIN results'
      /\ 1 \in DOMAIN results /\ Head(results) = results[1] /\ Head(answers) = answers[1]
  BY <1>1, <1>2, <1>4, Called
<1> HIDE DEF e
<1>8. Messages' /\ shown' \in Seq(Entries)
  BY <1>1, <1>2, <1>4, <1>6, MessagesShown
<1>9. waiting' \in Seq(Jobs)
  BY <1>1, <1>5, HandedOver
<1>10. /\ table \in [Panels -> SUBSET Addresses] /\ stale \in [Panels -> BOOLEAN]
       /\ points \in [Panels -> SUBSET Addresses]
  BY <1>1 DEF Types
<1>11. \A p \in Panels : b = Lists[p] => value \in SUBSET Addresses
  BY <1>1, <1>2, <1>7 DEF AnswersFit, ValueFits
<1> HIDE DEF b, value, enabled
<1>12. Types'
  <2>1. table' \in [Panels -> SUBSET Addresses]
    BY <1>2, <1>10, <1>11
  <2>2. stale' \in [Panels -> BOOLEAN]
    BY <1>2, Zenon
  <2> QED BY <1>1, <1>2, <1>4, <1>7, <1>8, <1>9, <2>1, <2>2 DEF Types
<1>13. Current'
  <2>1. ASSUME NEW p \in Panels, ~stale'[p]
        PROVE  /\ ~stale[p]
               /\ table'[p] = IF b = Lists[p] /\ Head(answers).ok THEN value ELSE table[p]
               /\ Changes(b, p) /\ Head(answers).ok =>
                    Has(batch, Lists[p]) \/ Lists[p] \in enabled
    <3>1. ~stale[p] /\ ~(Changes(b, p) /\ ~hasSession)
      BY <1>2, <2>1
    <3>2. Changes(b, p) => next = Lists[p] /\ b # Lists[p]
      BY PanelFacts DEF next
    <3> QED BY <1>2, <1>5, <3>1, <3>2
  <2>2. /\ \/ disabled' = enabled
           \/ disabled' = enabled \cup {next} /\ Has(batch, next)
    BY <1>5
  <2> QED BY <1>1, <1>2, <1>4, <1>5, <2>1, <2>2, ShowCallback DEF b, value, enabled
<1> QED BY <1>8, <1>12, <1>13 DEF DockInv, Current, Messages

LEMMA RefusedKeeps ==
  ASSUME DockInv, Refused
  PROVE  DockInv'
<1> DEFINE b == Head(results).button
           enabled == disabled \ {b}
<1>1. Types /\ AnswersFit /\ Current /\ Messages
  BY DEF DockInv, Current, Messages
<1>2. /\ results # <<>> /\ ~Head(answers).ok /\ Callback(b, b)
      /\ UNCHANGED <<table, points, buffer, bounds, posted, shown, gone, stale>>
  BY DEF Refused, agentVars, history
<1>3. /\ results' = Tail(results) /\ answers' = Tail(answers) /\ open /\ open' = open
      /\ disabled' \subseteq Buttons
  BY <1>1, <1>2, CallbackIs
<1>4. waiting' = waiting \o <<>> /\ disabled' = enabled
  BY <1>2 DEF Callback, Runner!Answer
<1>5. /\ results' \in Seq(Jobs) /\ answers' \in Seq(Answers) /\ DOMAIN answers' = DOMAIN results'
      /\ Head(answers) = answers[1]
  BY <1>1, <1>2, <1>3, Called
<1>6. <<>> \in Seq(Jobs) /\ <<>> \in Seq(Entries) /\ DOMAIN <<>> = {}
  OBVIOUS
<1>7. ~IsDrained(1)
  BY <1>2, <1>5 DEF IsDrained
<1>8. Messages'
  <2>1. shown' = shown \o <<>>
    <3>1. shown \in Seq(Entries)
      BY <1>1 DEF Types
    <3> HIDE DEF Entries
    <3>2. shown \o <<>> = shown
      BY <3>1, ConcatEmptySeq
    <3> QED BY <1>2, <3>2
  <2> QED BY <1>1, <1>2, <1>3, <1>6, <1>7, <2>1, MessagesShown
<1>9. waiting' \in Seq(Jobs)
  BY <1>1, <1>4, <1>6, HandedOver
<1>10. Types'
  BY <1>1, <1>2, <1>3, <1>5, <1>9 DEF Types
<1> HIDE DEF b, enabled
<1>11. Current'
  BY <1>1, <1>2, <1>3, <1>4, <1>6, ShowCallback DEF b, enabled
<1> QED BY <1>8, <1>10, <1>11 DEF DockInv, Current, Messages

-----------------------------------------------------------------------------
(* The theorems.                                                           *)

LEMMA DockInit == Init => DockInv
<1> SUFFICES ASSUME Init PROVE DockInv
  OBVIOUS
<1>1. /\ waiting = <<>> /\ results = <<>> /\ open = TRUE /\ answers = <<>>
      /\ disabled = {} /\ table = [p \in Panels |-> {}]
      /\ points = [p \in Panels |-> {}] /\ buffer = <<>>
      /\ bounds = [presses |-> 0, notes |-> 0, sessions |-> 0]
      /\ posted = {} /\ shown = <<>> /\ gone = {} /\ stale = [p \in Panels |-> FALSE]
  BY DEF Init, Runner!TasksInit
<1>2. DOMAIN <<>> = {} /\ \A S : <<>> \in Seq(S)
  OBVIOUS
<1>3. Types
  BY <1>1, <1>2 DEF Types
<1>4. Closed /\ AnswersFit /\ WillEnable /\ WillShow
  BY <1>1, <1>2 DEF Closed, AnswersFit, WillEnable, WillShow, Has
<1>5. Order
  BY <1>1, <1>2 DEF Order, InOrder, Before
<1>6. Placed
  <2>1. Notes(buffer) = {} /\ InFlight = {} /\ Logged = {}
    BY <1>1, <1>2 DEF Notes, InFlight, Logged
  <2> QED BY <1>1, <1>2, <2>1 DEF Placed
<1> QED BY <1>3, <1>4, <1>5, <1>6 DEF DockInv

LEMMA DockStep == DockInv /\ [Next]_vars => DockInv'
<1> SUFFICES ASSUME DockInv, [Next]_vars PROVE DockInv'
  OBVIOUS
<1>0. bounds \in [presses : Nat, notes : Nat, sessions : Nat]
  BY DEF DockInv, Types
<1>1. ASSUME NEW about \in Panels \cup {"other"}, Message(about) PROVE DockInv'
  BY <1>1, MessageKeeps
<1>2. CASE ConsoleCloses
  BY <1>2, EndsKeeps DEF ConsoleCloses
<1>13. ASSUME NEW p \in Panels, NEW a \in Addresses, ConsoleChanges(p, a) PROVE DockInv'
  BY <1>13, ConsoleChangesKeeps
<1>14. CASE ConsoleDrains
  BY <1>14, ConsoleDrainsKeeps
<1>15. CASE ScriptDies
  BY <1>15, ScriptDiesKeeps
<1>3. CASE Disconnect
  <2>1. CASE session
    BY <1>3, <2>1, EndsKeeps DEF Disconnect
  <2>2. CASE ~session
    <3>1. UNCHANGED <<taskVars, answers, disabled, table, points, buffer, bounds, history>>
      BY <1>3, <2>2 DEF Disconnect, agentVars
    <3> QED BY <1>0, <3>1, LookKeeps
  <2> QED BY <2>1, <2>2
<1>4. CASE SessionOpens
  <2>1. UNCHANGED <<taskVars, answers, disabled, table, points, buffer, history>>
    BY <1>4 DEF SessionOpens, widgetVars
  <2>2. /\ bounds' \in [presses : Nat, notes : Nat, sessions : Nat]
        /\ bounds'.notes = bounds.notes
    BY <1>0, <1>4 DEF SessionOpens
  <2> QED BY <2>1, <2>2, LookKeeps
<1>5. CASE RefreshAll
  <2>1. UNCHANGED <<taskVars, answers, disabled, table, points, buffer, bounds, history>>
    BY <1>5 DEF RefreshAll, agentVars
  <2> QED BY <1>0, <2>1, LookKeeps
<1>6. CASE Destroy
  BY <1>6, DestroyKeeps
<1>7. ASSUME NEW b \in Pressed, NEW a \in Addresses, Press(b, a) PROVE DockInv'
  BY <1>7, PressKeeps
<1>8. CASE Execute
  BY <1>8, ExecuteKeeps
<1>9. CASE ExecuteFails
  BY <1>9, ExecuteFailsKeeps
<1>10. CASE Answered
  BY <1>10, AnsweredKeeps
<1>11. CASE Refused
  BY <1>11, RefusedKeeps
<1>12. CASE UNCHANGED vars
  <2>1. UNCHANGED <<taskVars, answers, disabled, table, points, buffer, bounds, history>>
    BY <1>12 DEF vars, widgetVars, agentVars
  <2> QED BY <1>0, <2>1, LookKeeps
<1> QED BY <1>1, <1>2, <1>3, <1>4, <1>5, <1>6, <1>7, <1>8, <1>9, <1>10, <1>11, <1>12, <1>13,
           <1>14, <1>15
        DEF Next

\* The inductive invariant, for any buttons pressed and any bounds.
THEOREM DockInvariant == Spec => []DockInv
<1>1. Init => DockInv
  BY DockInit
<1>2. DockInv /\ [Next]_vars => DockInv'
  BY DockStep
<1> QED BY <1>1, <1>2, PTL DEF Spec

\* Whichever tasks overlap, when none is left every button of the dock is
\* enabled and the tables show the agent's break- and watchpoints, unless since
\* the last list a call failed, the session changed, the dock took it for closed,
\* the script died or the console changed the points: a list asked for while the
\* one before is under way is lost only if that one still runs after the change.
THEOREM QuietShowsAll == Spec => []QuietDockIsCurrent
<1>1. DockInv => QuietDockIsCurrent
  <2> SUFFICES ASSUME DockInv, Quiet
               PROVE  /\ disabled = {}
                      /\ \A p \in Panels : ~stale[p] => table[p] = points[p]
    BY DEF QuietDockIsCurrent
  <2>1. DOMAIN <<>> = {}
    OBVIOUS
  <2>2. open /\ DOMAIN waiting = {} /\ DOMAIN results = {}
    BY <2>1 DEF Quiet
  <2>3. \A b : ~Has(waiting, b) /\ ~Has(results, b)
    BY <2>2 DEF Has
  <2>4. disabled = {}
    BY <2>2, <2>3 DEF DockInv, WillEnable
  <2>5. ASSUME NEW p \in Panels, ~stale[p]
        PROVE  table[p] = points[p]
    BY <2>2, <2>3, <2>5 DEF DockInv, WillShow, ChangeAfter
  <2> QED BY <2>4, <2>5
<1> QED BY <1>1, DockInvariant, PTL

\* A notification is in the buffer, on its way in a drained batch, in a log, or
\* lost with a full buffer, a session or the dock or to Frmj on the console, and in
\* one of these only; the logs have them in the order in which they came, whichever
\* button drained them, and however the console drains in between.
THEOREM NoNotificationLost == Spec => []NotificationsShown
<1>1. DockInv => NotificationsShown
  <2> SUFFICES ASSUME DockInv PROVE NotificationsShown
    OBVIOUS
  <2>1. \A i, j \in DOMAIN shown : i < j => shown[i].n < shown[j].n
    BY DEF DockInv, Order, InOrder
  <2>2. \A n \in Notes(buffer) \cup InFlight : n \notin gone \cup Logged
    BY Apart DEF DockInv, Placed
  <2>3. posted = Notes(buffer) \cup InFlight \cup gone \cup Logged
    BY DEF DockInv, Placed
  <2> QED BY <2>1, <2>2, <2>3 DEF NotificationsShown
<1> QED BY <1>1, DockInvariant, PTL

=============================================================================
