--------------------------- MODULE KeyboardProofs ---------------------------
(***************************************************************************)
(* Theorems about the keyboard driver: for any tables, any number of keys  *)
(* pressed, held and released, and bytes read however late.                *)
(***************************************************************************)
EXTENDS Keyboard, SequenceTheorems, TLAPS

Byte == [key : Keys \cup {"prefix"}, released : BOOLEAN]
Status == Modifiers \cup Toggles
Characters == Printing \X {"plain", "shifted"}

-----------------------------------------------------------------------------
(***************************************************************************)
(* What the driver would make of a byte in a status s                      *)
(***************************************************************************)

Printable(b) == ~b.released /\ b.key \in Printing

Switched(s, b) ==
  LET on     == {m \in Modifiers : ~b.released /\ b.key \in KeysOf(m)}
      off    == {m \in Modifiers : b.released /\ b.key \in KeysOf(m)}
      turned == {t \in Toggles : ~b.released /\ b.key = t}
  IN SymDiff((s \ off) \cup on, turned)

After(s, b) == IF Printable(b) THEN s ELSE Switched(s, b)

CharacterIn(s, k) ==
  IF ("SHIFT" \in s) # (k \in Letters /\ "CAPS_LOCK" \in s)
  THEN <<k, "shifted">> ELSE <<k, "plain">>

One(b) == IF Printable(b) THEN 1 ELSE 0

(***************************************************************************)
(* A course of the driver over n bytes p: f are its status and c its count *)
(* of characters, before the first byte and after each.  The characters    *)
(* are what the k presses ty may stand for.                                *)
(***************************************************************************)
Course(n, k, p, ty, f, c) ==
  /\ f \in [0 .. n -> SUBSET Status]
  /\ c \in [0 .. n -> Nat]
  /\ c[n] = k
  /\ \A i \in 1 .. n : f[i] = After(f[i - 1], p[i])
  /\ \A i \in 1 .. n : c[i] = c[i - 1] + One(p[i])
  /\ \A i \in 1 .. n :
       Printable(p[i]) => CharacterIn(f[i - 1], p[i].key) \in ty[c[i]]
  /\ \A i, j \in 0 .. n : i <= j => c[i] <= c[j]

\* The course the driver will take from where it is.
Foretold(p, ty, f, c) ==
  Course(Len(p), Len(ty), p, ty, f, c) /\ f[0] = status /\ c[0] = Len(printed)

\* A status that says of the user what the driver can know.
Agrees(s) ==
  /\ \A m \in Modifiers : m \in s => Held(m, down)
  /\ \A m \in Modifiers \ unsure : Held(m, down) => m \in s
  /\ "CAPS_LOCK" \notin unsure => (capsOn <=> "CAPS_LOCK" \in s)

Types ==
  /\ pending \in Seq(Byte)
  /\ printed \in Seq(Characters)
  /\ typed \in Seq(SUBSET Characters)
  /\ status \subseteq Status
  /\ down \subseteq Keys
  /\ capsOn \in BOOLEAN
  /\ unsure \subseteq Modifiers \cup {"CAPS_LOCK"}
  /\ events \in 0 .. MaxEvents

(***************************************************************************)
(* At the end of what it has still to read the driver will agree with the  *)
(* user, and on the way there it prints what was typed.                    *)
(***************************************************************************)
KeyboardInv ==
  /\ Types
  /\ \A m \in Modifiers : KeysOf(m) \subseteq down => m \in unsure
  /\ \A i \in DOMAIN printed : printed[i] \in typed[i]
  /\ \E f, c : Foretold(pending, typed, f, c) /\ Agrees(f[Len(pending)])

-----------------------------------------------------------------------------
(***************************************************************************)
(* The course over one byte less and one byte more                         *)
(***************************************************************************)

LEMMA Appended ==
  ASSUME NEW S, NEW s \in Seq(S), NEW e \in S
  PROVE  /\ Append(s, e) \in Seq(S)
         /\ Len(s) \in Nat /\ Len(Append(s, e)) = Len(s) + 1
         /\ \A i \in 1 .. Len(s) : Append(s, e)[i] = s[i]
         /\ Append(s, e)[Len(s) + 1] = e
  BY AppendProperties, LenProperties

LEMMA OneType ==
  ASSUME NEW b
  PROVE  One(b) \in {0, 1}
  BY DEF One

\* A character's number is that of a press.
LEMMA CourseCounts ==
  ASSUME NEW n \in Nat, NEW k \in Nat, NEW p, NEW ty, NEW f, NEW c,
         Course(n, k, p, ty, f, c)
  PROVE  /\ \A i \in 1 .. n : Printable(p[i]) => c[i] \in 1 .. k
         /\ c[0] <= k
  <1>1. /\ c \in [0 .. n -> Nat] /\ c[n] = k
        /\ \A i, j \in 0 .. n : i <= j => c[i] <= c[j]
        /\ \A i \in 1 .. n : c[i] = c[i - 1] + One(p[i])
    BY DEF Course
  <1>2. n \in 0 .. n /\ 0 \in 0 .. n
    OBVIOUS
  <1>3. ASSUME NEW i \in 1 .. n, Printable(p[i]) PROVE c[i] \in 1 .. k
    <2>1. i \in 0 .. n /\ i - 1 \in 0 .. n /\ i <= n
      OBVIOUS
    <2>2. One(p[i]) = 1
      BY <1>3 DEF One
    <2>3. c[i] = c[i - 1] + 1 /\ c[i - 1] \in Nat /\ c[i] <= k /\ c[i] \in Nat
      BY <1>1, <1>2, <2>1, <2>2
    <2> QED
      BY <2>3
  <1>4. c[0] <= k
    BY <1>1, <1>2
  <1> QED
    BY <1>3, <1>4

\* The first byte is gone.
LEMMA CourseShrinks ==
  ASSUME NEW n \in Nat, NEW k \in Nat, NEW p, NEW ty, NEW f, NEW c,
         Course(n + 1, k, p, ty, f, c),
         NEW q, \A i \in 1 .. n : q[i] = p[i + 1]
  PROVE  \E g, d : /\ Course(n, k, q, ty, g, d)
                   /\ g[0] = f[1] /\ d[0] = c[1] /\ g[n] = f[n + 1]
  <1> DEFINE g == [i \in 0 .. n |-> f[i + 1]]
             d == [i \in 0 .. n |-> c[i + 1]]
  <1>1. /\ f \in [0 .. n + 1 -> SUBSET Status] /\ c \in [0 .. n + 1 -> Nat]
        /\ c[n + 1] = k
        /\ \A i, j \in 0 .. n + 1 : i <= j => c[i] <= c[j]
    BY DEF Course
  <1>2. \A i \in 0 .. n : i + 1 \in 0 .. n + 1
    OBVIOUS
  <1>3. g \in [0 .. n -> SUBSET Status] /\ d \in [0 .. n -> Nat]
    BY <1>1, <1>2
  <1>4. \A i \in 0 .. n : g[i] = f[i + 1] /\ d[i] = c[i + 1]
    OBVIOUS
  <1> HIDE DEF g, d
  <1>5. \A i \in 1 .. n : /\ i \in 0 .. n /\ i - 1 \in 0 .. n /\ i + 1 \in 1 .. n + 1
                          /\ (i - 1) + 1 = i /\ (i + 1) - 1 = i
    OBVIOUS
  <1>6. /\ n \in 0 .. n /\ 0 \in 0 .. n /\ 0 + 1 = 1
    OBVIOUS
  <1>7. \A i \in 1 .. n : /\ g[i] = After(g[i - 1], q[i])
                          /\ d[i] = d[i - 1] + One(q[i])
                          /\ Printable(q[i]) =>
                               CharacterIn(g[i - 1], q[i].key) \in ty[d[i]]
    <2> TAKE i \in 1 .. n
    <2>1. /\ g[i] = f[i + 1] /\ g[i - 1] = f[i] /\ d[i] = c[i + 1]
          /\ d[i - 1] = c[i] /\ q[i] = p[i + 1]
      BY <1>4, <1>5
    <2>2. /\ f[i + 1] = After(f[i], p[i + 1])
          /\ c[i + 1] = c[i] + One(p[i + 1])
          /\ Printable(p[i + 1]) => CharacterIn(f[i], p[i + 1].key) \in ty[c[i + 1]]
      <3>1. i + 1 \in 1 .. n + 1 /\ (i + 1) - 1 = i
        BY <1>5
      <3> QED
        BY <3>1 DEF Course
    <2> QED
      BY <2>1, <2>2
  <1>8. \A i, j \in 0 .. n : i <= j => d[i] <= d[j]
    <2> TAKE i, j \in 0 .. n
    <2>1. i <= j => i + 1 <= j + 1
      OBVIOUS
    <2> QED
      BY <1>1, <1>2, <1>4, <2>1
  <1>9. g[0] = f[1] /\ d[0] = c[1] /\ g[n] = f[n + 1] /\ d[n] = k
    BY <1>1, <1>4, <1>6
  <1>10. Course(n, k, q, ty, g, d)
    BY <1>3, <1>7, <1>8, <1>9 DEF Course
  <1> QED
    BY <1>9, <1>10

\* The bytes q are p and then b, and uy begins as ty does.
Continued(n, k, p, ty, b, q, uy) ==
  /\ \A i \in 1 .. n : q[i] = p[i]
  /\ q[n + 1] = b
  /\ \A i \in 1 .. k : uy[i] = ty[i]

\* A byte is added, and what is typed with it if it prints.
LEMMA CourseGrows ==
  ASSUME NEW n \in Nat, NEW k \in Nat, NEW p, NEW ty, NEW f, NEW c,
         Course(n, k, p, ty, f, c),
         NEW b, NEW q, NEW uy,
         Continued(n, k, p, ty, b, q, uy),
         Printable(b) => CharacterIn(f[n], b.key) \in uy[k + 1],
         After(f[n], b) \in SUBSET Status
  PROVE  \E g, d : /\ Course(n + 1, k + One(b), q, uy, g, d)
                   /\ g[0] = f[0] /\ d[0] = c[0]
                   /\ g[n + 1] = After(f[n], b)
  <1> DEFINE last == After(f[n], b)
             sum == k + One(b)
             g == [i \in 0 .. n + 1 |-> IF i <= n THEN f[i] ELSE last]
             d == [i \in 0 .. n + 1 |-> IF i <= n THEN c[i] ELSE sum]
  <1>0. \A i \in 1 .. n : Printable(p[i]) => c[i] \in 1 .. k
    BY CourseCounts
  <1>16. /\ \A i \in 1 .. n : q[i] = p[i]
         /\ q[n + 1] = b
         /\ \A i \in 1 .. k : uy[i] = ty[i]
    BY DEF Continued
  <1>1. One(b) \in {0, 1} /\ sum \in Nat /\ k <= sum
    BY OneType
  <1>2. /\ f \in [0 .. n -> SUBSET Status] /\ c \in [0 .. n -> Nat] /\ c[n] = k
        /\ \A i, j \in 0 .. n : i <= j => c[i] <= c[j]
    BY DEF Course
  <1> HIDE DEF last, sum
  <1>3. /\ \A i \in 0 .. n : g[i] = f[i] /\ d[i] = c[i]
        /\ g[n + 1] = last /\ d[n + 1] = sum
    <2>1. \A i \in 0 .. n : i \in 0 .. n + 1 /\ i <= n
      OBVIOUS
    <2>2. n + 1 \in 0 .. n + 1 /\ ~(n + 1 <= n)
      OBVIOUS
    <2> QED
      BY <2>1, <2>2
  <1>4. \A i \in 0 .. n + 1 : i \in 0 .. n \/ i = n + 1
    OBVIOUS
  <1>5. g \in [0 .. n + 1 -> SUBSET Status]
    <2>1. \A i \in 0 .. n + 1 : (IF i <= n THEN f[i] ELSE last) \in SUBSET Status
      BY <1>2 DEF last
    <2> QED
      BY <2>1
  <1>6. d \in [0 .. n + 1 -> Nat]
    <2>1. \A i \in 0 .. n + 1 : (IF i <= n THEN c[i] ELSE sum) \in Nat
      BY <1>1, <1>2
    <2> QED
      BY <2>1
  <1> HIDE DEF g, d
  <1>7. \A i \in 1 .. n : i \in 0 .. n /\ i - 1 \in 0 .. n
    OBVIOUS
  <1>8. (n + 1) - 1 = n /\ n \in 0 .. n
    OBVIOUS
  <1>9. \A i \in 1 .. n + 1 : i \in 1 .. n \/ i = n + 1
    OBVIOUS
  <1>10. \A i \in 1 .. n + 1 : g[i] = After(g[i - 1], q[i])
    <2> TAKE i \in 1 .. n + 1
    <2>1. CASE i \in 1 .. n
      <3>1. f[i] = After(f[i - 1], p[i])
        BY <2>1 DEF Course
      <3> QED
        BY <1>3, <1>7, <1>16, <2>1, <3>1
    <2>2. CASE i = n + 1
      BY <1>3, <1>8, <1>16, <2>2 DEF last
    <2> QED
      BY <1>9, <2>1, <2>2
  <1>11. \A i \in 1 .. n + 1 : d[i] = d[i - 1] + One(q[i])
    <2> TAKE i \in 1 .. n + 1
    <2>1. CASE i \in 1 .. n
      <3>1. c[i] = c[i - 1] + One(p[i])
        BY <2>1 DEF Course
      <3> QED
        BY <1>3, <1>7, <1>16, <2>1, <3>1
    <2>2. CASE i = n + 1
      BY <1>2, <1>3, <1>8, <1>16, <2>2 DEF sum
    <2> QED
      BY <1>9, <2>1, <2>2
  <1>12. \A i \in 1 .. n + 1 :
           Printable(q[i]) => CharacterIn(g[i - 1], q[i].key) \in uy[d[i]]
    <2> TAKE i \in 1 .. n + 1
    <2>1. CASE i \in 1 .. n
      <3>1. Printable(p[i]) => CharacterIn(f[i - 1], p[i].key) \in ty[c[i]]
        BY <2>1 DEF Course
      <3> QED
        BY <1>0, <1>3, <1>7, <1>16, <2>1, <3>1
    <2>2. CASE i = n + 1
      <3>1. Printable(b) => d[i] = k + 1
        BY <1>3, <2>2 DEF sum, One
      <3> QED
        BY <1>3, <1>8, <1>16, <2>2, <3>1
    <2> QED
      BY <1>9, <2>1, <2>2
  <1>13. \A i, j \in 0 .. n + 1 : i <= j => d[i] <= d[j]
    <2> TAKE i, j \in 0 .. n + 1
    <2> SUFFICES ASSUME i <= j PROVE d[i] <= d[j]
      OBVIOUS
    <2>1. CASE j \in 0 .. n
      <3>1. i \in 0 .. n
        BY <2>1
      <3> QED
        BY <1>2, <1>3, <2>1, <3>1
    <2>2. CASE j = n + 1 /\ i \in 0 .. n
      <3>1. c[i] <= k /\ c[i] \in Nat
        BY <1>2, <2>2
      <3> QED
        BY <1>1, <1>3, <2>2, <3>1
    <2>3. CASE j = n + 1 /\ i = n + 1
      BY <1>1, <1>3, <2>3
    <2> QED
      BY <1>4, <2>1, <2>2, <2>3
  <1>14. g[0] = f[0] /\ d[0] = c[0]
    BY <1>3
  <1>15. Course(n + 1, sum, q, uy, g, d)
    BY <1>3, <1>5, <1>6, <1>10, <1>11, <1>12, <1>13 DEF Course
  <1> QED
    BY <1>3, <1>14, <1>15 DEF sum, last

-----------------------------------------------------------------------------
(***************************************************************************)
(* Keys and the switch                                                     *)
(***************************************************************************)

LEMMA Tables ==
  ASSUME NEW k
  PROVE  kbdus(k) # None <=> k \in Printing
  <1>1. <<k, "plain">> # <<"none">>
    <2>1. Len(<<k, "plain">>) = 2 /\ Len(<<"none">>) = 1
      OBVIOUS
    <2> QED
      BY <2>1
  <1> QED
    BY <1>1 DEF kbdus, None

\* Modifiers and toggles are different bits.
LEMMA TwoKinds ==
  Modifiers \cap Toggles = {}
  BY DEF Modifiers, Toggles

\* The switch bit by bit.
LEMMA SwitchedBits ==
  ASSUME NEW s \in SUBSET Status, NEW b \in Byte
  PROVE  /\ Switched(s, b) \in SUBSET Status
         /\ \A m \in Modifiers :
              m \in Switched(s, b) <=>
                IF b.key \in KeysOf(m) THEN ~b.released ELSE m \in s
         /\ \A t \in Toggles :
              t \in Switched(s, b) <=> ((t \in s) # (~b.released /\ b.key = t))
  <1>1. b.released \in BOOLEAN
    BY DEF Byte
  <1> DEFINE on     == {m \in Modifiers : ~b.released /\ b.key \in KeysOf(m)}
             off    == {m \in Modifiers : b.released /\ b.key \in KeysOf(m)}
             turned == {t \in Toggles : ~b.released /\ b.key = t}
  <1>2. \A x : x \in Switched(s, b) <=>
                 ((x \in s /\ x \notin off) \/ x \in on) # (x \in turned)
    BY DEF Switched, SymDiff
  <1> QED
    BY <1>1, <1>2, TwoKinds DEF Status

LEMMA AfterType ==
  ASSUME NEW s \in SUBSET Status, NEW b \in Byte
  PROVE  After(s, b) \in SUBSET Status
  BY SwitchedBits DEF After

\* What keyboard_handler makes of the first byte.
LEMMA HandledByte ==
  ASSUME Types, keyboard_handler
  PROVE  LET b == Head(pending)
         IN /\ pending # <<>> /\ pending' = Tail(pending)
            /\ status' = After(status, b)
            /\ printed' = IF Printable(b)
                          THEN Append(printed, CharacterIn(status, b.key))
                          ELSE printed
            /\ UNCHANGED user
  <1> DEFINE b == Head(pending)
  <1>1. b.key \in Printing => character(b.key) = CharacterIn(status, b.key)
    BY DEF character, CharacterIn, kbdus, kbdus_shift
  <1>2. switch(b) = Switched(status, b)
    BY DEF switch, Switched
  <1> QED
    BY <1>1, <1>2, Tables DEF keyboard_handler, After, Printable

\* What a course comes to when the driver has taken its first step.
LEMMA HandlerForetold ==
  ASSUME Types, keyboard_handler, NEW f, NEW c,
         Foretold(pending, typed, f, c)
  PROVE  /\ \E g, d : /\ Foretold(pending, typed, g, d)'
                      /\ g[Len(pending')] = f[Len(pending)]
         /\ Printable(Head(pending)) =>
              /\ printed' = Append(printed, CharacterIn(status, Head(pending).key))
              /\ CharacterIn(status, Head(pending).key) \in typed[Len(printed) + 1]
  <1> DEFINE b == Head(pending)
             n == Len(pending')
  <1>1. /\ pending # <<>> /\ pending' = Tail(pending) /\ status' = After(status, b)
        /\ printed' = IF Printable(b)
                      THEN Append(printed, CharacterIn(status, b.key))
                      ELSE printed
        /\ typed' = typed
    BY HandledByte DEF user
  <1>2. /\ n \in Nat /\ Len(pending) = n + 1 /\ pending[1] = b
        /\ \A i \in 1 .. n : pending'[i] = pending[i + 1]
    <2>1. pending \in Seq(Byte)
      BY DEF Types
    <2>2. /\ Tail(pending) \in Seq(Byte) /\ Len(Tail(pending)) = Len(pending) - 1
          /\ \A i \in 1 .. Len(Tail(pending)) : Tail(pending)[i] = pending[i + 1]
      BY <1>1, <2>1, HeadTailProperties
    <2>3. Len(Tail(pending)) \in Nat /\ Len(pending) \in Nat
      BY <2>1, <2>2, LenProperties
    <2>4. b = pending[1]
      BY <1>1, <2>1
    <2> QED
      BY <1>1, <2>2, <2>3, <2>4
  <1>3. /\ Course(n + 1, Len(typed), pending, typed, f, c)
        /\ f[0] = status /\ c[0] = Len(printed)
    BY <1>2 DEF Foretold
  <1>4. Len(typed) \in Nat /\ Len(printed) \in Nat
    BY LenProperties DEF Types
  <1> HIDE DEF b, n
  <1>5. PICK g, d : /\ Course(n, Len(typed), pending', typed, g, d)
                    /\ g[0] = f[1] /\ d[0] = c[1] /\ g[n] = f[n + 1]
    <2> DEFINE q == pending'
               k == Len(typed)
    <2>1. n \in Nat /\ \A i \in 1 .. n : q[i] = pending[i + 1]
      BY <1>2
    <2>2. Course(n + 1, Len(typed), pending, typed, f, c)
      BY <1>3
    <2>3. Len(typed) \in Nat
      BY <1>4
    <2>4. Course(n + 1, k, pending, typed, f, c) /\ k \in Nat
      BY <2>2, <2>3
    <2> HIDE DEF q, k
    <2>5. \E g, d : /\ Course(n, k, q, typed, g, d)
                     /\ g[0] = f[1] /\ d[0] = c[1] /\ g[n] = f[n + 1]
      BY <2>1, <2>4, CourseShrinks
    <2> QED
      BY <2>5 DEF q, k
  <1>6. 1 \in 1 .. n + 1 /\ 1 - 1 = 0
    BY <1>2
  <1>7. /\ f[1] = After(status, b) /\ c[1] = Len(printed) + One(b)
        /\ Printable(b) => CharacterIn(status, b.key) \in typed[c[1]]
    BY <1>2, <1>3, <1>6 DEF Course
  <1>8. Len(printed') = Len(printed) + One(b)
    <2>1. CASE Printable(b)
      <3>1. printed' = Append(printed, CharacterIn(status, b.key))
        BY <1>1, <2>1 DEF b
      <3>2. b.key \in Printing
        BY <2>1 DEF Printable
      <3>3. CharacterIn(status, b.key) \in Characters
        BY <3>2 DEF CharacterIn, Characters
      <3>4. One(b) = 1 /\ printed \in Seq(Characters)
        BY <2>1 DEF One, Types
      <3> QED
        BY <3>1, <3>3, <3>4, Appended
    <2>2. CASE ~Printable(b)
      BY <1>1, <1>4, <2>2 DEF One, b
    <2> QED
      BY <2>1, <2>2
  <1>9. Foretold(pending, typed, g, d)'
    BY <1>1, <1>5, <1>7, <1>8 DEF Foretold, Course, n, b
  <1>10. Printable(b) => Len(printed) + 1 = c[1]
    BY <1>7 DEF One
  <1> QED
    BY <1>1, <1>2, <1>5, <1>7, <1>9, <1>10 DEF b, n

-----------------------------------------------------------------------------
(***************************************************************************)
(* The driver's step and the user's                                        *)
(***************************************************************************)

\* It prints what was typed, and gets a step further on its course.
LEMMA HandlerStep ==
  ASSUME KeyboardInv, keyboard_handler
  PROVE  KeyboardInv'
  <1>1. PICK f, c : Foretold(pending, typed, f, c) /\ Agrees(f[Len(pending)])
    BY DEF KeyboardInv
  <1>2. Types
    BY DEF KeyboardInv
  <1> DEFINE b == Head(pending)
  <1>3. /\ pending # <<>> /\ pending' = Tail(pending)
        /\ status' = After(status, b)
        /\ printed' = IF Printable(b)
                      THEN Append(printed, CharacterIn(status, b.key))
                      ELSE printed
        /\ UNCHANGED <<down, capsOn, typed, unsure, events>>
    BY <1>2, HandledByte DEF user
  <1>4. /\ \E g, d : /\ Foretold(pending, typed, g, d)'
                     /\ g[Len(pending')] = f[Len(pending)]
        /\ Printable(b) => CharacterIn(status, b.key) \in typed[Len(printed) + 1]
    BY <1>1, <1>2, HandlerForetold
  <1>5. b \in Byte /\ Tail(pending) \in Seq(Byte)
    BY <1>2, <1>3, HeadTailProperties DEF Types
  <1> HIDE DEF b
  <1>6. Printable(b) => CharacterIn(status, b.key) \in Characters
    BY DEF Printable, CharacterIn, Characters
  <1>7. printed \in Seq(Characters) /\ \A i \in DOMAIN printed : printed[i] \in typed[i]
    BY <1>2 DEF Types, KeyboardInv
  <1>8. /\ printed' \in Seq(Characters)
        /\ \A i \in DOMAIN printed' : printed'[i] \in typed[i]
    <2>1. CASE Printable(b)
      <3> DEFINE x == CharacterIn(status, b.key)
      <3>1. printed' = Append(printed, x) /\ x \in Characters
            /\ x \in typed[Len(printed) + 1]
        BY <1>3, <1>4, <1>6, <2>1 DEF b
      <3> HIDE DEF x
      <3>2. /\ printed' \in Seq(Characters) /\ Len(printed) \in Nat
            /\ Len(printed') = Len(printed) + 1
            /\ \A i \in 1 .. Len(printed) : printed'[i] = printed[i]
            /\ printed'[Len(printed) + 1] = x
        BY <1>7, <3>1, Appended
      <3>3. /\ DOMAIN printed = 1 .. Len(printed)
            /\ DOMAIN printed' = 1 .. Len(printed')
        BY <1>7, <3>2, LenProperties
      <3>4. \A i \in 1 .. Len(printed') :
              i \in 1 .. Len(printed) \/ i = Len(printed) + 1
        BY <3>2
      <3> QED
        BY <1>7, <3>1, <3>2, <3>3, <3>4
    <2>2. CASE ~Printable(b)
      <3>1. printed' = printed
        BY <1>3, <2>2 DEF b
      <3> QED
        BY <1>7, <3>1
    <2> QED
      BY <2>1, <2>2
  <1>9. status' \in SUBSET Status
    <2>1. status \in SUBSET Status
      BY <1>2 DEF Types
    <2> QED
      BY <1>3, <1>5, <2>1, AfterType DEF b
  <1>10. Types'
    BY <1>2, <1>3, <1>5, <1>8, <1>9 DEF Types
  <1>11. \E g, d : Foretold(pending, typed, g, d)' /\ Agrees(g[Len(pending)])'
    <2>1. PICK g, d : /\ Foretold(pending, typed, g, d)'
                      /\ g[Len(pending')] = f[Len(pending)]
      BY <1>4
    <2>2. Agrees(g[Len(pending)])'
      BY <1>1, <1>3, <2>1 DEF Agrees
    <2> QED
      BY <2>1, <2>2
  <1> QED
    BY <1>3, <1>8, <1>10, <1>11 DEF KeyboardInv

\* Of the bytes p and the presses ty the driver's course is f and c; next
\* comes b, with uy typed.
Comes(p, ty, f, c, b, uy) ==
  /\ p \in Seq(Byte) /\ ty \in Seq(SUBSET Characters) /\ b \in Byte
  /\ Foretold(p, ty, f, c)
  /\ Printable(b) => \E M \in SUBSET Characters :
                       CharacterIn(f[Len(p)], b.key) \in M /\ uy = Append(ty, M)
  /\ ~Printable(b) => uy = ty

\* The course goes on with it.
LEMMA OneByte ==
  ASSUME NEW p, NEW ty, NEW f, NEW c, NEW b, NEW uy,
         Comes(p, ty, f, c, b, uy)
  PROVE  \E g, d : /\ Foretold(Append(p, b), uy, g, d)
                   /\ g[Len(Append(p, b))] = After(f[Len(p)], b)
  <1> DEFINE n == Len(p)
             k == Len(ty)
             q == Append(p, b)
  <1>0. /\ p \in Seq(Byte) /\ ty \in Seq(SUBSET Characters) /\ b \in Byte
        /\ Foretold(p, ty, f, c)
    BY DEF Comes
  <1>1. /\ n \in Nat /\ Len(q) = n + 1 /\ \A i \in 1 .. n : q[i] = p[i]
        /\ q[n + 1] = b
    BY <1>0, Appended
  <1>2. /\ k \in Nat /\ Len(uy) = k + One(b) /\ \A i \in 1 .. k : uy[i] = ty[i]
        /\ Printable(b) => CharacterIn(f[n], b.key) \in uy[k + 1]
    <2>1. k \in Nat
      BY <1>0, LenProperties
    <2>2. CASE Printable(b)
      <3>1. PICK M \in SUBSET Characters :
              CharacterIn(f[Len(p)], b.key) \in M /\ uy = Append(ty, M)
        BY <2>2 DEF Comes
      <3>2. /\ Len(uy) = k + 1 /\ uy[k + 1] = M
            /\ \A i \in 1 .. k : uy[i] = ty[i]
        BY <1>0, <3>1, Appended
      <3>3. One(b) = 1
        BY <2>2 DEF One
      <3> QED
        BY <2>1, <3>1, <3>2, <3>3
    <2>3. CASE ~Printable(b)
      <3>1. uy = ty /\ One(b) = 0
        BY <2>3 DEF Comes, One
      <3>2. k + 0 = k
        BY <2>1
      <3> QED
        BY <2>1, <2>3, <3>1, <3>2
    <2> QED
      BY <2>2, <2>3
  <1>3. Course(n, k, p, ty, f, c) /\ f[0] = status /\ c[0] = Len(printed)
    BY <1>0 DEF Foretold
  <1>4. After(f[n], b) \in SUBSET Status
    <2>1. f \in [0 .. n -> SUBSET Status] /\ n \in 0 .. n
      BY <1>1, <1>3 DEF Course
    <2>2. f[n] \in SUBSET Status
      BY <2>1
    <2> QED
      BY <1>0, <2>2, AfterType
  <1> HIDE DEF n, k, q
  <1>7. PICK g, d : /\ Course(n + 1, k + One(b), q, uy, g, d)
                    /\ g[0] = f[0] /\ d[0] = c[0]
                    /\ g[n + 1] = After(f[n], b)
    <2>1. n \in Nat /\ k \in Nat /\ Course(n, k, p, ty, f, c)
      BY <1>1, <1>2, <1>3
    <2>2. Continued(n, k, p, ty, b, q, uy)
      BY <1>1, <1>2 DEF Continued
    <2> QED
      BY ONLY <2>1, <2>2, <1>2, <1>4, CourseGrows
  <1>8. Foretold(q, uy, g, d) /\ g[Len(q)] = After(f[n], b)
    BY <1>1, <1>2, <1>3, <1>7 DEF Foretold
  <1> QED
    BY <1>8 DEF n, q

-----------------------------------------------------------------------------
(***************************************************************************)
(* What a key sends                                                        *)
(***************************************************************************)

\* The byte says of modifiers, toggles and characters what the key is.
Says(b, k, released) ==
  /\ b \in Byte /\ b.released = released
  /\ \A m \in Modifiers : b.key \in KeysOf(m) <=> k \in KeysOf(m)
  /\ \A t \in Toggles \cup Printing : b.key = t <=> k = t

\* The prefix says nothing.
LEMMA PrefixIsIdle ==
  /\ Prefix \in Byte /\ ~Printable(Prefix)
  /\ \A s \in SUBSET Status : After(s, Prefix) = s
  <1>1. Prefix \in Byte /\ Prefix.released = TRUE /\ Prefix.key = "prefix"
    BY DEF Prefix, Byte
  <1>2. \A m \in Modifiers : Prefix.key \notin KeysOf(m)
    BY <1>1 DEF Modifiers, KeysOf
  <1>3. ~Printable(Prefix)
    BY <1>1 DEF Printable
  <1>4. ASSUME NEW s \in SUBSET Status PROVE After(s, Prefix) = s
    <2>1. After(s, Prefix) = Switched(s, Prefix)
      BY <1>3 DEF After
    <2>2. \A x : x \in Switched(s, Prefix) <=> x \in s
      BY <1>1, <1>2, SwitchedBits DEF Status
    <2> QED
      BY <2>1, <2>2
  <1> QED
    BY <1>1, <1>3, <1>4

LEMMA KeyKinds ==
  /\ "left control" \in Keys /\ "left alt" \in Keys
  /\ {"right control", "right alt", "left control", "left alt"} \cap (Toggles \cup Printing) = {}
  /\ \A m \in Modifiers : "right control" \in KeysOf(m) <=> "left control" \in KeysOf(m)
  /\ \A m \in Modifiers : "right alt" \in KeysOf(m) <=> "left alt" \in KeysOf(m)
  <1>1. {"left control", "right control", "left alt", "right alt"} \subseteq ModifierKeys
    BY DEF ModifierKeys, KeysOf, Modifiers
  <1>2. {"right control", "right alt", "left control", "left alt"} \cap Toggles = {}
    BY DEF Toggles
  <1>3. /\ \A m \in Modifiers : "right control" \in KeysOf(m) <=> "left control" \in KeysOf(m)
        /\ \A m \in Modifiers : "right alt" \in KeysOf(m) <=> "left alt" \in KeysOf(m)
    BY DEF KeysOf, Modifiers
  <1> QED
    BY <1>1, <1>2, <1>3, TablesAssumption DEF Keys

\* One byte, or the prefix and one byte.
LEMMA BytesSent ==
  ASSUME NEW k \in Keys, NEW released \in BOOLEAN
  PROVE  \E b : /\ Says(b, k, released)
                /\ Bytes(k, released) \in {<<b>>, <<Prefix, b>>}
  <1> DEFINE B(key) == [key |-> key, released |-> released]
  <1>1. CASE k = "right control"
    <2>1. Bytes(k, released) = <<Prefix, B("left control")>>
      BY <1>1 DEF Bytes
    <2>2. Says(B("left control"), k, released)
      BY <1>1, KeyKinds DEF Says, Byte
    <2> QED
      BY <2>1, <2>2
  <1>2. CASE k = "right alt"
    <2>1. Bytes(k, released) = <<Prefix, B("left alt")>>
      BY <1>2 DEF Bytes
    <2>2. Says(B("left alt"), k, released)
      BY <1>2, KeyKinds DEF Says, Byte
    <2> QED
      BY <2>1, <2>2
  <1>3. CASE k \notin {"right control", "right alt"}
    <2>1. Bytes(k, released) = <<B(k)>>
      BY <1>3, Zenon DEF Bytes
    <2>2. Says(B(k), k, released)
      BY DEF Says, Byte
    <2> QED
      BY <2>1, <2>2
  <1> QED
    BY <1>1, <1>2, <1>3

\* A key goes down, is held or goes up: the course goes on with its byte.
LEMMA SendForetold ==
  ASSUME Types, NEW k \in Keys, NEW released \in BOOLEAN, Send(k, released),
         NEW f, NEW c, Foretold(pending, typed, f, c),
         k \in Printing /\ ~released =>
           /\ Meant(k) \in SUBSET Characters
           /\ CharacterIn(f[Len(pending)], k) \in Meant(k)
  PROVE  /\ pending' \in Seq(Byte) /\ typed' \in Seq(SUBSET Characters)
         /\ \E g, d, b : /\ Foretold(pending, typed, g, d)' /\ Says(b, k, released)
                         /\ g[Len(pending')] = After(f[Len(pending)], b)
         /\ f[Len(pending)] \in SUBSET Status
         /\ \A i \in DOMAIN typed : typed'[i] = typed[i]
         /\ DOMAIN typed \subseteq DOMAIN typed'
  <1>0. Foretold(pending, typed, f, c)
    OBVIOUS
  <1>1. PICK b : Says(b, k, released) /\ Bytes(k, released) \in {<<b>>, <<Prefix, b>>}
    BY BytesSent
  <1>2. /\ pending \in Seq(Byte) /\ typed \in Seq(SUBSET Characters)
    BY DEF Types
  <1>3. /\ pending' = pending \o Bytes(k, released)
        /\ typed' = IF k \in Printing /\ ~released THEN Append(typed, Meant(k)) ELSE typed
        /\ status' = status /\ printed' = printed
    BY DEF Send
  <1>4. b \in Byte /\ Prefix \in Byte /\ ~Printable(Prefix)
    BY <1>1, PrefixIsIdle DEF Says
  <1>5. /\ Printable(b) <=> k \in Printing /\ ~released
        /\ b.key \in Printing => b.key = k
    BY <1>1 DEF Says, Printable
  <1>6. f[Len(pending)] \in SUBSET Status
    <2>1. Len(pending) \in Nat
      BY <1>2, LenProperties
    <2>2. Len(pending) \in 0 .. Len(pending)
      BY <2>1
    <2> QED
      BY <2>2 DEF Foretold, Course
  <1> DEFINE uy == typed'
  <1>7. Printable(b) => /\ Meant(k) \in SUBSET Characters
                        /\ CharacterIn(f[Len(pending)], b.key) \in Meant(k)
                        /\ uy = Append(typed, Meant(k))
    BY <1>3, <1>5 DEF Printable
  <1>8. ~Printable(b) => uy = typed
    BY <1>3, <1>5
  <1> HIDE DEF uy
  <1>10. /\ pending' \in Seq(Byte)
         /\ \E g, d : /\ Foretold(pending', uy, g, d)
                      /\ g[Len(pending')] = After(f[Len(pending)], b)
    <2>1. CASE Bytes(k, released) = <<b>>
      <3>1. pending' = Append(pending, b)
        BY <1>2, <1>3, <1>4, <2>1, AppendIsConcat
      <3>2. Comes(pending, typed, f, c, b, uy)
        BY <1>0, <1>2, <1>4, <1>7, <1>8 DEF Comes
      <3>3. \E g, d : /\ Foretold(Append(pending, b), uy, g, d)
                      /\ g[Len(Append(pending, b))] = After(f[Len(pending)], b)
        BY ONLY <3>2, OneByte
      <3> QED
        BY <1>2, <1>4, <3>1, <3>3, Appended
    <2>2. CASE Bytes(k, released) = <<Prefix, b>>
      <3> DEFINE p == Append(pending, Prefix)
      <3>1. p \in Seq(Byte)
        BY <1>2, <1>4, Appended
      <3>2. pending' = Append(p, b)
        <4>1. <<Prefix, b>> = <<Prefix>> \o <<b>>
          OBVIOUS
        <4>2. <<Prefix>> \in Seq(Byte) /\ <<b>> \in Seq(Byte)
          BY <1>4
        <4>3. pending \o (<<Prefix>> \o <<b>>) = (pending \o <<Prefix>>) \o <<b>>
          BY <1>2, <4>2, ConcatAssociative
        <4>4. pending \o <<Prefix>> = p
          BY <1>2, <1>4, AppendIsConcat
        <4>5. p \o <<b>> = Append(p, b)
          BY <1>4, <3>1, AppendIsConcat
        <4> QED
          BY <1>3, <2>2, <4>1, <4>3, <4>4, <4>5
      <3>3. \E g, d : /\ Foretold(p, typed, g, d)
                      /\ g[Len(p)] = After(f[Len(pending)], Prefix)
        <4>1. Comes(pending, typed, f, c, Prefix, typed)
          BY <1>0, <1>2, <1>4 DEF Comes
        <4> QED
          BY ONLY <4>1, OneByte
      <3>4. PICK h, e : /\ Foretold(p, typed, h, e)
                        /\ h[Len(p)] = After(f[Len(pending)], Prefix)
        BY <3>3
      <3>5. h[Len(p)] = f[Len(pending)]
        BY <1>6, <3>4, PrefixIsIdle
      <3> HIDE DEF p
      <3>6. Comes(p, typed, h, e, b, uy)
        BY <1>2, <1>4, <1>7, <1>8, <3>1, <3>4, <3>5 DEF Comes
      <3>7. \E g, d : /\ Foretold(Append(p, b), uy, g, d)
                      /\ g[Len(Append(p, b))] = After(h[Len(p)], b)
        BY ONLY <3>6, OneByte
      <3> QED
        BY <1>4, <3>1, <3>2, <3>5, <3>7, Appended
    <2> QED
      BY <1>1, <2>1, <2>2
  <1>11. \E g, d, e : /\ Foretold(pending, typed, g, d)' /\ Says(e, k, released)
                      /\ g[Len(pending')] = After(f[Len(pending)], e)
    BY <1>1, <1>3, <1>10 DEF Foretold, uy
  <1>12. /\ typed' \in Seq(SUBSET Characters)
         /\ \A i \in DOMAIN typed : typed'[i] = typed[i]
         /\ DOMAIN typed \subseteq DOMAIN typed'
    <2>1. CASE Printable(b)
      <3>1. typed' = Append(typed, Meant(k)) /\ Meant(k) \in SUBSET Characters
        BY <1>7, <2>1 DEF uy
      <3>2. /\ typed' \in Seq(SUBSET Characters) /\ Len(typed) \in Nat
            /\ Len(typed') = Len(typed) + 1
            /\ \A i \in 1 .. Len(typed) : typed'[i] = typed[i]
        BY <1>2, <3>1, Appended
      <3>3. DOMAIN typed = 1 .. Len(typed) /\ DOMAIN typed' = 1 .. Len(typed')
        BY <1>2, <3>2, LenProperties
      <3> QED
        BY <3>2, <3>3
    <2>2. CASE ~Printable(b)
      BY <1>2, <1>8, <2>2 DEF uy
    <2> QED
      BY <2>1, <2>2
  <1> QED
    BY <1>6, <1>10, <1>11, <1>12

-----------------------------------------------------------------------------
(***************************************************************************)
(* What the driver knows of the user                                       *)
(***************************************************************************)

\* The bits after the byte that says k.
LEMMA BitsAfter ==
  ASSUME NEW s \in SUBSET Status, NEW k \in Keys, NEW released \in BOOLEAN,
         NEW b, Says(b, k, released)
  PROVE  /\ \A m \in Modifiers :
              m \in After(s, b) <=> IF k \in KeysOf(m) THEN ~released ELSE m \in s
         /\ "CAPS_LOCK" \in After(s, b)
              <=> (("CAPS_LOCK" \in s) # (~released /\ k = "CAPS_LOCK"))
  <1>1. /\ b \in Byte /\ b.released = released
        /\ \A m \in Modifiers : b.key \in KeysOf(m) <=> k \in KeysOf(m)
        /\ "CAPS_LOCK" \in Toggles
        /\ b.key = "CAPS_LOCK" <=> k = "CAPS_LOCK"
    BY DEF Says, Toggles
  <1>2. CASE Printable(b)
    <2>1. After(s, b) = s
      BY <1>2 DEF After
    <2>2. b.key \in Printing /\ k = b.key
      BY <1>2 DEF Printable, Says
    <2>3. "CAPS_LOCK" \notin Printing
      BY <1>1, TablesAssumption
    <2>4. \A m \in Modifiers : KeysOf(m) \cap Printing = {}
      BY TablesAssumption DEF ModifierKeys
    <2> QED
      BY <2>1, <2>2, <2>3, <2>4
  <1>3. CASE ~Printable(b)
    <2>1. After(s, b) = Switched(s, b)
      BY <1>3 DEF After
    <2>2. \A m \in Modifiers :
            m \in Switched(s, b) <=> IF b.key \in KeysOf(m) THEN ~b.released ELSE m \in s
      BY <1>1, SwitchedBits
    <2>3. "CAPS_LOCK" \in Switched(s, b)
            <=> (("CAPS_LOCK" \in s) # (~b.released /\ b.key = "CAPS_LOCK"))
      BY <1>1, SwitchedBits
    <2> QED
      BY <1>1, <2>1, <2>2, <2>3
  <1> QED
    BY <1>2, <1>3

\* A modifier has two keys, and Caps Lock is none.
LEMMA TwoKeys ==
  /\ \A m \in Modifiers : \E x, y : KeysOf(m) = {x, y}
  /\ "SHIFT" \in Modifiers /\ "CAPS_LOCK" \notin Modifiers
  BY DEF Modifiers, KeysOf

\* A driver that agrees with the user prints what the key stands for.
LEMMA PrintsMeant ==
  ASSUME capsOn \in BOOLEAN, NEW s, Agrees(s), NEW k \in Printing
  PROVE  Meant(k) \in SUBSET Characters /\ CharacterIn(s, k) \in Meant(k)
  <1> DEFINE caps    == k \in Letters /\ capsOn
             shifted == Held("SHIFT", down) # caps
             clear   == "SHIFT" \notin unsure
                          /\ (k \in Letters => "CAPS_LOCK" \notin unsure)
  <1>1. /\ <<k, "plain">> \in Characters /\ <<k, "shifted">> \in Characters
    BY DEF Characters
  <1>2. CharacterIn(s, k) \in {<<k, "plain">>, <<k, "shifted">>}
    BY DEF CharacterIn
  <1>3. CASE ~clear
    <2>1. Meant(k) = {<<k, "plain">>, <<k, "shifted">>}
      BY <1>3, Zenon DEF Meant
    <2> QED
      BY <1>1, <1>2, <2>1
  <1>4. CASE clear
    <2>1. "SHIFT" \in s <=> Held("SHIFT", down)
      BY <1>4, TwoKeys DEF Agrees
    <2>2. k \in Letters => (capsOn <=> "CAPS_LOCK" \in s)
      BY <1>4 DEF Agrees
    <2>3. (("SHIFT" \in s) # (k \in Letters /\ "CAPS_LOCK" \in s)) <=> shifted
      BY <2>1, <2>2 DEF Held
    <2>4. CASE shifted
      <3>1. Meant(k) = {<<k, "shifted">>}
        BY <1>4, <2>4, Zenon DEF Meant
      <3>2. CharacterIn(s, k) = <<k, "shifted">>
        BY <2>3, <2>4 DEF CharacterIn
      <3> QED
        BY <1>1, <3>1, <3>2
    <2>5. CASE ~shifted
      <3>1. Meant(k) = {<<k, "plain">>}
        BY <1>4, <2>5, Zenon DEF Meant
      <3>2. CharacterIn(s, k) = <<k, "plain">>
        BY <2>3, <2>5 DEF CharacterIn
      <3> QED
        BY <1>1, <3>1, <3>2
    <2> QED
      BY <2>4, <2>5
  <1> QED
    BY <1>3, <1>4

\* The user's step keeps the invariant if it keeps what is known of him.
LEMMA UserStep ==
  ASSUME KeyboardInv, NEW k \in Keys, NEW released \in BOOLEAN, Send(k, released),
         down' \subseteq Keys, capsOn' \in BOOLEAN,
         unsure' \subseteq Modifiers \cup {"CAPS_LOCK"},
         \A m \in Modifiers : KeysOf(m) \subseteq down' => m \in unsure',
         \A s \in SUBSET Status : \A b :
           Agrees(s) /\ Says(b, k, released) => Agrees(After(s, b))'
  PROVE  KeyboardInv'
  <1>1. PICK f, c : Foretold(pending, typed, f, c) /\ Agrees(f[Len(pending)])
    BY DEF KeyboardInv
  <1>2. Types
    BY DEF KeyboardInv
  <1>3. k \in Printing /\ ~released =>
          /\ Meant(k) \in SUBSET Characters
          /\ CharacterIn(f[Len(pending)], k) \in Meant(k)
    BY <1>1, <1>2, PrintsMeant DEF Types
  <1>4. /\ pending' \in Seq(Byte) /\ typed' \in Seq(SUBSET Characters)
        /\ \E g, d, b : /\ Foretold(pending, typed, g, d)' /\ Says(b, k, released)
                        /\ g[Len(pending')] = After(f[Len(pending)], b)
        /\ f[Len(pending)] \in SUBSET Status
        /\ \A i \in DOMAIN typed : typed'[i] = typed[i]
        /\ DOMAIN typed \subseteq DOMAIN typed'
    BY <1>1, <1>2, <1>3, SendForetold
  <1>5. PICK g, d, b : /\ Foretold(pending, typed, g, d)' /\ Says(b, k, released)
                       /\ g[Len(pending')] = After(f[Len(pending)], b)
    BY <1>4
  <1>6. Agrees(g[Len(pending)])'
    BY <1>1, <1>4, <1>5
  <1>7. /\ printed' = printed /\ status' = status /\ events' \in 0 .. MaxEvents
    BY <1>2, KeysAssumption DEF Send, Types
  <1>8. Types'
    BY <1>2, <1>4, <1>7 DEF Types
  <1>9. \A i \in DOMAIN printed : i \in DOMAIN typed
    <2>1. /\ Course(Len(pending), Len(typed), pending, typed, f, c)
          /\ c[0] = Len(printed)
      BY <1>1 DEF Foretold
    <2>2. Len(pending) \in Nat /\ Len(typed) \in Nat
      BY <1>2, LenProperties DEF Types
    <2>3. c[0] <= Len(typed)
      BY ONLY <2>1, <2>2, CourseCounts
    <2>4. /\ DOMAIN printed = 1 .. Len(printed) /\ Len(printed) \in Nat
          /\ DOMAIN typed = 1 .. Len(typed)
      BY <1>2, LenProperties DEF Types
    <2> QED
      BY <2>1, <2>2, <2>3, <2>4
  <1>10. \A i \in DOMAIN printed' : printed'[i] \in typed'[i]
    BY <1>4, <1>7, <1>9 DEF KeyboardInv
  <1> QED
    BY <1>5, <1>6, <1>8, <1>10 DEF KeyboardInv

LEMMA PressStep ==
  ASSUME KeyboardInv, NEW k \in Keys, Press(k)
  PROVE  KeyboardInv'
  <1>1. /\ Send(k, FALSE) /\ down' = down \cup {k}
        /\ capsOn' = (capsOn # (k = "CAPS_LOCK"))
        /\ unsure' = Unsure(down')
    BY DEF Press
  <1>2. /\ down \subseteq Keys /\ unsure \subseteq Modifiers \cup {"CAPS_LOCK"}
        /\ capsOn \in BOOLEAN
    BY DEF KeyboardInv, Types
  <1>3. \A m \in Modifiers : KeysOf(m) \subseteq down' => m \in unsure'
    BY <1>1, TwoKeys DEF Unsure, Held
  <1>4. ASSUME NEW s \in SUBSET Status, NEW b, Agrees(s), Says(b, k, FALSE)
        PROVE  Agrees(After(s, b))'
    <2> DEFINE t == After(s, b)
    <2>1. /\ \A m \in Modifiers : m \in t <=> k \in KeysOf(m) \/ m \in s
          /\ "CAPS_LOCK" \in t <=> (("CAPS_LOCK" \in s) # (k = "CAPS_LOCK"))
      BY <1>4, BitsAfter
    <2> HIDE DEF t
    <2>2. \A m \in Modifiers : Held(m, down') <=> k \in KeysOf(m) \/ Held(m, down)
      BY <1>1 DEF Held
    <2>3. \A m \in Modifiers : m \in t => Held(m, down')
      BY <1>4, <2>1, <2>2 DEF Agrees
    <2>4. \A m \in Modifiers \ unsure' : Held(m, down') => m \in t
      BY <1>1, <1>4, <2>1, <2>2 DEF Agrees, Unsure
    <2>5. "CAPS_LOCK" \notin unsure' => (capsOn' <=> "CAPS_LOCK" \in t)
      <3>1. "CAPS_LOCK" \in unsure => "CAPS_LOCK" \in unsure'
        BY <1>1, TwoKeys DEF Unsure
      <3>2. "CAPS_LOCK" \notin unsure => (capsOn <=> "CAPS_LOCK" \in s)
        BY <1>4 DEF Agrees
      <3>3. capsOn' <=> (capsOn # (k = "CAPS_LOCK"))
        BY <1>1
      <3>4. capsOn \in BOOLEAN
        BY <1>2
      <3> QED
        BY ONLY <2>1, <3>1, <3>2, <3>3, <3>4
    <2> QED
      BY <2>3, <2>4, <2>5 DEF Agrees, t
  <1>5. unsure' \subseteq Modifiers \cup {"CAPS_LOCK"}
    BY <1>1, <1>2 DEF Unsure
  <1>6. down' \subseteq Keys /\ capsOn' \in BOOLEAN
    BY <1>1, <1>2
  <1> QED
    BY <1>1, <1>3, <1>4, <1>5, <1>6, UserStep

LEMMA RepeatStep ==
  ASSUME KeyboardInv, NEW k \in Keys, Repeat(k)
  PROVE  KeyboardInv'
  <1>1. /\ Send(k, FALSE) /\ k \in down /\ down' = down /\ capsOn' = capsOn
        /\ unsure' = unsure \cup ({k} \cap {"CAPS_LOCK"})
    BY DEF Repeat
  <1>2. /\ down \subseteq Keys /\ unsure \subseteq Modifiers \cup {"CAPS_LOCK"}
        /\ capsOn \in BOOLEAN
    BY DEF KeyboardInv, Types
  <1>3. \A m \in Modifiers : KeysOf(m) \subseteq down' => m \in unsure'
    BY <1>1 DEF KeyboardInv
  <1>4. ASSUME NEW s \in SUBSET Status, NEW b, Agrees(s), Says(b, k, FALSE)
        PROVE  Agrees(After(s, b))'
    <2> DEFINE t == After(s, b)
    <2>1. /\ \A m \in Modifiers : m \in t <=> k \in KeysOf(m) \/ m \in s
          /\ "CAPS_LOCK" \in t <=> (("CAPS_LOCK" \in s) # (k = "CAPS_LOCK"))
      BY <1>4, BitsAfter
    <2> HIDE DEF t
    <2>2. \A m \in Modifiers : k \in KeysOf(m) => Held(m, down)
      BY <1>1 DEF Held
    <2>3. \A m \in Modifiers : m \in t => Held(m, down')
      BY <1>1, <1>4, <2>1, <2>2 DEF Agrees
    <2>4. \A m \in Modifiers \ unsure' : Held(m, down') => m \in t
      BY <1>1, <1>4, <2>1 DEF Agrees
    <2>5. "CAPS_LOCK" \notin unsure' => (capsOn' <=> "CAPS_LOCK" \in t)
      <3>1. "CAPS_LOCK" \notin unsure' => "CAPS_LOCK" \notin unsure /\ k # "CAPS_LOCK"
        BY <1>1
      <3>2. "CAPS_LOCK" \notin unsure => (capsOn <=> "CAPS_LOCK" \in s)
        BY <1>4 DEF Agrees
      <3> QED
        BY <1>1, <2>1, <3>1, <3>2
    <2> QED
      BY <2>3, <2>4, <2>5 DEF Agrees, t
  <1>5. unsure' \subseteq Modifiers \cup {"CAPS_LOCK"}
    BY <1>1, <1>2
  <1>6. down' \subseteq Keys /\ capsOn' \in BOOLEAN
    BY <1>1, <1>2
  <1> QED
    BY <1>1, <1>3, <1>4, <1>5, <1>6, UserStep

\* A modifier whose other key is still held has had both down: it is unsure.
LEMMA ReleaseStep ==
  ASSUME KeyboardInv, NEW k \in Keys, Release(k)
  PROVE  KeyboardInv'
  <1>1. /\ Send(k, TRUE) /\ k \in down /\ down' = down \ {k} /\ capsOn' = capsOn
        /\ unsure' = Unsure(down')
    BY DEF Release
  <1>2. /\ down \subseteq Keys /\ unsure \subseteq Modifiers \cup {"CAPS_LOCK"}
        /\ capsOn \in BOOLEAN
        /\ \A m \in Modifiers : KeysOf(m) \subseteq down => m \in unsure
    BY DEF KeyboardInv, Types
  <1>3. \A m \in Modifiers : KeysOf(m) \subseteq down' => m \in unsure'
    BY <1>1, TwoKeys DEF Unsure, Held
  <1>4. ASSUME NEW s \in SUBSET Status, NEW b, Agrees(s), Says(b, k, TRUE)
        PROVE  Agrees(After(s, b))'
    <2> DEFINE t == After(s, b)
    <2>1. /\ \A m \in Modifiers : m \in t <=> k \notin KeysOf(m) /\ m \in s
          /\ "CAPS_LOCK" \in t <=> "CAPS_LOCK" \in s
      <3>1. /\ \A m \in Modifiers : m \in t <=> IF k \in KeysOf(m) THEN ~TRUE ELSE m \in s
            /\ "CAPS_LOCK" \in t
                 <=> (("CAPS_LOCK" \in s) # (~TRUE /\ k = "CAPS_LOCK"))
        BY <1>4, BitsAfter
      <3> QED
        BY ONLY <3>1
    <2> HIDE DEF t
    <2>2. \A m \in Modifiers :
            k \notin KeysOf(m) => (Held(m, down') <=> Held(m, down))
      BY <1>1 DEF Held
    <2>3. \A m \in Modifiers : m \in t => Held(m, down')
      BY <1>4, <2>1, <2>2 DEF Agrees
    <2>4. ASSUME NEW m \in Modifiers \ unsure', Held(m, down') PROVE m \in t
      <3>1. m \notin unsure
        BY <1>1, <2>4 DEF Unsure
      <3>2. k \notin KeysOf(m)
        <4>1. PICK x, y : KeysOf(m) = {x, y}
          BY TwoKeys
        <4> QED
          BY <1>1, <1>2, <2>4, <3>1, <4>1 DEF Held
      <3> QED
        BY <1>4, <2>1, <2>2, <2>4, <3>1, <3>2 DEF Agrees
    <2>5. "CAPS_LOCK" \notin unsure' => (capsOn' <=> "CAPS_LOCK" \in t)
      BY <1>1, <1>4, <2>1, TwoKeys DEF Agrees, Unsure
    <2> QED
      BY <2>3, <2>4, <2>5 DEF Agrees, t
  <1>5. unsure' \subseteq Modifiers \cup {"CAPS_LOCK"}
    BY <1>1, <1>2 DEF Unsure
  <1>6. down' \subseteq Keys /\ capsOn' \in BOOLEAN
    BY <1>1, <1>2
  <1> QED
    BY <1>1, <1>3, <1>4, <1>5, <1>6, UserStep

-----------------------------------------------------------------------------
(***************************************************************************)
(* The theorems                                                            *)
(***************************************************************************)

\* Nothing is foretold of no bytes; only what was held before init_keyboard
\* is unsure.
LEMMA InitKeyboard ==
  Init => KeyboardInv
  <1> SUFFICES ASSUME Init PROVE KeyboardInv
    OBVIOUS
  <1>1. /\ status = {} /\ pending = <<>> /\ printed = <<>> /\ typed = <<>>
        /\ down \in SUBSET ModifierKeys /\ capsOn = FALSE
        /\ unsure = {m \in Modifiers : Held(m, down)} /\ events = 0
    BY DEF Init
  <1>2. Types
    <2>1. /\ <<>> \in Seq(Byte) /\ <<>> \in Seq(Characters)
          /\ <<>> \in Seq(SUBSET Characters)
      OBVIOUS
    <2>2. down \subseteq Keys
      BY <1>1 DEF Keys
    <2>3. 0 \in 0 .. MaxEvents
      BY KeysAssumption
    <2>4. unsure \subseteq Modifiers \cup {"CAPS_LOCK"} /\ capsOn \in BOOLEAN
      BY <1>1
    <2> QED
      BY <1>1, <2>1, <2>2, <2>3, <2>4 DEF Types
  <1>3. \A m \in Modifiers : KeysOf(m) \subseteq down => m \in unsure
    BY <1>1, TwoKeys DEF Held
  <1>4. Agrees({})
    BY <1>1 DEF Agrees
  <1>5. Len(pending) = 0 /\ Len(typed) = 0 /\ Len(printed) = 0
    BY <1>1
  <1> DEFINE f == [i \in 0 .. 0 |-> {}]
             c == [i \in 0 .. 0 |-> 0]
  <1>6. f[0] = {} /\ c[0] = 0
    OBVIOUS
  <1>7. Course(0, 0, pending, typed, f, c)
    <2>1. f \in [0 .. 0 -> SUBSET Status] /\ c \in [0 .. 0 -> Nat]
      OBVIOUS
    <2> HIDE DEF f, c
    <2>2. \A i \in 1 .. 0 : FALSE
      OBVIOUS
    <2>3. \A i \in 0 .. 0 : i = 0
      OBVIOUS
    <2>4. \A i, j \in 0 .. 0 : i <= j => c[i] <= c[j]
      BY <1>6, <2>3
    <2> QED
      BY <1>6, <2>1, <2>2, <2>4 DEF Course
  <1> HIDE DEF f, c
  <1>8. Foretold(pending, typed, f, c) /\ Agrees(f[Len(pending)])
    BY <1>1, <1>4, <1>5, <1>6, <1>7 DEF Foretold
  <1> QED
    BY <1>1, <1>2, <1>3, <1>8 DEF KeyboardInv

LEMMA KeyboardStep ==
  KeyboardInv /\ [Next]_vars => KeyboardInv'
  <1> SUFFICES ASSUME KeyboardInv, [Next]_vars PROVE KeyboardInv'
    OBVIOUS
  <1>1. CASE keyboard_handler
    BY <1>1, HandlerStep
  <1>2. ASSUME NEW k \in Keys, Press(k) PROVE KeyboardInv'
    BY <1>2, PressStep
  <1>3. ASSUME NEW k \in Keys, Repeat(k) PROVE KeyboardInv'
    BY <1>3, RepeatStep
  <1>4. ASSUME NEW k \in Keys, Release(k) PROVE KeyboardInv'
    BY <1>4, ReleaseStep
  <1>5. CASE UNCHANGED vars
    BY <1>5 DEF vars, KeyboardInv, Types, Foretold, Agrees
  <1> QED
    BY <1>1, <1>2, <1>3, <1>4, <1>5 DEF Next

(***************************************************************************)
(* The inductive invariant: what the driver will make of the bytes that    *)
(* wait is what the user typed, and at their end it knows what he holds.   *)
(***************************************************************************)
THEOREM KeyboardInductive == Spec => []KeyboardInv
  <1> QED
    BY InitKeyboard, KeyboardStep, PTL DEF Spec

(***************************************************************************)
(* Only bits of keyboard.h are in status, and only characters of the       *)
(* tables are printed.                                                     *)
(***************************************************************************)
THEOREM KeyboardTypes == Spec => []TypeOK
  <1>1. KeyboardInv => TypeOK
    BY DEF KeyboardInv, Types, TypeOK, Byte, Status, Characters
  <1> QED
    BY <1>1, KeyboardInductive, PTL

\* With no byte waiting, the driver's status agrees with the user.
LEMMA AllRead ==
  ASSUME KeyboardInv, pending = <<>>
  PROVE  Agrees(status) /\ Len(printed) = Len(typed)
  <1>1. PICK f, c : Foretold(pending, typed, f, c) /\ Agrees(f[Len(pending)])
    BY DEF KeyboardInv
  <1>2. Len(pending) = 0
    OBVIOUS
  <1> QED
    BY <1>1, <1>2 DEF Foretold, Course

(***************************************************************************)
(* No modifier of keyboard_handler stays on without a key of it held.      *)
(***************************************************************************)
THEOREM ModifiersNeverStick == Spec => []NothingSticks
  <1>1. KeyboardInv => NothingSticks
    BY AllRead DEF NothingSticks, Agrees
  <1> QED
    BY <1>1, KeyboardInductive, PTL

(***************************************************************************)
(* And none it can know of is missed.                                      *)
(***************************************************************************)
THEOREM ModifiersNeverMissed == Spec => []NothingMissed
  <1>1. KeyboardInv => NothingMissed
    BY AllRead DEF NothingMissed, Agrees
  <1> QED
    BY <1>1, KeyboardInductive, PTL

(***************************************************************************)
(* However late the bytes are read, what is printed is what was typed.     *)
(***************************************************************************)
THEOREM PrintsAsTyped == Spec => []PrintedAsTyped
  <1>1. ASSUME KeyboardInv PROVE PrintedAsTyped
    <2>1. PICK f, c : Foretold(pending, typed, f, c)
      BY <1>1 DEF KeyboardInv
    <2>2. Len(pending) \in Nat /\ Len(typed) \in Nat
      BY <1>1, LenProperties DEF KeyboardInv, Types
    <2>3. /\ Course(Len(pending), Len(typed), pending, typed, f, c)
          /\ c[0] = Len(printed)
      BY <2>1 DEF Foretold
    <2>4. c[0] <= Len(typed)
      BY ONLY <2>2, <2>3, CourseCounts
    <2>5. pending = <<>> => Len(printed) = Len(typed)
      BY <1>1, AllRead
    <2> QED
      BY <1>1, <2>3, <2>4, <2>5 DEF PrintedAsTyped, KeyboardInv
  <1> QED
    BY <1>1, KeyboardInductive, PTL

=============================================================================
