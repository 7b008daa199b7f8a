--------------------------- MODULE BotConfigProofs ---------------------------
(***************************************************************************)
(* The proofs of BotConfig: what was stored with a bot is restored, the    *)
(* modules are started with it, and clients are never told anything that   *)
(* is out of date, for any modules, variables, defaults and commands.      *)
(* Then those of BotRegistry, for any number of bots and identifiers.      *)
(***************************************************************************)
EXTENDS BotConfig, BotRegistry, SequenceTheorems, WellFoundedInduction, TLAPS

\* Induction over the natural numbers for a set.
LEMMA SetInduction ==
  ASSUME NEW T, 0 \in T, \A n \in Nat : n \in T => n + 1 \in T
  PROVE  Nat \subseteq T
<1> DEFINE C == Nat \ T
<1>1. SUFFICES ASSUME C # {} PROVE FALSE
  OBVIOUS
<1>2. PICK n \in C : \A m \in C : ~(<<m, n>> \in OpToRel(<, Nat))
  <2>1. C \subseteq Nat /\ C # {}
    BY <1>1
  <2> HIDE DEF C
  <2> QED BY <2>1, WFMin, NatLessThanWellFounded
<1>3. \A m \in Nat : m < n => m \in T
  BY <1>2 DEF OpToRel
<1>4. n \in Nat /\ n # 0
  BY <1>2
<1>5. n - 1 \in Nat /\ n - 1 < n /\ (n - 1) + 1 = n
  BY <1>4
<1> QED BY <1>2, <1>3, <1>5

-----------------------------------------------------------------------------
(***************************************************************************)
(* Sequences of commands: their sets and their order.                      *)
(***************************************************************************)

\* The indices of a sequence.
LEMMA SetOf ==
  ASSUME NEW S, NEW s \in Seq(S)
  PROVE  /\ Len(s) \in Nat
         /\ ToSet(s) = {s[i] : i \in 1..Len(s)}
         /\ ToSet(s) \subseteq S
BY DEF ToSet

\* Two sequences, one after the other.
LEMMA ConcatSet ==
  ASSUME NEW S, NEW s \in Seq(S), NEW t \in Seq(S)
  PROVE  /\ s \o t \in Seq(S)
         /\ ToSet(s \o t) = ToSet(s) \cup ToSet(t)
<1> DEFINE u == s \o t
<1>1. /\ u \in Seq(S) /\ Len(u) = Len(s) + Len(t)
      /\ \A i \in 1..(Len(s) + Len(t)) : u[i] = IF i <= Len(s) THEN s[i] ELSE t[i - Len(s)]
  BY ConcatProperties
<1>2. Len(s) \in Nat /\ Len(t) \in Nat
  OBVIOUS
<1> DEFINE m == Len(s)
           n == Len(t)
<1> HIDE DEF u, m, n
<1>3. ToSet(u) = {u[i] : i \in 1..(m + n)} /\ ToSet(s) = {s[i] : i \in 1..m}
      /\ ToSet(t) = {t[i] : i \in 1..n}
  BY <1>1, SetOf DEF m, n
<1>4. m \in Nat /\ n \in Nat
      /\ \A i \in 1..(m + n) : u[i] = IF i <= m THEN s[i] ELSE t[i - m]
  BY <1>1, <1>2 DEF m, n
<1>5. ASSUME NEW i \in 1..(m + n) PROVE u[i] \in ToSet(s) \cup ToSet(t)
  <2>1. i <= m => i \in 1..m
    BY <1>4
  <2>2. ~(i <= m) => i - m \in 1..n
    BY <1>4
  <2> QED BY <1>3, <1>4, <2>1, <2>2
<1>6. ASSUME NEW i \in 1..m PROVE s[i] \in ToSet(u)
  <2>1. i \in 1..(m + n) /\ i <= m
    BY <1>4
  <2> QED BY <1>3, <1>4, <2>1
<1>7. ASSUME NEW i \in 1..n PROVE t[i] \in ToSet(u)
  <2>1. i + m \in 1..(m + n) /\ ~(i + m <= m) /\ (i + m) - m = i
    BY <1>4
  <2> QED BY <1>3, <1>4, <2>1
<1>8. ToSet(u) = ToSet(s) \cup ToSet(t)
  <2>1. ToSet(u) \subseteq ToSet(s) \cup ToSet(t)
    BY <1>3, <1>5
  <2>2. ToSet(s) \subseteq ToSet(u)
    BY <1>3, <1>6
  <2>3. ToSet(t) \subseteq ToSet(u)
    BY <1>3, <1>7
  <2> QED BY <2>1, <2>2, <2>3
<1>9. u \in Seq(S)
  BY <1>1
<1> QED BY <1>8, <1>9 DEF u

\* They are in order if each is, and nothing of the second comes too late.
LEMMA ConcatOrdered ==
  ASSUME NEW S, NEW s \in Seq(S), NEW t \in Seq(S), Ordered(s), Ordered(t),
         \A c \in ToSet(s), d \in ToSet(t) : ~Activates(c, d)
  PROVE  Ordered(s \o t)
<1> DEFINE u == s \o t
           m == Len(s)
           n == Len(t)
<1>1. /\ Len(u) = m + n
      /\ \A i \in 1..(m + n) : u[i] = IF i <= m THEN s[i] ELSE t[i - m]
  BY ConcatProperties
<1>2. m \in Nat /\ n \in Nat /\ ToSet(s) = {s[i] : i \in 1..m}
      /\ ToSet(t) = {t[i] : i \in 1..n}
  BY SetOf
<1>3. \A i, j \in 1..m : Activates(s[i], s[j]) => j < i
  BY DEF Ordered
<1>4. \A i, j \in 1..n : Activates(t[i], t[j]) => j < i
  BY DEF Ordered
<1>5. \A i \in 1..m, j \in 1..n : ~Activates(s[i], t[j])
  BY <1>2
<1> HIDE DEF u, m, n
<1>6. ASSUME NEW i \in 1..(m + n), NEW j \in 1..(m + n), Activates(u[i], u[j])
      PROVE  j < i
  <2>1. CASE i <= m /\ j <= m
    <3>1. i \in 1..m /\ j \in 1..m
      BY <1>2, <2>1
    <3> QED BY <1>1, <1>3, <1>6, <2>1, <3>1
  <2>2. CASE i <= m /\ ~(j <= m)
    <3>1. i \in 1..m /\ j - m \in 1..n
      BY <1>2, <2>2
    <3> QED BY <1>1, <1>5, <1>6, <2>2, <3>1
  <2>3. CASE ~(i <= m) /\ j <= m
    BY <1>2, <2>3
  <2>4. CASE ~(i <= m) /\ ~(j <= m)
    <3>1. i - m \in 1..n /\ j - m \in 1..n
      BY <1>2, <2>4
    <3>2. j - m < i - m
      BY <1>1, <1>4, <1>6, <2>4, <3>1
    <3> QED BY <1>2, <3>2
  <2> QED BY <2>1, <2>2, <2>3, <2>4
<1> QED BY <1>1, <1>6 DEF Ordered, u

\* The first i of pieces, one after the other, given the first i - 1 of them.
Joining(f, p, i) == IF i = 1 THEN p[i] ELSE f[i - 1] \o p[i]

\* The recursion of FlattenSeq has a solution up to every length.
LEMMA JoiningExists ==
  ASSUME NEW p, NEW n \in Nat
  PROVE  \E f : f = [i \in 1..n |-> Joining(f, p, i)]
<1> DEFINE Solves(f, m) == f = [i \in 1..m |-> Joining(f, p, i)]
           T == {m \in Nat : \E f : Solves(f, m)}
<1>1. 0 \in T
  <2>1. Solves([i \in 1..0 |-> <<>>], 0)
    OBVIOUS
  <2> QED BY <2>1
<1>2. ASSUME NEW m \in Nat, m \in T PROVE m + 1 \in T
  <2>1. PICK f : Solves(f, m)
    BY <1>2
  <2> DEFINE more == [i \in 1..(m + 1) |-> IF i = m + 1 THEN Joining(f, p, i) ELSE f[i]]
  <2>2. \A i \in 1..m : f[i] = Joining(f, p, i)
    BY <2>1
  <2>3. ASSUME NEW i \in 1..(m + 1) PROVE more[i] = Joining(more, p, i)
    <3>1. i # 1 => i - 1 \in 1..m /\ i - 1 # m + 1 /\ i - 1 \in 1..(m + 1)
      OBVIOUS
    <3>2. i # 1 => more[i - 1] = f[i - 1]
      BY <3>1
    <3>3. more[i] = Joining(f, p, i)
      <4>1. CASE i = m + 1
        BY <4>1
      <4>2. CASE i # m + 1
        <5>1. i \in 1..m
          BY <4>2
        <5> QED BY <2>2, <4>2, <5>1
      <4> QED BY <4>1, <4>2
    <3> HIDE DEF more
    <3> QED BY <3>2, <3>3 DEF Joining
  <2>4. Solves(more, m + 1)
    <3>1. more = [i \in 1..(m + 1) |-> more[i]]
      OBVIOUS
    <3> HIDE DEF more
    <3>2. [i \in 1..(m + 1) |-> more[i]] = [i \in 1..(m + 1) |-> Joining(more, p, i)]
      BY <2>3
    <3> QED BY <3>1, <3>2, Zenon
  <2> HIDE DEF more, Solves
  <2> QED BY <2>4
<1>3. Nat \subseteq T
  <2> HIDE DEF T
  <2> QED BY <1>1, <1>2, SetInduction
<1> QED BY <1>3

\* So FlattenSeq is what has been joined at the end.
LEMMA FlattenIsJoined ==
  ASSUME NEW p, Len(p) \in Nat, Len(p) # 0
  PROVE  \E f : /\ \A i \in 1..Len(p) : f[i] = Joining(f, p, i)
                /\ FlattenSeq(p) = f[Len(p)]
<1> DEFINE f == CHOOSE g : g = [i \in 1..Len(p) |-> Joining(g, p, i)]
<1>1. f = [i \in 1..Len(p) |-> Joining(f, p, i)]
  <2>1. \E g : g = [i \in 1..Len(p) |-> Joining(g, p, i)]
    BY JoiningExists
  <2> QED BY <2>1, Zenon
<1>2. FlattenSeq(p) = f[Len(p)]
  BY DEF FlattenSeq, Joining
<1> HIDE DEF f
<1>3. \A i \in 1..Len(p) : f[i] = Joining(f, p, i)
  BY <1>1
<1> QED BY <1>2, <1>3

\* FlattenSeq has the elements of all pieces, in order if no piece has something
\* that a later one comes too late for.
LEMMA FlattenProperties ==
  ASSUME NEW S, NEW p \in Seq(Seq(S))
  PROVE  /\ FlattenSeq(p) \in Seq(S)
         /\ ToSet(FlattenSeq(p)) = UNION {ToSet(p[j]) : j \in 1..Len(p)}
         /\ /\ \A i \in 1..Len(p) : Ordered(p[i])
            /\ \A i, j \in 1..Len(p) : i < j =>
                 \A c \in ToSet(p[i]), d \in ToSet(p[j]) : ~Activates(c, d)
            => Ordered(FlattenSeq(p))
<1> DEFINE n == Len(p)
           Apart == /\ \A i \in 1..n : Ordered(p[i])
                    /\ \A i, j \in 1..n : i < j =>
                         \A c \in ToSet(p[i]), d \in ToSet(p[j]) : ~Activates(c, d)
           Upto(i) == UNION {ToSet(p[j]) : j \in 1..i}
           Good(s, i) == /\ s \in Seq(S)
                         /\ ToSet(s) = Upto(i)
                         /\ Apart => Ordered(s)
<1>0. n \in Nat /\ \A i \in 1..n : p[i] \in Seq(S)
  OBVIOUS
<1>1. ASSUME n = 0 PROVE Good(FlattenSeq(p), n)
  <2>1. FlattenSeq(p) = p
    BY <1>1 DEF FlattenSeq
  <2>2. p = <<>>
    BY <1>1, EmptySeq
  <2>3. Good(<<>>, 0)
    <3>1. <<>> \in Seq(S) /\ DOMAIN <<>> = {} /\ 1..0 = {} /\ Len(<<>>) = 0
      OBVIOUS
    <3> QED BY <3>1 DEF ToSet, Ordered
  <2> HIDE DEF Good
  <2> QED BY <1>1, <2>1, <2>2, <2>3
<1>2. ASSUME n # 0 PROVE Good(FlattenSeq(p), n)
  <2>1. PICK f : /\ \A i \in 1..n : f[i] = Joining(f, p, i)
                 /\ FlattenSeq(p) = f[n]
    BY <1>0, <1>2, FlattenIsJoined
  <2> DEFINE T == {i \in Nat : i < n => Good(f[i + 1], i + 1)}
  <2> HIDE DEF n
  <2>2. 0 \in T
    <3>1. f[1] = p[1] /\ p[1] \in Seq(S) /\ 1 \in 1..n
      BY <1>0, <1>2, <2>1 DEF Joining
    <3>2. Upto(1) = ToSet(p[1])
      <4>1. 1..1 = {1}
        OBVIOUS
      <4> QED BY <4>1
    <3>3. Good(p[1], 1)
      BY <3>1, <3>2
    <3> HIDE DEF Good
    <3> QED BY <3>1, <3>3
  <2>3. ASSUME NEW i \in Nat, i \in T PROVE i + 1 \in T
    <3> SUFFICES ASSUME i + 1 < n PROVE Good(f[i + 2], i + 2)
      <4>1. (i + 1) + 1 = i + 2
        OBVIOUS
      <4> HIDE DEF Good
      <4> QED BY <4>1
    <3>1. /\ i < n /\ i + 1 \in 1..n /\ i + 2 \in 1..n /\ i + 2 # 1
          /\ (i + 2) - 1 = i + 1
      BY <1>0
    <3>2. Good(f[i + 1], i + 1)
      <4> HIDE DEF Good
      <4> QED BY <2>3, <3>1
    <3>3. f[i + 2] = f[i + 1] \o p[i + 2]
      BY <2>1, <3>1 DEF Joining
    <3>4. p[i + 2] \in Seq(S) /\ f[i + 1] \in Seq(S)
      BY <1>0, <3>1, <3>2
    <3> DEFINE s == f[i + 1]
               t == p[i + 2]
    <3>5. s \o t \in Seq(S) /\ ToSet(s \o t) = ToSet(s) \cup ToSet(t)
      BY <3>4, ConcatSet
    <3>6. ToSet(s \o t) = Upto(i + 2)
      <4>1. 1..(i + 2) = (1..(i + 1)) \cup {i + 2}
        OBVIOUS
      <4>2. Upto(i + 2) = Upto(i + 1) \cup ToSet(t)
        BY <4>1
      <4> HIDE DEF Upto, s, t
      <4>3. ToSet(s) = Upto(i + 1)
        BY <3>2 DEF s
      <4> QED BY <3>5, <4>2, <4>3
    <3>7. ASSUME Apart PROVE Ordered(s \o t)
      <4>1. Ordered(s) /\ Ordered(t)
        BY <3>1, <3>2, <3>7
      <4>2. ASSUME NEW c \in ToSet(s), NEW d \in ToSet(t) PROVE ~Activates(c, d)
        <5>1. PICK j \in 1..(i + 1) : c \in ToSet(p[j])
          BY <3>2
        <5>2. j \in 1..n /\ j < i + 2
          BY <1>0, <3>1
        <5> QED BY <3>1, <3>7, <5>1, <5>2
      <4> HIDE DEF s, t, Apart
      <4> QED BY <3>4, <4>1, <4>2, ConcatOrdered DEF s, t
    <3> HIDE DEF Apart, Upto
    <3> QED BY <3>3, <3>5, <3>6, <3>7
  <2>4. Nat \subseteq T
    <3> HIDE DEF T
    <3> QED BY <2>2, <2>3, SetInduction
  <2>5. n - 1 \in Nat /\ n - 1 < n /\ (n - 1) + 1 = n
    BY <1>0, <1>2
  <2>6. Good(f[n], n)
    <3>1. n - 1 \in T
      <4> HIDE DEF T
      <4> QED BY <2>4, <2>5
    <3> HIDE DEF Good
    <3> QED BY <2>5, <3>1
  <2> HIDE DEF Good
  <2> QED BY <2>1, <2>6
<1> QED BY <1>1, <1>2

\* One command more.
LEMMA AppendSet ==
  ASSUME NEW S, NEW s \in Seq(S), NEW x \in S
  PROVE  /\ Append(s, x) \in Seq(S)
         /\ ToSet(Append(s, x)) = ToSet(s) \cup {x}
         /\ /\ Ordered(s)
            /\ \A c \in ToSet(s) : ~Activates(c, x)
            => Ordered(Append(s, x))
<1> DEFINE t == <<x>>
<1>1. t \in Seq(S) /\ Len(t) = 1 /\ t[1] = x
  OBVIOUS
<1>2. Append(s, x) = s \o t
  OBVIOUS
<1> HIDE DEF t
<1>3. ToSet(t) = {x}
  <2>1. 1..1 = {1}
    OBVIOUS
  <2> QED BY <1>1, <2>1, SetOf
<1>4. Ordered(t)
  <2>1. ~Activates(x, x)
    BY DEF Activates
  <2> QED BY <1>1, <2>1 DEF Ordered
<1>5. s \o t \in Seq(S) /\ ToSet(s \o t) = ToSet(s) \cup ToSet(t)
  BY <1>1, ConcatSet
<1>6. ASSUME Ordered(s), \A c \in ToSet(s) : ~Activates(c, x)
      PROVE  Ordered(s \o t)
  BY <1>1, <1>3, <1>4, <1>6, ConcatOrdered
<1> QED BY <1>2, <1>3, <1>5, <1>6

\* One command less.
LEMMA TailSet ==
  ASSUME NEW S, NEW s \in Seq(S), s # <<>>
  PROVE  /\ Tail(s) \in Seq(S) /\ Head(s) \in S
         /\ ToSet(s) = {Head(s)} \cup ToSet(Tail(s))
         /\ Ordered(s) => /\ Ordered(Tail(s))
                          /\ \A d \in ToSet(Tail(s)) : ~Activates(Head(s), d)
<1> DEFINE t == Tail(s)
           n == Len(s)
<1>1. /\ t \in Seq(S) /\ Len(t) = n - 1 /\ Head(s) = s[1] /\ Head(s) \in S
      /\ \A i \in 1..(n - 1) : t[i] = s[i + 1]
      /\ n \in Nat /\ n # 0
  BY HeadTailProperties, EmptySeq
<1>2. ToSet(s) = {s[i] : i \in 1..n} /\ ToSet(t) = {t[i] : i \in 1..(n - 1)}
  BY <1>1, SetOf
<1>3. \A i, j \in 1..n : Ordered(s) /\ Activates(s[i], s[j]) => j < i
  BY DEF Ordered
<1> HIDE DEF t, n
<1>4. \A i \in 1..(n - 1) : i + 1 \in 1..n
  BY <1>1
<1>5. 1 \in 1..n
  BY <1>1
<1>6. ToSet(s) = {Head(s)} \cup ToSet(t)
  <2>1. ASSUME NEW i \in 1..n PROVE s[i] \in {Head(s)} \cup ToSet(t)
    <3>1. CASE i = 1
      BY <1>1, <3>1
    <3>2. CASE i # 1
      <4>1. i - 1 \in 1..(n - 1) /\ (i - 1) + 1 = i
        BY <1>1, <3>2
      <4> QED BY <1>1, <1>2, <4>1
    <3> QED BY <3>1, <3>2
  <2>2. ASSUME NEW i \in 1..(n - 1) PROVE t[i] \in ToSet(s)
    BY <1>1, <1>2, <1>4
  <2>3. Head(s) \in ToSet(s)
    BY <1>1, <1>2, <1>5
  <2> QED BY <1>2, <2>1, <2>2, <2>3
<1>7. ASSUME Ordered(s)
      PROVE  Ordered(t) /\ \A d \in ToSet(t) : ~Activates(Head(s), d)
  <2>1. ASSUME NEW i \in 1..(n - 1), NEW j \in 1..(n - 1), Activates(t[i], t[j])
        PROVE  j < i
    <3>1. j + 1 < i + 1
      BY <1>1, <1>3, <1>4, <1>7, <2>1
    <3> QED BY <1>1, <3>1
  <2>2. ASSUME NEW i \in 1..(n - 1) PROVE ~Activates(s[1], t[i])
    <3>1. ~(i + 1 < 1)
      BY <1>1
    <3> QED BY <1>1, <1>3, <1>4, <1>5, <1>7, <3>1
  <2>3. Len(t) = n - 1
    BY <1>1
  <2> QED BY <1>1, <1>2, <2>1, <2>2, <2>3 DEF Ordered
<1> QED BY <1>1, <1>6, <1>7 DEF t

-----------------------------------------------------------------------------
(***************************************************************************)
(* What init_command_sequence makes of settings.                           *)
(***************************************************************************)

\* The names of modules and variables.
LEMMA Names ==
  /\ \A m \in ToSet(ModuleOrder) : m \in STRING /\ m # "base"
  /\ \A v \in Variables : v \in STRING
  /\ Modules = ToSet(ModuleOrder) \ {"shared"}
  /\ "base" \notin Modules /\ "shared" \notin Modules
  /\ "active" \in Variables
BY OrderAssumption, SetOf DEF Variables, Modules

\* What is on or off is a value, and not a reference.
LEMMA Texts ==
  /\ \A t \in STRING : Text(t) \in Value
  /\ \A t : Text(t).sigil = "plain"
  /\ Text("0") \in Value /\ Text("1") \in Value
<1>1. \A t \in STRING : Text(t) \in Value
  BY DEF Text, Value, Sigils
<1>2. "0" \in STRING /\ "1" \in STRING
  BY LiteralAssumption DEF Numerals
<1>3. \A t : Text(t).sigil = "plain"
  BY DEF Text
<1> HIDE DEF Text, Value
<1> QED BY <1>1, <1>2, <1>3

\* What a command for a variable of a module may be.
Replay(s, m, c) ==
  /\ c \in CommandType /\ c.by = "replay"
  /\ c.module = m /\ c.variable \in Variables
  /\ Has(s, <<m, c.variable>>) => c.value = s[<<m, c.variable>>]

\* The commands for a module.
LEMMA ModuleCommandsProperties ==
  ASSUME NEW s, Storable(s), NEW m \in ToSet(ModuleOrder)
  PROVE  /\ ModuleCommands(s, m) \in Seq(CommandType)
         /\ \A c \in ToSet(ModuleCommands(s, m)) : Replay(s, m, c)
         /\ \A v \in Variables :
              Has(s, <<m, v>>) =>
                Command(m, v, s[<<m, v>>], "replay") \in ToSet(ModuleCommands(s, m))
         /\ Ordered(ModuleCommands(s, m))
<1> DEFINE set == [j \in DOMAIN VariableOrder |-> CommandFor(s, m, VariableOrder[j])]
           value == IF Has(s, Active(m)) THEN s[Active(m)] ELSE Text("0")
           active == Command(m, "active", value, "replay")
<1>1. ASSUME NEW v \in Variables, Has(s, <<m, v>>)
      PROVE  Replay(s, m, Command(m, v, s[<<m, v>>], "replay"))
  <2>1. s[<<m, v>>] \in Value
    BY <1>1 DEF Storable, Fits, Has
  <2> QED BY <1>1, <2>1, Names DEF Replay, Command, CommandType
<1>2. Replay(s, m, active)
  <2>1. value \in Value
    BY Texts DEF Storable, Fits, Has
  <2> QED BY <2>1, Names DEF Replay, Command, CommandType, Active
<1>3. ASSUME NEW v \in Variables
      PROVE  /\ CommandFor(s, m, v) \in Seq(CommandType)
             /\ ToSet(CommandFor(s, m, v)) =
                  IF v # "active" /\ Has(s, <<m, v>>)
                  THEN {Command(m, v, s[<<m, v>>], "replay")} ELSE {}
             /\ Ordered(CommandFor(s, m, v))
  <2> DEFINE c == Command(m, v, s[<<m, v>>], "replay")
  <2>1. CASE v # "active" /\ Has(s, <<m, v>>)
    <3>1. c \in CommandType
      BY <1>1, <2>1 DEF Replay
    <3>2. CommandFor(s, m, v) = <<c>>
      BY <2>1 DEF CommandFor
    <3> DEFINE t == <<c>>
    <3> HIDE DEF c
    <3>3. t \in Seq(CommandType) /\ Len(t) = 1 /\ t[1] = c /\ 1..1 = {1}
      BY <3>1
    <3> HIDE DEF t
    <3>4. ToSet(t) = {c}
      BY <3>3, SetOf
    <3>5. Ordered(t)
      BY <3>3 DEF Ordered, Activates
    <3> QED BY <2>1, <3>2, <3>3, <3>4, <3>5 DEF c, t
  <2>2. CASE ~(v # "active" /\ Has(s, <<m, v>>))
    <3>1. CommandFor(s, m, v) = <<>>
      BY <2>2 DEF CommandFor
    <3>2. /\ <<>> \in Seq(CommandType)
          /\ Len(<<>>) = 0 /\ DOMAIN <<>> = {} /\ 1..0 = {}
      OBVIOUS
    <3> QED BY <2>2, <3>1, <3>2 DEF ToSet, Ordered
  <2> QED BY <2>1, <2>2
<1>4. /\ set \in Seq(Seq(CommandType)) /\ Len(set) = Len(VariableOrder)
      /\ \A j \in 1..Len(VariableOrder) :
           set[j] = CommandFor(s, m, VariableOrder[j]) /\ VariableOrder[j] \in Variables
      /\ Variables = {VariableOrder[j] : j \in 1..Len(VariableOrder)}
  <2>1. VariableOrder \in Seq(STRING)
    BY OrderAssumption
  <2>2. Variables = {VariableOrder[j] : j \in 1..Len(VariableOrder)}
        /\ DOMAIN VariableOrder = 1..Len(VariableOrder) /\ Len(VariableOrder) \in Nat
    BY <2>1, SetOf DEF Variables
  <2>3. \A j \in 1..Len(VariableOrder) : CommandFor(s, m, VariableOrder[j]) \in Seq(CommandType)
    BY <1>3, <2>2
  <2> QED BY <2>2, <2>3
<1> DEFINE n == Len(VariableOrder)
           flat == FlattenSeq(set)
<1>5. ASSUME NEW c, NEW j \in 1..n, c \in ToSet(set[j])
      PROVE  Replay(s, m, c) /\ c.variable # "active"
  <2>1. /\ VariableOrder[j] # "active" /\ Has(s, <<m, VariableOrder[j]>>)
        /\ c = Command(m, VariableOrder[j], s[<<m, VariableOrder[j]>>], "replay")
    BY <1>3, <1>4, <1>5
  <2> QED BY <1>1, <1>4, <2>1 DEF Command
<1>6. /\ flat \in Seq(CommandType)
      /\ ToSet(flat) = UNION {ToSet(set[j]) : j \in 1..n}
      /\ Ordered(flat)
  <2>1. \A i \in 1..n : Ordered(set[i])
    BY <1>3, <1>4
  <2>2. \A i, j \in 1..n : \A c \in ToSet(set[i]), d \in ToSet(set[j]) : ~Activates(c, d)
    BY <1>5 DEF Activates
  <2>3. Len(set) = n
    BY <1>4
  <2> HIDE DEF set, n
  <2> QED BY <1>4, <2>1, <2>2, <2>3, FlattenProperties
<1> HIDE DEF flat, active
<1>7. CASE \A v \in Variables : ~Has(s, <<m, v>>)
  <2>1. ModuleCommands(s, m) = <<>>
    BY <1>7 DEF ModuleCommands
  <2>2. /\ <<>> \in Seq(CommandType)
        /\ Len(<<>>) = 0 /\ DOMAIN <<>> = {} /\ 1..0 = {}
    OBVIOUS
  <2>3. ToSet(<<>>) = {} /\ Ordered(<<>>)
    BY <2>2 DEF ToSet, Ordered
  <2> QED BY <1>7, <2>1, <2>2, <2>3
<1>8. CASE ~(\A v \in Variables : ~Has(s, <<m, v>>))
  <2>1. ModuleCommands(s, m) = Append(flat, active)
    BY <1>8 DEF ModuleCommands, flat, active
  <2>2. active \in CommandType /\ active.variable = "active"
    BY <1>2 DEF Replay, active, Command
  <2>3. \A c \in ToSet(flat) : Replay(s, m, c) /\ c.variable # "active"
    BY <1>5, <1>6
  <2>4. \A c \in ToSet(flat) : ~Activates(c, active)
    BY <2>3 DEF Activates
  <2>5. /\ Append(flat, active) \in Seq(CommandType)
        /\ ToSet(Append(flat, active)) = ToSet(flat) \cup {active}
        /\ Ordered(Append(flat, active))
    BY <1>6, <2>2, <2>4, AppendSet
  <2>6. ASSUME NEW v \in Variables, Has(s, <<m, v>>)
        PROVE  Command(m, v, s[<<m, v>>], "replay") \in ToSet(Append(flat, active))
    <3>1. CASE v = "active"
      BY <2>5, <2>6, <3>1 DEF active, Active
    <3>2. CASE v # "active"
      <4>1. PICK j \in 1..n : v = VariableOrder[j]
        BY <1>4
      <4>2. Command(m, v, s[<<m, v>>], "replay") \in ToSet(set[j])
        BY <1>3, <1>4, <2>6, <3>2, <4>1
      <4> QED BY <1>6, <2>5, <4>2
    <3> QED BY <3>1, <3>2
  <2> QED BY <1>2, <2>1, <2>3, <2>5, <2>6
<1> QED BY <1>7, <1>8

\* What a replayed command of a configuration may be.
Replayable(s, c) ==
  /\ c.by = "replay" /\ Known(<<c.module, c.variable>>)
  /\ c.module \in Modules /\ Has(s, <<c.module, c.variable>>)
       => c.value = s[<<c.module, c.variable>>]

\* The commands of a whole configuration: every setting of a module has one.
LEMMA InitCommandsProperties ==
  ASSUME NEW s, Storable(s)
  PROVE  /\ InitCommandSequence(s) \in Seq(CommandType)
         /\ \A c \in ToSet(InitCommandSequence(s)) : Replayable(s, c)
         /\ Command("base", "wait_time_factor", s[Factor], "replay")
              \in ToSet(InitCommandSequence(s))
         /\ \A k \in DOMAIN s : k[1] \in Modules =>
              Command(k[1], k[2], s[k], "replay") \in ToSet(InitCommandSequence(s))
         /\ Ordered(InitCommandSequence(s))
<1> DEFINE f == Command("base", "wait_time_factor", s[Factor], "replay")
           first == <<f>>
           pieces == [i \in DOMAIN ModuleOrder |-> ModuleCommands(s, ModuleOrder[i])]
           flat == FlattenSeq(pieces)
           n == Len(ModuleOrder)
<1>1. InitCommandSequence(s) = first \o flat
  BY DEF InitCommandSequence
<1>2. f \in CommandType /\ Replayable(s, f) /\ f.variable = "wait_time_factor"
  <2>1. s[Factor] \in Value
    BY DEF Storable, Fits, Has
  <2>2. "base" \in STRING /\ "wait_time_factor" \in STRING /\ "base" \notin Modules
    BY LiteralAssumption, Names
  <2> QED BY <2>1, <2>2 DEF Replayable, Command, CommandType, Known
<1>3. /\ n \in Nat /\ DOMAIN ModuleOrder = 1..n
      /\ ToSet(ModuleOrder) = {ModuleOrder[i] : i \in 1..n}
      /\ \A i, j \in 1..n : ModuleOrder[i] = ModuleOrder[j] => i = j
  <2>1. ModuleOrder \in Seq(STRING)
    BY OrderAssumption
  <2> QED BY <2>1, OrderAssumption, SetOf
<1>4. \A i \in 1..n :
        /\ ModuleCommands(s, ModuleOrder[i]) \in Seq(CommandType)
        /\ \A c \in ToSet(ModuleCommands(s, ModuleOrder[i])) : Replay(s, ModuleOrder[i], c)
        /\ \A v \in Variables : Has(s, <<ModuleOrder[i], v>>) =>
             Command(ModuleOrder[i], v, s[<<ModuleOrder[i], v>>], "replay")
               \in ToSet(ModuleCommands(s, ModuleOrder[i]))
        /\ Ordered(ModuleCommands(s, ModuleOrder[i]))
  BY <1>3, ModuleCommandsProperties
<1>5. /\ pieces \in Seq(Seq(CommandType)) /\ Len(pieces) = n
      /\ \A i \in 1..n : pieces[i] = ModuleCommands(s, ModuleOrder[i])
  BY <1>3, <1>4
<1>6. /\ flat \in Seq(CommandType)
      /\ ToSet(flat) = UNION {ToSet(pieces[i]) : i \in 1..n}
      /\ Ordered(flat)
  <2>1. \A i \in 1..n : Ordered(pieces[i])
    BY <1>4, <1>5
  <2>2. ASSUME NEW i \in 1..n, NEW j \in 1..n, i < j,
               NEW c \in ToSet(pieces[i]), NEW d \in ToSet(pieces[j])
        PROVE  ~Activates(c, d)
    <3>1. c.module = ModuleOrder[i] /\ d.module = ModuleOrder[j]
      BY <1>4, <1>5 DEF Replay
    <3>2. i # j
      BY <1>3, <2>2
    <3> QED BY <1>3, <3>1, <3>2 DEF Activates
  <2> HIDE DEF pieces, n
  <2> QED BY <1>5, <2>1, <2>2, FlattenProperties
<1>7. ASSUME NEW c \in ToSet(flat) PROVE Replayable(s, c)
  <2>1. PICK i \in 1..n : c \in ToSet(pieces[i])
    BY <1>6
  <2>2. Replay(s, ModuleOrder[i], c) /\ ModuleOrder[i] \in ToSet(ModuleOrder)
    BY <1>3, <1>4, <1>5, <2>1
  <2> QED BY <2>2 DEF Replay, Replayable, Known, CommandType
<1>8. ASSUME NEW k \in DOMAIN s, k[1] \in Modules
      PROVE  Command(k[1], k[2], s[k], "replay") \in ToSet(flat)
  <2>1. k = <<k[1], k[2]>> /\ k[2] \in Variables
    BY <1>8 DEF Storable, Fits, Known
  <2>2. PICK i \in 1..n : k[1] = ModuleOrder[i]
    BY <1>3, <1>8, Names
  <2>3. Command(k[1], k[2], s[<<k[1], k[2]>>], "replay")
          \in ToSet(ModuleCommands(s, ModuleOrder[i]))
    BY <1>4, <2>1, <2>2 DEF Has
  <2> QED BY <1>5, <1>6, <2>1, <2>2, <2>3
<1> HIDE DEF flat, f
<1>9. first \in Seq(CommandType) /\ Len(first) = 1 /\ first[1] = f /\ 1..1 = {1}
  BY <1>2
<1> HIDE DEF first
<1>10. ToSet(first) = {f}
  BY <1>9, SetOf
<1>11. Ordered(first)
  BY <1>9 DEF Ordered, Activates
<1>12. \A c \in ToSet(first), d \in ToSet(flat) : ~Activates(c, d)
  BY <1>2, <1>10 DEF Activates
<1>13. /\ first \o flat \in Seq(CommandType)
       /\ ToSet(first \o flat) = {f} \cup ToSet(flat)
  BY <1>6, <1>9, <1>10, ConcatSet
<1>14. Ordered(first \o flat)
  BY <1>6, <1>9, <1>11, <1>12, ConcatOrdered
<1>15. f \in {f} \cup ToSet(flat)
  OBVIOUS
<1> QED BY <1>1, <1>2, <1>7, <1>8, <1>13, <1>14, <1>15 DEF f

\* What was stored of a configuration is one again.
LEMMA StoredAgain ==
  ASSUME NEW s, Storable(s)
  PROVE  Storable(FromJson(ToJson(s)))
<1> DEFINE json == ToJson(s)
<1>1. Factor[1] = "base" /\ Factor[2] = "wait_time_factor" /\ Text("1").sigil = "plain"
      /\ Text("1") \in Value /\ "base" \notin Modules
  BY Texts, Names DEF Factor
<1>2. \A k \in DOMAIN json : k \in DOMAIN s /\ json[k] = s[k]
  BY DEF ToJson
<1>3. Factor \in DOMAIN json
  BY <1>1 DEF ToJson, Storable, Has
<1> HIDE DEF json
<1> DEFINE t == FromJson(json)
<1>4. \A k \in DOMAIN t : /\ k \in DOMAIN json
                          /\ \/ t[k] = json[k]
                             \/ k = Factor /\ t[k] = Text("1")
  BY DEF FromJson
<1>5. Factor \in DOMAIN t
  BY <1>1, <1>3 DEF FromJson
<1> HIDE DEF t
<1>6. \A k \in DOMAIN t : Fits(k, t[k])
  <2>1. \A k \in DOMAIN t : Fits(k, s[k])
    BY <1>2, <1>4 DEF Storable
  <2>2. Fits(Factor, s[Factor]) => Fits(Factor, Text("1"))
    BY <1>1 DEF Fits
  <2> QED BY <1>2, <1>4, <2>1, <2>2
<1>7. t[Factor].sigil = "plain"
  BY <1>1, <1>2, <1>4, <1>5 DEF Storable
<1> QED BY <1>5, <1>6, <1>7 DEF Storable, Has, t, json

-----------------------------------------------------------------------------
(***************************************************************************)
(* What the assignments of the program do to the settings and the view.    *)
(***************************************************************************)

\* A setting that fits may be stored.
LEMMA SetStorable ==
  ASSUME NEW s, Storable(s), NEW k, NEW value, Fits(k, value),
         k = Factor => value.sigil = "plain"
  PROVE  Storable(Over(Entry(k, value), s))
<1> DEFINE t == Over(Entry(k, value), s)
<1>1. /\ DOMAIN t = DOMAIN s \cup {k} /\ t[k] = value
      /\ \A j \in DOMAIN s : j # k => t[j] = s[j]
  BY DEF Over, Entry
<1> HIDE DEF t
<1>2. \A j \in DOMAIN t : Fits(j, t[j])
  BY <1>1 DEF Storable
<1>3. Factor \in DOMAIN t /\ t[Factor].sigil = "plain"
  BY <1>1 DEF Storable, Has
<1> QED BY <1>2, <1>3 DEF Storable, Has, t

\* The client is told of one setting: the view is as good as it was.
LEMMA StatusView ==
  ASSUME ViewInv, NoStaleView, stage # "down", stage' # "down",
         NEW k, k[1] # "shared", NEW value, Status(k, value)
  PROVE  ViewInv' /\ NoStaleView'
<1>1. /\ DOMAIN settings' = DOMAIN settings \cup {k} /\ settings'[k] = value
      /\ \A j \in DOMAIN settings : j # k => settings'[j] = settings[j]
  BY DEF Status, Over, Entry
<1>2. /\ DOMAIN view' = DOMAIN view \cup {k} /\ view'[k] = value
      /\ \A j \in DOMAIN view : j # k => view'[j] = view[j]
  BY DEF Status, Over, Entry
<1>3. \A x : ValueOf(settings', <<"shared", x>>) = ValueOf(settings, <<"shared", x>>)
  <2>1. \A x : <<"shared", x>> # k
    OBVIOUS
  <2> QED BY <1>1, <2>1 DEF ValueOf, Has
<1>4. ViewInv'
  BY <1>1, <1>2 DEF ViewInv, Has
<1>5. ASSUME NEW j \in DOMAIN view', j[1] # "shared"
      PROVE  \/ view'[j] = settings'[j]
             \/ /\ settings'[j].sigil # "plain"
                /\ view'[j] = ValueOf(settings', <<"shared", settings'[j].text>>)
  <2>1. CASE j = k
    BY <1>1, <1>2, <2>1
  <2>2. CASE j # k
    <3>1. j \in DOMAIN view /\ view'[j] = view[j]
      BY <1>2, <1>5, <2>2
    <3>2. settings'[j] = settings[j]
      BY <1>1, <1>5, <2>2, <3>1 DEF ViewInv, Has
    <3>3. \/ view[j] = settings[j]
          \/ /\ settings[j].sigil # "plain"
             /\ view[j] = ValueOf(settings, <<"shared", settings[j].text>>)
      BY <1>5, <3>1 DEF NoStaleView
    <3> QED BY <1>3, <3>1, <3>2, <3>3
  <2> QED BY <2>1, <2>2
<1> QED BY <1>4, <1>5 DEF NoStaleView

\* A shared variable is set: those who refer to it are told.
LEMMA SharedView ==
  ASSUME ViewInv, NoStaleView, Storable(settings), stage # "down", stage' # "down",
         NEW x, NEW value, SetShared(x, value)
  PROVE  ViewInv' /\ NoStaleView'
<1> DEFINE k == <<"shared", x>>
           told == Dependents(settings', x)
<1>1. /\ DOMAIN settings' = DOMAIN settings \cup {k} /\ settings'[k] = value
      /\ \A j \in DOMAIN settings : j # k => settings'[j] = settings[j]
  BY DEF SetShared, Over, Entry
<1>2. /\ DOMAIN view' = told \cup DOMAIN view
      /\ \A j \in told : view'[j] = value
      /\ \A j \in DOMAIN view : j \notin told => view'[j] = view[j]
  <2> DEFINE new == [j \in told |-> value]
  <2>1. view' = Over(new, view)
    BY DEF SetShared
  <2>2. DOMAIN new = told /\ \A j \in told : new[j] = value
    OBVIOUS
  <2> HIDE DEF new, told
  <2> QED BY <2>1, <2>2 DEF Over
<1>3. ViewInv'
  BY <1>1, <1>2 DEF ViewInv, Has, Dependents
<1>4. ASSUME NEW j \in DOMAIN view', j[1] # "shared"
      PROVE  \/ view'[j] = settings'[j]
             \/ /\ settings'[j].sigil # "plain"
                /\ view'[j] = ValueOf(settings', <<"shared", settings'[j].text>>)
  <2>1. j \in DOMAIN settings /\ settings'[j] = settings[j] /\ j # k
    BY <1>1, <1>2, <1>4 DEF ViewInv, Has, Dependents
  <2>2. CASE j \in told
    <3>1. settings'[j].sigil \in {"^", "$"} /\ settings'[j].text = x
      BY <2>2 DEF Dependents
    <3>2. ValueOf(settings', k) = value
      BY <1>1 DEF ValueOf, Has
    <3> QED BY <1>2, <2>2, <3>1, <3>2
  <2>3. CASE j \notin told
    <3>1. j \in DOMAIN view /\ view'[j] = view[j]
      BY <1>2, <1>4, <2>3
    <3>2. CASE view[j] = settings[j]
      BY <2>1, <3>1, <3>2
    <3>3. CASE /\ settings[j].sigil # "plain"
               /\ view[j] = ValueOf(settings, <<"shared", settings[j].text>>)
      <4>1. settings[j] \in Value
        BY <2>1 DEF Storable, Fits
      <4>2. settings[j].sigil \in {"^", "$"}
        BY <3>3, <4>1 DEF Value, Sigils
      <4>3. settings[j].text # x
        BY <1>1, <2>1, <2>3, <4>2 DEF Dependents
      <4>4. <<"shared", settings[j].text>> # k
        BY <4>3
      <4>5. ValueOf(settings', <<"shared", settings[j].text>>)
              = ValueOf(settings, <<"shared", settings[j].text>>)
        <5> HIDE DEF k
        <5> QED BY <1>1, <4>4 DEF ValueOf, Has
      <4> QED BY <2>1, <3>1, <3>3, <4>5
    <3> QED BY <1>4, <3>1, <3>2, <3>3 DEF NoStaleView
  <2> QED BY <2>2, <2>3
<1> QED BY <1>3, <1>4 DEF NoStaleView

-----------------------------------------------------------------------------
(***************************************************************************)
(* One step of the queue.                                                  *)
(***************************************************************************)

\* The key a command is for, and what its execution adds to touched.
KeyOf(c) == <<c.module, c.variable>>
Touches(c, k) ==
  \/ c.by = "replay" /\ UNCHANGED touched
  \/ c.by # "replay" /\ Touch(k)

\* What holds of the queue and the factor, whichever command was executed.
LEMMA ExecuteQueue ==
  ASSUME ConfigType, Execute
  PROVE  /\ queue \in Seq(CommandType) /\ queue # <<>> /\ queue' = Tail(queue)
         /\ queue' \in Seq(CommandType) /\ Head(queue) \in CommandType
         /\ ToSet(queue) = {Head(queue)} \cup ToSet(queue')
         /\ Known(KeyOf(Head(queue)))
         /\ \A c \in ToSet(queue') : Known(KeyOf(c))
         /\ Ordered(queue) => Ordered(queue')
         /\ factor' \in Numerals
         /\ held' = held /\ commands' = commands /\ loaded' = loaded
         /\ stage' = stage /\ given' = given
<1>1. queue \in Seq(CommandType) /\ queue # <<>> /\ queue' = Tail(queue)
  BY DEF ConfigType, Execute
<1>2. /\ Tail(queue) \in Seq(CommandType) /\ Head(queue) \in CommandType
      /\ ToSet(queue) = {Head(queue)} \cup ToSet(Tail(queue))
      /\ Ordered(queue) => Ordered(Tail(queue))
  BY <1>1, TailSet
<1>3. \A c \in ToSet(queue) : Known(KeyOf(c))
  BY DEF ConfigType, KeyOf
<1>4. factor' \in Numerals
  <2>1. factor \in Numerals
    BY DEF ConfigType
  <2>2. \/ SetFactor(Redirected(Head(queue)).value)
        \/ factor' = factor
    BY DEF Execute
  <2> QED BY <2>1, <2>2 DEF SetFactor
<1>5. /\ held' = held /\ commands' = commands /\ loaded' = loaded
      /\ stage' = stage /\ given' = given
  BY DEF Execute
<1> QED BY <1>1, <1>2, <1>3, <1>4, <1>5

\* What is executed: the factor is set, or a shared variable in place of a setting
\* that refers to it, or a loaded module is told, or the command is dropped.
LEMMA ExecuteCases ==
  ASSUME ConfigType, Execute, stage # "down",
         NEW c, c = Head(queue)
  PROVE  \/ KeyOf(c) = Factor /\ SetFactor(c.value) /\ Touches(c, Factor)
         \/ \E x \in STRING :
              /\ SetShared(x, c.value) /\ UNCHANGED factor /\ KeyOf(c) # Factor
              /\ c.module \in loaded => ValueOf(settings, KeyOf(c)).sigil = "^"
              /\ Touches(c, <<"shared", x>>)
         \/ /\ c.module \in loaded /\ ModuleExecutes(c) /\ UNCHANGED factor
            /\ ValueOf(settings, KeyOf(c)).sigil # "^"
            /\ Touches(c, KeyOf(c))
         \/ /\ KeyOf(c) # Factor /\ c.module \notin loaded
            /\ UNCHANGED <<settings, view, factor>> /\ Touches(c, KeyOf(c))
<1> DEFINE d == Redirected(c)
           old == ValueOf(settings, KeyOf(c))
<1>1. c \in CommandType /\ Known(KeyOf(c))
  BY ExecuteQueue
<1>2. Storable(settings) /\ loaded \subseteq Modules /\ "shared" \notin Modules
      /\ "base" \notin Modules
  BY Names DEF ConfigType
<1>3. /\ \/ <<d.module, d.variable>> = Factor /\ SetFactor(d.value)
         \/ d.module = "shared" /\ SetShared(d.variable, d.value) /\ UNCHANGED factor
         \/ d.module \in loaded /\ ModuleExecutes(d) /\ UNCHANGED factor
         \/ /\ <<d.module, d.variable>> # Factor /\ d.module \notin loaded \cup {"shared"}
            /\ UNCHANGED <<settings, view, factor>>
      /\ \/ d.by = "replay" /\ UNCHANGED touched
         \/ d.by # "replay" /\ Touch(<<d.module, d.variable>>)
  BY DEF Execute
<1>4. CASE old.sigil = "^"
  <2>1. d = [c EXCEPT !.module = "shared", !.variable = old.text]
    BY <1>4 DEF Redirected, KeyOf
  <2>2. d.module = "shared" /\ d.variable = old.text /\ d.value = c.value /\ d.by = c.by
    BY <1>1, <2>1 DEF CommandType
  <2>3. Has(settings, KeyOf(c)) /\ old = settings[KeyOf(c)]
    <3>1. Text(NoText).sigil # "^"
      BY Texts
    <3> QED BY <1>4, <3>1 DEF ValueOf
  <2>4. old.text \in STRING /\ KeyOf(c) # Factor
    <3>1. old \in Value
      BY <1>2, <2>3 DEF Storable, Fits, Has
    <3>2. KeyOf(c) # Factor
      BY <1>2, <1>4, <2>3 DEF Storable
    <3> QED BY <3>1, <3>2 DEF Value
  <2> HIDE DEF d, old
  <2>5. SetShared(old.text, c.value) /\ UNCHANGED factor
    BY <1>2, <1>3, <2>2 DEF Factor
  <2>6. Touches(c, <<"shared", old.text>>)
    BY <1>3, <2>2 DEF Touches
  <2> QED BY <1>4, <2>4, <2>5, <2>6 DEF old
<1>5. CASE old.sigil # "^"
  <2>1. d = c
    BY <1>5 DEF Redirected, KeyOf
  <2>2. Touches(c, KeyOf(c))
    BY <1>3, <2>1 DEF Touches, KeyOf
  <2>3. CASE KeyOf(c) = Factor /\ SetFactor(c.value)
    BY <2>2, <2>3
  <2>4. CASE c.module = "shared" /\ SetShared(c.variable, c.value) /\ UNCHANGED factor
    <3>1. KeyOf(c) # Factor /\ c.module \notin loaded
      BY <1>2, <2>4 DEF KeyOf, Factor
    <3>2. c.variable \in STRING /\ KeyOf(c) = <<"shared", c.variable>>
      BY <1>1, <2>4 DEF CommandType, KeyOf
    <3> QED BY <2>2, <2>4, <3>1, <3>2
  <2>5. CASE c.module \in loaded /\ ModuleExecutes(c) /\ UNCHANGED factor
    BY <1>5, <2>2, <2>5
  <2>6. CASE /\ KeyOf(c) # Factor /\ c.module \notin loaded \cup {"shared"}
             /\ UNCHANGED <<settings, view, factor>>
    BY <2>2, <2>6
  <2> HIDE DEF d, old
  <2> QED BY <1>3, <2>1, <2>3, <2>4, <2>5, <2>6 DEF KeyOf
<1> QED BY <1>4, <1>5

\* Setting the factor: afterwards it is the one the bot waits by, unless a wrong
\* old one kept it from being replaced.
LEMMA FactorStep ==
  ASSUME Storable(settings), factor \in Numerals, NEW value \in Value, SetFactor(value)
  PROVE  /\ Storable(settings')
         /\ settings[Factor] = Text(factor) \/ factor # "0" => settings'[Factor] = Text(factor')
         /\ \A j \in DOMAIN settings : j # Factor => Has(settings', j) /\ settings'[j] = settings[j]
         /\ \/ \E t : Status(Factor, t)
            \/ UNCHANGED <<settings, view>>
<1>1. Known(Factor) /\ Factor[1] \notin Modules
  BY LiteralAssumption, Names DEF Known, Factor
<1>2. ASSUME NEW t \in Value, t.sigil = "plain", Status(Factor, t)
      PROVE  /\ Storable(settings') /\ settings'[Factor] = t
             /\ \A j \in DOMAIN settings : j # Factor => Has(settings', j) /\ settings'[j] = settings[j]
             /\ \E u : Status(Factor, u)
  <2>1. settings' = Over(Entry(Factor, t), settings)
    BY <1>2 DEF Status
  <2>2. Fits(Factor, t)
    BY <1>1 DEF Fits
  <2>3. Storable(settings')
    BY <1>2, <2>1, <2>2, SetStorable
  <2>4. settings'[Factor] = t
    BY <2>1 DEF Over, Entry
  <2>5. \A j \in DOMAIN settings : j # Factor => Has(settings', j) /\ settings'[j] = settings[j]
    BY <2>1 DEF Over, Entry, Has
  <2> QED BY <1>2, <2>3, <2>4, <2>5
<1>3. CASE /\ value.sigil = "plain" /\ value.text \in Numerals /\ factor # "0"
           /\ factor' = value.text /\ Status(Factor, value)
  <2>1. value = Text(factor')
    BY <1>3 DEF Value, Text
  <2> QED BY <1>2, <1>3, <2>1
<1>4. CASE factor = "0" /\ UNCHANGED <<factor, settings, view>>
  BY <1>4 DEF Has
<1>5. CASE Status(Factor, Text(factor)) /\ UNCHANGED factor
  <2>1. Text(factor) \in Value /\ Text(factor).sigil = "plain"
    BY Texts, LiteralAssumption
  <2> QED BY <1>2, <1>5, <2>1
<1> QED BY <1>3, <1>4, <1>5 DEF SetFactor

\* What executing a command does to the settings.
LEMMA ExecuteSettings ==
  ASSUME ConfigType, Execute, stage # "down",
         NEW c, c = Head(queue)
  PROVE  /\ Storable(settings')
         /\ \A j \in DOMAIN settings : j[1] \in Modules /\ j # KeyOf(c) =>
              Has(settings', j) /\ settings'[j] = settings[j]
         /\ KeyOf(c) \in DOMAIN settings /\ c.module \in Modules =>
              /\ Has(settings', KeyOf(c))
              /\ \/ /\ settings'[KeyOf(c)] = settings[KeyOf(c)]
                    /\ c.module \in loaded => settings[KeyOf(c)].sigil = "^"
                 \/ /\ Touches(c, KeyOf(c)) /\ c.module \in loaded
                    /\ settings'[KeyOf(c)] =
                         IF c.variable = "active"
                         THEN Text(IF c.value = Text("1") THEN "1" ELSE "0") ELSE c.value
         /\ KeyOf(c) # Factor => settings'[Factor] = settings[Factor] /\ factor' = factor
         /\ KeyOf(c) = Factor /\ (settings[Factor] = Text(factor) \/ factor # "0")
              => settings'[Factor] = Text(factor')
<1>1. c \in CommandType /\ Known(KeyOf(c)) /\ c.value \in Value
  BY ExecuteQueue DEF CommandType
<1>2. /\ Storable(settings) /\ Has(settings, Factor) /\ loaded \subseteq Modules
      /\ "shared" \notin Modules /\ "base" \notin Modules /\ factor \in Numerals
      /\ Factor[1] = "base"
  BY Names DEF ConfigType, Storable, Factor
<1>3. CASE KeyOf(c) = Factor /\ SetFactor(c.value) /\ Touches(c, Factor)
  <2>1. c.module \notin Modules
    BY <1>2, <1>3 DEF KeyOf, Factor
  <2> QED BY <1>1, <1>2, <1>3, <2>1, FactorStep
<1>4. CASE \E x \in STRING :
             /\ SetShared(x, c.value) /\ UNCHANGED factor /\ KeyOf(c) # Factor
             /\ c.module \in loaded => ValueOf(settings, KeyOf(c)).sigil = "^"
             /\ Touches(c, <<"shared", x>>)
  <2>1. PICK x \in STRING :
             /\ SetShared(x, c.value) /\ UNCHANGED factor /\ KeyOf(c) # Factor
             /\ c.module \in loaded => ValueOf(settings, KeyOf(c)).sigil = "^"
    BY <1>4
  <2> DEFINE k == <<"shared", x>>
  <2>2. settings' = Over(Entry(k, c.value), settings)
    BY <2>1 DEF SetShared
  <2>3. Fits(k, c.value) /\ k # Factor /\ k[1] = "shared"
    BY <1>1, <1>2, LiteralAssumption DEF Fits, Known, Factor
  <2> HIDE DEF k
  <2>4. Storable(settings')
    BY <1>2, <2>2, <2>3, SetStorable
  <2>5. \A j \in DOMAIN settings : j # k => Has(settings', j) /\ settings'[j] = settings[j]
    BY <2>2 DEF Over, Entry, Has
  <2>6. \A j \in DOMAIN settings : j[1] \in Modules =>
          Has(settings', j) /\ settings'[j] = settings[j]
    BY <1>2, <2>3, <2>5
  <2>7. settings'[Factor] = settings[Factor]
    BY <1>2, <2>3, <2>5 DEF Has
  <2>8. KeyOf(c) \in DOMAIN settings => ValueOf(settings, KeyOf(c)) = settings[KeyOf(c)]
    BY DEF ValueOf, Has
  <2>9. KeyOf(c)[1] = c.module
    BY DEF KeyOf
  <2> QED BY <2>1, <2>4, <2>6, <2>7, <2>8, <2>9
<1>5. CASE /\ c.module \in loaded /\ ModuleExecutes(c) /\ UNCHANGED factor
           /\ ValueOf(settings, KeyOf(c)).sigil # "^"
           /\ Touches(c, KeyOf(c))
  <2> DEFINE k == KeyOf(c)
             value == IF c.variable = "active"
                      THEN Text(IF c.value = Text("1") THEN "1" ELSE "0") ELSE c.value
  <2>1. settings' = Over(Entry(k, value), settings)
    BY <1>5 DEF ModuleExecutes, Status, KeyOf, Active
  <2>2. k[1] = c.module /\ k[2] = c.variable /\ k # Factor
    BY <1>2, <1>5 DEF KeyOf, Factor
  <2>3. Fits(k, value)
    <3>1. value \in Value
      BY <1>1, Texts
    <3>2. c.variable = "active" => value \in {Text("0"), Text("1")}
      OBVIOUS
    <3> HIDE DEF value
    <3> QED BY <1>1, <2>2, <3>1, <3>2 DEF Fits
  <2> HIDE DEF k, value
  <2>4. Storable(settings')
    BY <1>2, <2>1, <2>2, <2>3, SetStorable
  <2>5. \A j \in DOMAIN settings : j # k => Has(settings', j) /\ settings'[j] = settings[j]
    BY <2>1 DEF Over, Entry, Has
  <2>6. Has(settings', k) /\ settings'[k] = value
    BY <2>1 DEF Over, Entry, Has
  <2>7. settings'[Factor] = settings[Factor]
    BY <1>2, <2>2, <2>5 DEF Has
  <2> QED BY <1>5, <2>2, <2>4, <2>5, <2>6, <2>7 DEF k, value
<1>6. CASE /\ KeyOf(c) # Factor /\ c.module \notin loaded
           /\ UNCHANGED <<settings, view, factor>> /\ Touches(c, KeyOf(c))
  BY <1>2, <1>6 DEF Has
<1> QED BY <1>3, <1>4, <1>5, <1>6, ExecuteCases

\* And to what the client has been told.
LEMMA ExecuteView ==
  ASSUME ConfigType, ViewInv, NoStaleView, Execute, stage # "down"
  PROVE  ViewInv' /\ NoStaleView'
<1> DEFINE c == Head(queue)
<1>1. c \in CommandType /\ c.value \in Value /\ stage' # "down"
  BY ExecuteQueue DEF CommandType
<1>2. /\ Storable(settings) /\ loaded \subseteq Modules
      /\ "shared" \notin Modules /\ factor \in Numerals /\ Factor[1] # "shared"
  BY Names DEF ConfigType, Factor
<1>3. ASSUME UNCHANGED <<settings, view>> PROVE ViewInv' /\ NoStaleView'
  BY <1>3, <1>1 DEF ViewInv, NoStaleView
<1> HIDE DEF c
<1>4. CASE KeyOf(c) = Factor /\ SetFactor(c.value)
  <2>1. CASE \E t : Status(Factor, t)
    BY <1>1, <1>2, <2>1, StatusView
  <2>2. CASE UNCHANGED <<settings, view>>
    BY <1>3, <2>2
  <2> QED BY <1>1, <1>2, <1>4, <2>1, <2>2, FactorStep
<1>5. CASE \E x \in STRING : SetShared(x, c.value)
  BY <1>1, <1>2, <1>5, SharedView
<1>6. CASE c.module \in loaded /\ ModuleExecutes(c)
  <2>1. \E k, value : k[1] # "shared" /\ Status(k, value)
    <3>1. Active(c.module)[1] # "shared" /\ <<c.module, c.variable>>[1] # "shared"
      BY <1>2, <1>6 DEF Active
    <3> QED BY <1>6, <3>1 DEF ModuleExecutes
  <2> QED BY <1>1, <2>1, StatusView
<1>7. CASE UNCHANGED <<settings, view, factor>>
  BY <1>3, <1>7
<1> QED BY <1>4, <1>5, <1>6, <1>7, ExecuteCases DEF c

-----------------------------------------------------------------------------
(***************************************************************************)
(* The invariant is inductive.                                             *)
(***************************************************************************)

\* A key is its two parts, and the key of its replayed command.
LEMMA KeyParts ==
  ASSUME Storable(given), NEW k \in DOMAIN given
  PROVE  /\ k = <<k[1], k[2]>> /\ KeyOf(ReplayOf(k)) = k
         /\ ReplayOf(k).by = "replay" /\ ReplayOf(k).value = given[k]
         /\ k[1] \in Modules /\ k[2] = "active" => given[k] \in {Text("0"), Text("1")}
BY DEF Storable, Fits, Known, KeyOf, ReplayOf, Command

\* What is to be replayed for a setting is its stored value.
LEMMA AwaitedReplay ==
  ASSUME Storable(given), NEW k \in DOMAIN given, k[1] \in Modules,
         NEW d \in CommandType, d.by = "replay", KeyOf(d) = k,
         d.by = "replay" /\ d.module \in Modules /\ Has(given, <<d.module, d.variable>>)
           => d.value = given[<<d.module, d.variable>>]
  PROVE  d = ReplayOf(k)
<1>1. d.module = k[1] /\ d.variable = k[2]
  BY DEF KeyOf
<1>2. d.value = given[k]
  BY <1>1 DEF KeyOf, Has
<1> QED BY <1>1, <1>2 DEF ReplayOf, Command, CommandType

\* One handler is executed.
LEMMA ExecuteStep ==
  ASSUME ConfigInv, Execute
  PROVE  ConfigInv'
<1> DEFINE c == Head(queue)
           key == KeyOf(c)
<1>1. /\ queue \in Seq(CommandType) /\ c \in CommandType /\ queue' \in Seq(CommandType)
      /\ ToSet(queue) = {c} \cup ToSet(queue')
      /\ \A d \in ToSet(queue') : Known(KeyOf(d))
      /\ Ordered(queue) => Ordered(queue')
      /\ factor' \in Numerals
      /\ held' = held /\ commands' = commands /\ loaded' = loaded
      /\ stage' = stage /\ given' = given
  BY ExecuteQueue DEF ConfigInv
<1>2. /\ stage \in {"login", "loaded", "down"} /\ loaded \subseteq Modules
      /\ stage # "loaded" => loaded = {} 
      /\ Storable(given)
      /\ stage = "down" => Storable(held)
      /\ stage # "down" => Storable(settings)
  BY DEF ConfigInv, ConfigType
<1>3. stage # "down" =>
         /\ Storable(settings')
         /\ \A j \in DOMAIN settings : j[1] \in Modules /\ j # key =>
              Has(settings', j) /\ settings'[j] = settings[j]
         /\ key \in DOMAIN settings /\ c.module \in Modules =>
              /\ Has(settings', key)
              /\ \/ /\ settings'[key] = settings[key]
                    /\ c.module \in loaded => settings[key].sigil = "^"
                 \/ /\ Touches(c, key) /\ c.module \in loaded
                    /\ settings'[key] =
                         IF c.variable = "active"
                         THEN Text(IF c.value = Text("1") THEN "1" ELSE "0") ELSE c.value
         /\ key # Factor => settings'[Factor] = settings[Factor] /\ factor' = factor
         /\ key = Factor /\ (settings[Factor] = Text(factor) \/ factor # "0")
              => settings'[Factor] = Text(factor')
  BY ExecuteSettings DEF ConfigInv
<1>4. stage # "down" => ViewInv' /\ NoStaleView'
  BY ExecuteView DEF ConfigInv
<1>5. key[1] = c.module /\ key[2] = c.variable /\ key = <<c.module, c.variable>>
  BY DEF KeyOf
<1> HIDE DEF c, key
<1>6. ConfigType'
  BY <1>1, <1>2, <1>3 DEF ConfigType, KeyOf
<1>7. ViewInv' /\ NoStaleView'
  BY <1>1, <1>4 DEF ViewInv, NoStaleView
<1>8. LoginInv'
  <2> SUFFICES ASSUME stage = "login" PROVE LoginInv'
    BY <1>1 DEF LoginInv
  <2>1. /\ commands = InitCommandSequence(given)
        /\ \A d \in ToSet(queue) : d.by # "replay"
        /\ \A k \in DOMAIN given :
             k[1] \in Modules => Has(settings, k) /\ settings[k] = given[k]
    BY DEF ConfigInv, LoginInv
  <2>2. \A k \in DOMAIN given : k[1] \in Modules =>
          Has(settings', k) /\ settings'[k] = given[k]
    BY <1>2, <1>3, <1>5, <2>1 DEF Has
  <2> QED BY <1>1, <2>1, <2>2 DEF LoginInv
<1>9. ReplayInv'
  <2> SUFFICES ASSUME stage = "loaded" PROVE ReplayInv'
    BY <1>1 DEF ReplayInv
  <2>1. /\ \A d \in ToSet(queue) :
             d.by = "replay" /\ d.module \in Modules /\ Has(given, <<d.module, d.variable>>)
               => d.value = given[<<d.module, d.variable>>]
        /\ \A k \in DOMAIN given : k[1] \in loaded /\ k \notin touched =>
             /\ Has(settings, k)
             /\ \/ settings[k] = given[k]
                \/ settings[k].sigil # "^" /\ ReplayOf(k) \in ToSet(queue)
    BY DEF ConfigInv, ReplayInv
  <2>2. ASSUME NEW k \in DOMAIN given, k[1] \in loaded, k \notin touched'
        PROVE  /\ Has(settings', k)
               /\ \/ settings'[k] = given[k]
                  \/ settings'[k].sigil # "^" /\ ReplayOf(k) \in ToSet(queue')
    <3>1. k \notin touched
      BY <2>2 DEF Execute, Touch
    <3>2. /\ k \in DOMAIN settings /\ k[1] \in Modules
          /\ \/ settings[k] = given[k]
             \/ settings[k].sigil # "^" /\ ReplayOf(k) \in ToSet(queue)
      BY <1>2, <2>1, <2>2, <3>1 DEF Has
    <3>3. CASE k # key
      <4>1. Has(settings', k) /\ settings'[k] = settings[k]
        BY <1>3, <3>2, <3>3
      <4>2. ReplayOf(k) # c
        BY <1>2, <3>3, KeyParts DEF key
      <4> QED BY <1>1, <3>2, <4>1, <4>2
    <3>4. CASE k = key
      <4>1. c.module \in loaded /\ c.module \in Modules
        BY <1>2, <1>5, <2>2, <3>4
      <4>2. CASE settings'[key] = settings[key] /\ settings[key].sigil = "^"
        BY <1>3, <3>2, <3>4, <4>1, <4>2
      <4>3. CASE /\ Touches(c, key)
                 /\ settings'[key] =
                      IF c.variable = "active"
                      THEN Text(IF c.value = Text("1") THEN "1" ELSE "0") ELSE c.value
        <5>1. Has(settings', k)
          BY <1>3, <3>2, <3>4, <4>1
        <5>2. CASE c.by = "replay"
          <6>1. c.value = given[k]
            BY <1>1, <1>5, <2>1, <2>2, <3>4, <4>1, <5>2 DEF Has
          <6>2. c.variable = "active" => c.value \in {Text("0"), Text("1")}
            BY <1>2, <1>5, <3>2, <3>4, <6>1, KeyParts
          <6> QED BY <3>4, <4>3, <5>1, <6>1, <6>2
        <5>3. CASE c.by # "replay"
          <6>1. key[1] \in loaded /\ ~Lasts(key)
            <7>1. Touch(key)
              BY <4>3, <5>3 DEF Touches
            <7> QED BY <2>2, <3>4, <7>1 DEF Touch
          <6>2. PICK d \in ToSet(queue') : d.by = "replay" /\ KeyOf(d) = key
            BY <6>1 DEF Lasts, KeyOf
          <6>3. d \in CommandType /\ d \in ToSet(queue)
            BY <1>1, SetOf
          <6>4. d = ReplayOf(k)
            BY <1>2, <2>1, <3>2, <3>4, <6>2, <6>3, AwaitedReplay
          <6> QED BY <3>4, <5>1, <6>1, <6>4 DEF Lasts
        <5> QED BY <5>2, <5>3
      <4> QED BY <1>3, <3>2, <3>4, <4>1, <4>2, <4>3
    <3> QED BY <3>3, <3>4
  <2>3. \A d \in ToSet(queue') :
          d.by = "replay" /\ d.module \in Modules /\ Has(given, <<d.module, d.variable>>)
            => d.value = given[<<d.module, d.variable>>]
    BY <1>1, <2>1
  <2> QED BY <1>1, <2>2, <2>3 DEF ReplayInv, ReplayOf
<1>10. FactorInv'
  <2> SUFFICES ASSUME stage # "down" PROVE FactorInv'
    BY <1>1 DEF FactorInv
  <2>1. \/ settings[Factor] = Text(factor)
        \/ factor # "0" /\ (stage = "login" \/ ReplayOf(Factor) \in ToSet(queue))
    BY DEF ConfigInv, FactorInv
  <2>2. CASE key = Factor
    BY <1>3, <2>1, <2>2 DEF FactorInv
  <2>3. CASE key # Factor
    <3>1. ReplayOf(Factor) # c
      <4>1. Factor \in DOMAIN given
        BY <1>2 DEF Storable, Has
      <4> QED BY <1>2, <2>3, <4>1, KeyParts DEF key
    <3> QED BY <1>1, <1>3, <2>1, <2>3, <3>1 DEF FactorInv, ReplayOf
  <2> QED BY <2>2, <2>3
<1>11. OrderInv'
  BY <1>1 DEF ConfigInv, OrderInv
<1> QED BY <1>6, <1>7, <1>8, <1>9, <1>10, <1>11 DEF ConfigInv

\* A client or a script sends a command.
LEMMA SendStep ==
  ASSUME ConfigInv, NEW k \in Settable, NEW value \in Arguments, Send(k[1], k[2], value)
  PROVE  ConfigInv'
<1> DEFINE c == Command(k[1], k[2], value, "client")
<1>1. c \in CommandType /\ c.by = "client" /\ Known(<<c.module, c.variable>>)
  <2>1. Known(k) /\ value \in Value
    BY ValueAssumption
  <2>2. k = <<k[1], k[2]>> /\ k[1] \in STRING /\ k[2] \in STRING
    BY <2>1 DEF Known
  <2> QED BY <2>1, <2>2 DEF CommandType, Command
<1>2. /\ queue' = Append(queue, c) /\ settings' = settings /\ held' = held
      /\ factor' = factor /\ commands' = commands /\ loaded' = loaded
      /\ view' = view /\ stage' = stage /\ given' = given /\ touched' = touched
  BY DEF Send
<1> HIDE DEF c
<1>3. queue \in Seq(CommandType)
  BY DEF ConfigInv, ConfigType
<1>4. \A d \in ToSet(queue) : ~Activates(d, c)
  BY <1>1 DEF Activates
<1>5. /\ queue' \in Seq(CommandType) /\ ToSet(queue') = ToSet(queue) \cup {c}
      /\ Ordered(queue) => Ordered(queue')
  BY <1>1, <1>2, <1>3, <1>4, AppendSet
<1>6. ConfigType'
  BY <1>1, <1>2, <1>5 DEF ConfigInv, ConfigType
<1>7. ViewInv' /\ NoStaleView'
  BY <1>2 DEF ConfigInv, ViewInv, NoStaleView
<1>8. LoginInv'
  BY <1>1, <1>2, <1>5 DEF ConfigInv, LoginInv
<1>9. ReplayInv'
  BY <1>1, <1>2, <1>5 DEF ConfigInv, ReplayInv, ReplayOf
<1>10. FactorInv'
  BY <1>2, <1>5 DEF ConfigInv, FactorInv, ReplayOf
<1>11. OrderInv'
  BY <1>2, <1>5 DEF ConfigInv, OrderInv
<1> QED BY <1>6, <1>7, <1>8, <1>9, <1>10, <1>11 DEF ConfigInv

\* A script sets a shared variable.
LEMMA ScriptSetsSharedStep ==
  ASSUME ConfigInv, NEW k \in Settable, k[1] = "shared", NEW value \in Arguments,
         ScriptSetsShared(k[2], value)
  PROVE  ConfigInv'
<1> DEFINE key == <<"shared", k[2]>>
<1>1. /\ SetShared(k[2], value) /\ stage # "down" /\ queue' = queue /\ held' = held
      /\ factor' = factor /\ commands' = commands /\ loaded' = loaded
      /\ stage' = stage /\ given' = given /\ touched' = touched
  BY DEF ScriptSetsShared
<1>2. Storable(settings) /\ "shared" \notin Modules /\ loaded \subseteq Modules
  BY <1>1, Names DEF ConfigInv, ConfigType
<1>3. settings' = Over(Entry(key, value), settings)
  BY <1>1 DEF SetShared
<1>4. Fits(key, value) /\ key # Factor /\ key[1] = "shared"
  <2>1. Known(k) /\ value \in Value
    BY ValueAssumption
  <2>2. k = key
    BY <2>1 DEF Known
  <2> QED BY <1>2, <2>1, <2>2 DEF Fits, Factor
<1> HIDE DEF key
<1>5. Storable(settings')
  BY <1>2, <1>3, <1>4, SetStorable
<1>6. \A j \in DOMAIN settings : j # key => Has(settings', j) /\ settings'[j] = settings[j]
  BY <1>3 DEF Over, Entry, Has
<1>7. \A j \in DOMAIN settings : j[1] \in Modules =>
        Has(settings', j) /\ settings'[j] = settings[j]
  BY <1>2, <1>4, <1>6
<1>8. settings'[Factor] = settings[Factor]
  BY <1>2, <1>4, <1>6 DEF Storable, Has
<1>9. ConfigType'
  BY <1>1, <1>5 DEF ConfigInv, ConfigType
<1>10. ViewInv' /\ NoStaleView'
  BY <1>1, <1>2, SharedView DEF ConfigInv
<1>11. LoginInv'
  BY <1>1, <1>7 DEF ConfigInv, LoginInv, Has
<1>12. ReplayInv'
  BY <1>1, <1>2, <1>7 DEF ConfigInv, ReplayInv, ReplayOf, Has
<1>13. FactorInv'
  BY <1>1, <1>8 DEF ConfigInv, FactorInv, ReplayOf
<1>14. OrderInv'
  BY <1>1 DEF ConfigInv, OrderInv
<1> QED BY <1>9, <1>10, <1>11, <1>12, <1>13, <1>14 DEF ConfigInv

\* A module stops by itself.
LEMMA ModuleEndsStep ==
  ASSUME ConfigInv, NEW m \in Modules, ModuleEnds(m)
  PROVE  ConfigInv'
<1> DEFINE key == Active(m)
<1>1. /\ m \in loaded /\ Status(key, Text("0")) /\ Touch(key)
      /\ queue' = queue /\ held' = held
      /\ factor' = factor /\ commands' = commands /\ loaded' = loaded
      /\ stage' = stage /\ given' = given
  BY DEF ModuleEnds
<1>2. stage = "loaded" /\ Storable(settings)
  BY <1>1 DEF ConfigInv, ConfigType
<1>3. settings' = Over(Entry(key, Text("0")), settings)
  BY <1>1 DEF Status
<1>4. Fits(key, Text("0")) /\ key # Factor /\ key[1] # "shared" /\ key[1] = m
  <2>1. m \in STRING /\ m # "base" /\ m # "shared" /\ "active" \in STRING
    BY Names
  <2> QED BY <2>1, Texts, Names DEF Fits, Known, Factor, Active
<1> HIDE DEF key
<1>5. Storable(settings')
  BY <1>2, <1>3, <1>4, SetStorable
<1>6. \A j \in DOMAIN settings : j # key => Has(settings', j) /\ settings'[j] = settings[j]
  BY <1>3 DEF Over, Entry, Has
<1>7. settings'[Factor] = settings[Factor]
  BY <1>2, <1>4, <1>6 DEF Storable, Has
<1>8. ConfigType'
  BY <1>1, <1>2, <1>5 DEF ConfigInv, ConfigType
<1>9. ViewInv' /\ NoStaleView'
  BY <1>1, <1>2, <1>4, StatusView DEF ConfigInv
<1>10. LoginInv'
  BY <1>1, <1>2 DEF LoginInv
<1>11. ReplayInv'
  <2>1. /\ \A d \in ToSet(queue) :
             d.by = "replay" /\ d.module \in Modules /\ Has(given, <<d.module, d.variable>>)
               => d.value = given[<<d.module, d.variable>>]
        /\ \A k \in DOMAIN given : k[1] \in loaded /\ k \notin touched =>
             /\ Has(settings, k)
             /\ \/ settings[k] = given[k]
                \/ settings[k].sigil # "^" /\ ReplayOf(k) \in ToSet(queue)
    BY <1>2 DEF ConfigInv, ReplayInv
  <2>2. ASSUME NEW k \in DOMAIN given, k[1] \in loaded, k \notin touched'
        PROVE  /\ Has(settings', k)
               /\ \/ settings'[k] = given[k]
                  \/ settings'[k].sigil # "^" /\ ReplayOf(k) \in ToSet(queue)
    <3>1. k \notin touched
      BY <1>1, <2>2 DEF Touch
    <3>2. CASE k # key
      BY <1>6, <2>1, <2>2, <3>1, <3>2 DEF Has
    <3>3. CASE k = key
      <4>1. ~Lasts(key)
        BY <1>1, <1>4, <2>2, <3>3 DEF Touch
      <4>2. PICK d \in ToSet(queue) : d.by = "replay" /\ KeyOf(d) = key
        BY <1>1, <4>1 DEF Lasts, KeyOf
      <4>3. queue \in Seq(CommandType) /\ Storable(given)
        BY DEF ConfigInv, ConfigType
      <4>4. d \in CommandType
        BY <4>2, <4>3, SetOf
      <4>5. d = ReplayOf(k)
        BY <1>4, <2>1, <3>3, <4>2, <4>3, <4>4, AwaitedReplay
      <4>6. Has(settings', key)
        BY <1>3 DEF Over, Entry, Has
      <4> QED BY <3>3, <4>1, <4>2, <4>5, <4>6 DEF Lasts
    <3> QED BY <3>2, <3>3
  <2> QED BY <1>1, <2>1, <2>2 DEF ReplayInv, ReplayOf
<1>12. FactorInv'
  BY <1>1, <1>7 DEF ConfigInv, FactorInv, ReplayOf
<1>13. OrderInv'
  BY <1>1 DEF ConfigInv, OrderInv
<1> QED BY <1>8, <1>9, <1>10, <1>11, <1>12, <1>13 DEF ConfigInv

\* The bot is shut down.
LEMMA ShutdownStep ==
  ASSUME ConfigInv, Shutdown
  PROVE  ConfigInv'
<1>1. /\ stage # "down" /\ stage' = "down" /\ held' = settings /\ loaded' = {}
      /\ factor' = factor /\ queue' = queue /\ given' = given
  BY DEF Shutdown
<1>2. ConfigType'
  BY <1>1 DEF ConfigInv, ConfigType
<1> QED BY <1>1, <1>2
        DEF ConfigInv, ViewInv, NoStaleView, LoginInv, ReplayInv, FactorInv, OrderInv

\* A bot that has been initialised.
LEMMA StartInv ==
  ASSUME Storable(settings), given = settings, commands = InitCommandSequence(settings),
         factor = "1", loaded = {}, view = <<>>, stage = "login", queue = <<>>
  PROVE  ConfigInv
<1>1. queue \in Seq(CommandType) /\ Len(queue) = 0 /\ DOMAIN queue = {} /\ DOMAIN view = {}
  OBVIOUS
<1>2. ToSet(queue) = {}
  BY <1>1 DEF ToSet
<1>3. ConfigType
  BY <1>1, <1>2 DEF ConfigType, Numerals
<1>4. LoginInv
  BY <1>2 DEF LoginInv, Has
<1>5. FactorInv
  BY DEF FactorInv
<1> QED BY <1>1, <1>3, <1>4, <1>5 DEF ConfigInv, ViewInv, NoStaleView, ReplayInv, OrderInv

\* And one that a client has created anew.
LEMMA RestartStep ==
  ASSUME ConfigInv, Restart
  PROVE  ConfigInv'
<1>1. /\ given' = settings' /\ commands' = InitCommandSequence(settings')
      /\ factor' = "1" /\ loaded' = loaded /\ view' = <<>> /\ stage' = "login"
      /\ queue = <<>> /\ queue' = queue /\ stage = "down"
      /\ settings' \in {held, FromJson(ToJson(held))}
  BY DEF Restart
<1>2. loaded = {} /\ Storable(held)
  BY <1>1 DEF ConfigInv, ConfigType
<1>3. Storable(settings')
  BY <1>1, <1>2, StoredAgain
<1>4. queue' \in Seq(CommandType) /\ Len(queue') = 0 /\ DOMAIN queue' = {}
      /\ DOMAIN view' = {}
  BY <1>1
<1>5. ToSet(queue') = {}
  BY <1>4 DEF ToSet
<1>6. ConfigType'
  BY <1>1, <1>2, <1>3, <1>4, <1>5 DEF ConfigType, Numerals
<1>7. LoginInv'
  BY <1>1, <1>5 DEF LoginInv, Has
<1>8. FactorInv'
  BY <1>1 DEF FactorInv
<1>9. ViewInv' /\ NoStaleView'
  BY <1>4 DEF ViewInv, NoStaleView
<1>10. ReplayInv' /\ OrderInv'
  BY <1>1 DEF ReplayInv, OrderInv
<1> QED BY <1>6, <1>7, <1>8, <1>9, <1>10 DEF ConfigInv

\* The modules are loaded: whatever they publish, what was stored is to come.
LEMMA LoadStep ==
  ASSUME ConfigInv, NEW good \in SUBSET Modules, Load(good)
  PROVE  ConfigInv'
<1> DEFINE off == [k \in {Active(m) : m \in Modules} |-> Text("0")]
           defaults == [k \in {k \in DOMAIN Defaults : k[1] \in good} |-> Defaults[k]]
           new == Over(defaults, off)
<1>1. /\ stage = "login" /\ stage' = "loaded" /\ loaded' = good
      /\ queue' = queue \o commands /\ held' = held /\ factor' = factor
      /\ given' = given
      /\ settings' = Over(defaults, Over(off, settings))
      /\ view' = Over(defaults, Over(off, view))
  BY DEF Load
<1>2. /\ Storable(settings) /\ Storable(given) /\ factor \in Numerals
      /\ queue \in Seq(CommandType)
      /\ \A c \in ToSet(queue) : Known(<<c.module, c.variable>>)
  BY <1>1 DEF ConfigInv, ConfigType
<1>3. ASSUME NEW k \in DOMAIN new
      PROVE  Fits(k, new[k]) /\ new[k].sigil = "plain" /\ k[1] \in Modules
  <2>1. CASE k \in DOMAIN defaults
    <3>1. k \in DOMAIN Defaults /\ k[1] \in good /\ new[k] = Defaults[k]
      BY <2>1 DEF Over
    <3> QED BY <3>1, ValueAssumption
  <2>2. CASE k \notin DOMAIN defaults
    <3>1. k \in DOMAIN off /\ new[k] = off[k]
      BY <2>2 DEF Over
    <3>2. PICK m \in Modules : k = Active(m)
      BY <3>1
    <3>3. new[k] = Text("0")
      BY <3>1
    <3>4. m \in STRING /\ "active" \in STRING /\ "active" \in Variables
      BY Names
    <3>5. k = <<m, "active">> /\ k[1] = m /\ Known(k)
      BY <3>2, <3>4 DEF Active, Known
    <3> HIDE DEF new
    <3> QED BY <3>3, <3>5, Texts DEF Fits
  <2> QED BY <2>1, <2>2
<1>4. /\ DOMAIN settings' = DOMAIN new \cup DOMAIN settings
      /\ \A k \in DOMAIN new : settings'[k] = new[k]
      /\ \A k \in DOMAIN settings : k \notin DOMAIN new => settings'[k] = settings[k]
      /\ DOMAIN view' = DOMAIN new \cup DOMAIN view
      /\ \A k \in DOMAIN new : view'[k] = new[k]
      /\ \A k \in DOMAIN view : k \notin DOMAIN new => view'[k] = view[k]
  <2> HIDE DEF off, defaults
  <2> QED BY <1>1 DEF Over
<1> HIDE DEF new, off, defaults
<1>5. "base" \notin Modules /\ "shared" \notin Modules /\ Factor[1] = "base"
  BY Names DEF Factor
<1>6. Factor \notin DOMAIN new /\ \A x : <<"shared", x>> \notin DOMAIN new
  <2>1. \A x : <<"shared", x>>[1] = "shared"
    OBVIOUS
  <2> QED BY <1>3, <1>5, <2>1
<1>7. Storable(settings')
  <2>1. \A k \in DOMAIN settings' : Fits(k, settings'[k])
    BY <1>2, <1>3, <1>4 DEF Storable
  <2> QED BY <1>2, <1>4, <1>6, <2>1 DEF Storable, Has
<1>8. /\ commands \in Seq(CommandType) /\ Ordered(commands)
      /\ \A c \in ToSet(commands) : Replayable(given, c)
      /\ \A k \in DOMAIN given : k[1] \in Modules => ReplayOf(k) \in ToSet(commands)
      /\ ReplayOf(Factor) \in ToSet(commands)
  <2>1. commands = InitCommandSequence(given)
    BY <1>1 DEF ConfigInv, LoginInv
  <2>2. ReplayOf(Factor) = Command("base", "wait_time_factor", given[Factor], "replay")
    BY DEF ReplayOf, Factor
  <2> QED BY <1>2, <2>1, <2>2, InitCommandsProperties DEF ReplayOf
<1>9. \A c \in ToSet(queue) : c.by # "replay"
  BY <1>1 DEF ConfigInv, LoginInv
<1>10. /\ queue' \in Seq(CommandType) /\ ToSet(queue') = ToSet(queue) \cup ToSet(commands)
       /\ Ordered(queue')
  <2>1. \A c \in ToSet(queue), d \in ToSet(commands) : ~Activates(c, d)
    BY <1>9 DEF Activates
  <2>2. Ordered(queue)
    <3>1. \A i \in 1..Len(queue) : queue[i].by # "replay"
      BY <1>2, <1>9, SetOf
    <3> QED BY <3>1 DEF Ordered, Activates
  <2>3. queue \o commands \in Seq(CommandType)
        /\ ToSet(queue \o commands) = ToSet(queue) \cup ToSet(commands)
    BY <1>2, <1>8, ConcatSet
  <2>4. Ordered(queue \o commands)
    BY <1>2, <1>8, <2>1, <2>2, ConcatOrdered
  <2> QED BY <1>1, <2>3, <2>4
<1>11. ConfigType'
  <2>1. \A c \in ToSet(queue') : Known(<<c.module, c.variable>>)
    BY <1>2, <1>8, <1>10 DEF Replayable
  <2>2. stage' \in {"login", "loaded", "down"} /\ stage' = "loaded" /\ loaded' \subseteq Modules
        /\ factor' \in Numerals /\ Storable(given')
    BY <1>1, <1>2
  <2> QED BY <1>7, <1>10, <2>1, <2>2 DEF ConfigType
<1>12. ViewInv'
  BY <1>1, <1>4 DEF ConfigInv, ViewInv, Has
<1>13. NoStaleView'
  <2>1. \A x : ValueOf(settings', <<"shared", x>>) = ValueOf(settings, <<"shared", x>>)
    BY <1>4, <1>6 DEF ValueOf, Has
  <2>2. ASSUME NEW k \in DOMAIN view', k[1] # "shared"
        PROVE  \/ view'[k] = settings'[k]
               \/ /\ settings'[k].sigil # "plain"
                  /\ view'[k] = ValueOf(settings', <<"shared", settings'[k].text>>)
    <3>1. CASE k \in DOMAIN new
      BY <1>4, <3>1
    <3>2. CASE k \notin DOMAIN new
      <4>1. k \in DOMAIN view /\ k \in DOMAIN settings
        BY <1>1, <1>4, <2>2, <3>2 DEF ConfigInv, ViewInv, Has
      <4>2. view'[k] = view[k] /\ settings'[k] = settings[k]
        BY <1>4, <3>2, <4>1
      <4>3. \/ view[k] = settings[k]
            \/ /\ settings[k].sigil # "plain"
               /\ view[k] = ValueOf(settings, <<"shared", settings[k].text>>)
        BY <1>1, <2>2, <4>1 DEF ConfigInv, NoStaleView
      <4> QED BY <2>1, <4>2, <4>3
    <3> QED BY <3>1, <3>2
  <2> QED BY <2>2 DEF NoStaleView
<1>14. LoginInv'
  BY <1>1 DEF LoginInv
<1>15. ReplayInv'
  <2>1. ASSUME NEW c \in ToSet(queue'), c.by = "replay", c.module \in Modules,
               Has(given, <<c.module, c.variable>>)
        PROVE  c.value = given[<<c.module, c.variable>>]
    BY <1>8, <1>9, <1>10, <2>1 DEF Replayable
  <2>2. ASSUME NEW k \in DOMAIN given, k[1] \in good
        PROVE  /\ Has(settings', k)
               /\ \/ settings'[k] = given[k]
                  \/ settings'[k].sigil # "^" /\ ReplayOf(k) \in ToSet(queue')
    <3>1. k \in DOMAIN settings /\ settings[k] = given[k] /\ k[1] \in Modules
      BY <1>1, <2>2 DEF ConfigInv, LoginInv, Has
    <3>2. ReplayOf(k) \in ToSet(queue')
      BY <1>8, <1>10, <3>1
    <3>3. CASE k \in DOMAIN new
      BY <1>3, <1>4, <3>2, <3>3 DEF Has
    <3>4. CASE k \notin DOMAIN new
      BY <1>4, <3>1, <3>4 DEF Has
    <3> QED BY <3>3, <3>4
  <2> QED BY <1>1, <2>1, <2>2 DEF ReplayInv, ReplayOf
<1>16. FactorInv'
  <2>1. settings'[Factor] = settings[Factor]
    BY <1>2, <1>4, <1>6 DEF Storable, Has
  <2>2. settings[Factor] = Text(factor) \/ factor # "0"
    BY <1>1 DEF ConfigInv, FactorInv
  <2>3. ReplayOf(Factor) \in ToSet(queue')
    BY <1>8, <1>10
  <2> QED BY <1>1, <2>1, <2>2, <2>3 DEF FactorInv, ReplayOf
<1>17. OrderInv'
  BY <1>10 DEF OrderInv
<1> QED BY <1>11, <1>12, <1>13, <1>14, <1>15, <1>16, <1>17 DEF ConfigInv

\* Every step keeps the invariant.
LEMMA ConfigStep ==
  ASSUME ConfigInv, [ConfigNext]_configVars
  PROVE  ConfigInv'
<1>1. CASE Execute
  BY <1>1, ExecuteStep
<1>2. ASSUME NEW k \in Settable, NEW value \in Arguments,
             \/ Send(k[1], k[2], value)
             \/ k[1] = "shared" /\ ScriptSetsShared(k[2], value)
      PROVE  ConfigInv'
  BY <1>2, SendStep, ScriptSetsSharedStep
<1>3. CASE \E good \in SUBSET Modules : Load(good)
  BY <1>3, LoadStep
<1>4. CASE \E m \in Modules : ModuleEnds(m)
  BY <1>4, ModuleEndsStep
<1>5. CASE Shutdown
  BY <1>5, ShutdownStep
<1>6. CASE Restart
  BY <1>6, RestartStep
<1>7. CASE UNCHANGED configVars
  BY <1>7 DEF configVars, ConfigInv, ConfigType, ViewInv, NoStaleView, LoginInv,
              ReplayInv, FactorInv, OrderInv, ReplayOf
<1> QED BY <1>1, <1>2, <1>3, <1>4, <1>5, <1>6, <1>7 DEF ConfigNext

-----------------------------------------------------------------------------
(***************************************************************************)
(* The theorems about the configuration.                                   *)
(***************************************************************************)

\* The invariant of BotConfig holds: until the modules are loaded nothing that was
\* given is changed, and then what has been changed will be replayed, activation
\* last.
THEOREM ConfigInvHolds == ConfigSpec => []ConfigInv
<1>1. ConfigInit => ConfigInv
  BY StartInv, ValueAssumption DEF ConfigInit
<1>2. ConfigInv /\ [ConfigNext]_configVars => ConfigInv'
  BY ConfigStep
<1> QED BY <1>1, <1>2, PTL DEF ConfigSpec

\* The stored settings survive a restart of the bot, whatever is sent during the
\* login or waits when the modules are loaded.
THEOREM RestoredHolds == ConfigSpec => []Restored
<1>1. ConfigInv => Restored
  <2> SUFFICES ASSUME ConfigInv, Replayed PROVE Restored
    BY DEF Restored
  <2>1. stage = "loaded" /\ \A c \in ToSet(queue) : c.by # "replay"
    <3>1. queue \in Seq(CommandType)
      BY DEF ConfigInv, ConfigType
    <3> QED BY <3>1, SetOf DEF Replayed
  <2>2. \A k : ReplayOf(k) \notin ToSet(queue)
    BY <2>1 DEF ReplayOf, Command
  <2>3. \A k \in DOMAIN given : k[1] \in loaded /\ k \notin touched => settings[k] = given[k]
    BY <2>1, <2>2 DEF ConfigInv, ReplayInv
  <2>4. settings[Factor] = Text(factor)
    BY <2>1, <2>2 DEF ConfigInv, FactorInv
  <2> QED BY <2>3, <2>4 DEF Restored
<1> QED BY <1>1, ConfigInvHolds, PTL

\* No client is left with what is out of date.
THEOREM NoStaleViewHolds == ConfigSpec => []NoStaleView
<1>1. ConfigInv => NoStaleView
  BY DEF ConfigInv
<1> QED BY <1>1, ConfigInvHolds, PTL

\* A module that the replay starts has its stored settings.
THEOREM StartsConfiguredHolds == ConfigSpec => StartsConfigured
<1> DEFINE Configured ==
      \A m \in loaded :
        Replays(Command(m, "active", Text("1"), "replay")) =>
          \A k \in DOMAIN given :
            k[1] = m /\ k \notin {Active(m)} \cup touched => settings[k] = given[k]
<1>1. ConfigInv => Configured
  <2> SUFFICES ASSUME ConfigInv, NEW m \in loaded, NEW k \in DOMAIN given,
                      Replays(Command(m, "active", Text("1"), "replay")),
                      k[1] = m, k # Active(m), k \notin touched,
                      settings[k] # given[k]
               PROVE  FALSE
    BY DEF Configured
  <2> DEFINE c == Head(queue)
             d == ReplayOf(k)
  <2>1. stage = "loaded" /\ queue \in Seq(CommandType) /\ Storable(given)
    BY DEF ConfigInv, ConfigType
  <2>2. queue # <<>> /\ c = Command(m, "active", Text("1"), "replay")
    BY DEF Replays
  <2>3. c.by = "replay" /\ c.module = m /\ c.variable = "active"
    BY <2>2 DEF Command
  <2>4. d.by = "replay" /\ d.module = m /\ d.variable # "active"
    <3>1. k = <<k[1], k[2]>>
      BY <2>1, KeyParts
    <3> QED BY <3>1 DEF ReplayOf, Command, Active
  <2>5. d \in ToSet(queue)
    BY <2>1 DEF ConfigInv, ReplayInv
  <2> HIDE DEF c, d
  <2>6. Ordered(queue)
    BY <2>1 DEF ConfigInv, OrderInv
  <2>7. ToSet(queue) = {c} \cup ToSet(Tail(queue))
        /\ \A e \in ToSet(Tail(queue)) : ~Activates(c, e)
    BY <2>1, <2>2, <2>6, TailSet DEF c
  <2>8. d # c
    BY <2>3, <2>4
  <2> QED BY <2>3, <2>4, <2>5, <2>7, <2>8 DEF Activates
<1>2. ConfigInv /\ [ConfigNext]_configVars => [Configured]_configVars
  BY <1>1
<1> HIDE DEF Configured
<1>3. ConfigSpec => [][Configured]_configVars
  BY <1>2, ConfigInvHolds, PTL DEF ConfigSpec
<1> QED BY <1>3 DEF StartsConfigured, Configured

-----------------------------------------------------------------------------
(***************************************************************************)
(* The registry of the bots, which the configuration has nothing to do     *)
(* with.                                                                   *)
(***************************************************************************)

\* An empty registry satisfies the invariant.
LEMMA RegistryInit == Init => RegistryInv
BY IdentifierAssumption, NullAssumption
DEF Init, RegistryInv, TypeOK, EntryIsOwn, OnlyLiveRegistered, CheckedIsFree,
    ScriptIsOwn, Phases

\* Every step keeps the types,
LEMMA RegistryType ==
  ASSUME TypeOK, [Next]_vars
  PROVE  TypeOK'
<1> USE IdentifierAssumption, NullAssumption DEF TypeOK, Phases
<1>1. ASSUME NEW b \in Bots, ContainsId(b) PROVE TypeOK'
  BY <1>1 DEF ContainsId, InitAlone
<1>2. ASSUME NEW b \in Bots, Add(b) PROVE TypeOK'
  BY <1>2 DEF Add
<1>3. ASSUME NEW b \in Bots, RemoveId(b) PROVE TypeOK'
  BY <1>3 DEF RemoveId
<1>4. ASSUME NEW b \in Bots, StartScript(b) PROVE TypeOK'
  BY <1>4 DEF StartScript
<1>5. ASSUME NEW b \in Bots, EndScript(b) PROVE TypeOK'
  BY <1>5 DEF EndScript
<1>6. CASE UNCHANGED vars
  BY <1>6 DEF vars
<1> QED BY <1>1, <1>2, <1>3, <1>4, <1>5, <1>6 DEF Next

\* What is registered is live, whether the client is orderly or not.
LEMMA RegisteredStep ==
  ASSUME TypeOK, OnlyLiveRegistered, [Next]_vars
  PROVE  OnlyLiveRegistered'
<1> USE IdentifierAssumption, NullAssumption
<1>1. ASSUME NEW b \in Bots, ContainsId(b) PROVE OnlyLiveRegistered'
  BY <1>1 DEF OnlyLiveRegistered, ContainsId, TypeOK, Phases
<1>2. ASSUME NEW b \in Bots, Add(b) PROVE OnlyLiveRegistered'
  BY <1>2 DEF OnlyLiveRegistered, Add, TypeOK, Phases
<1>3. ASSUME NEW b \in Bots, RemoveId(b) PROVE OnlyLiveRegistered'
  BY <1>3 DEF OnlyLiveRegistered, RemoveId, TypeOK, Phases
<1>4. ASSUME UNCHANGED <<bots, phase>> PROVE OnlyLiveRegistered'
  BY <1>4 DEF OnlyLiveRegistered
<1>5. ASSUME NEW b \in Bots, StartScript(b) \/ EndScript(b)
      PROVE  OnlyLiveRegistered'
  BY <1>4, <1>5 DEF StartScript, EndScript
<1>6. ASSUME UNCHANGED vars PROVE OnlyLiveRegistered'
  BY <1>4, <1>6 DEF vars
<1> QED BY <1>1, <1>2, <1>3, <1>5, <1>6 DEF Next

\* So is what scripts carry.
LEMMA ScriptStep ==
  ASSUME TypeOK, ScriptIsOwn, [Next]_vars
  PROVE  ScriptIsOwn'
<1> USE IdentifierAssumption
<1>1. ASSUME NEW b \in Bots, ContainsId(b) PROVE ScriptIsOwn'
  BY <1>1 DEF ScriptIsOwn, ContainsId, TypeOK, Phases
<1>2. ASSUME NEW b \in Bots, Add(b) PROVE ScriptIsOwn'
  BY <1>2 DEF ScriptIsOwn, Add, TypeOK, Phases
<1>3. ASSUME NEW b \in Bots, RemoveId(b) PROVE ScriptIsOwn'
  BY <1>3 DEF ScriptIsOwn, RemoveId, TypeOK, Phases
<1>4. ASSUME NEW b \in Bots, StartScript(b) PROVE ScriptIsOwn'
  BY <1>4 DEF ScriptIsOwn, StartScript, TypeOK
<1>5. ASSUME NEW b \in Bots, EndScript(b) PROVE ScriptIsOwn'
  BY <1>5 DEF ScriptIsOwn, EndScript, TypeOK
<1>6. CASE UNCHANGED vars
  BY <1>6 DEF vars, ScriptIsOwn
<1> QED BY <1>1, <1>2, <1>3, <1>4, <1>5, <1>6 DEF Next

\* and the invariant: contains and add are two steps of it, between which any
\* other bot may take one.
LEMMA RegistryStep ==
  ASSUME RegistryInv, [Next]_vars
  PROVE  RegistryInv'
<1> USE IdentifierAssumption, NullAssumption
<1>0. TypeOK /\ TypeOK' /\ OnlyLiveRegistered' /\ ScriptIsOwn'
  BY RegistryType, RegisteredStep, ScriptStep DEF RegistryInv
<1>1. ASSUME NEW b \in Bots, ContainsId(b)
      PROVE  EntryIsOwn' /\ CheckedIsFree'
  <2>1. EntryIsOwn'
    BY <1>0, <1>1 DEF RegistryInv, EntryIsOwn, ContainsId, TypeOK, Phases
  <2>2. CheckedIsFree'
    <3> SUFFICES ASSUME orderly', NEW c \in Bots, phase'[c] = "checked"
                 PROVE  /\ bots'[Identifier[c]] = NoBot
                        /\ \A d \in Bots : phase'[d] = "checked" => d = c
      BY DEF CheckedIsFree
    <3>1. \A d \in Bots : phase[d] # "checked"
      BY <1>1 DEF ContainsId, InitAlone
    <3>2. \A d \in Bots : phase'[d] = "checked" =>
                           d = b /\ bots[Identifier[b]] = NoBot
      BY <1>0, <1>1, <3>1 DEF ContainsId, TypeOK
    <3>3. bots' = bots
      BY <1>1 DEF ContainsId
    <3> QED BY <3>2, <3>3
  <2> QED BY <2>1, <2>2
<1>2. ASSUME NEW b \in Bots, Add(b)
      PROVE  EntryIsOwn' /\ CheckedIsFree'
  <2>0. orderly => bots[Identifier[b]] = NoBot
    BY <1>2 DEF RegistryInv, CheckedIsFree, Add
  <2>1. EntryIsOwn'
    BY <1>0, <1>2, <2>0 DEF RegistryInv, EntryIsOwn, Add, TypeOK, Phases
  <2>2. CheckedIsFree'
    BY <1>0, <1>2, <2>0
    DEF RegistryInv, CheckedIsFree, Add, TypeOK, Phases
  <2> QED BY <2>1, <2>2
<1>3. ASSUME NEW b \in Bots, RemoveId(b)
      PROVE  EntryIsOwn' /\ CheckedIsFree'
  <2>0. orderly' => orderly /\ bots[Identifier[b]] = b
    BY <1>3 DEF RemoveId, RegistryInv, EntryIsOwn
  <2>1. EntryIsOwn'
    BY <1>0, <1>3, <2>0 DEF RegistryInv, EntryIsOwn, RemoveId, TypeOK, Phases
  <2>2. CheckedIsFree'
    BY <1>0, <1>3, <2>0
    DEF RegistryInv, CheckedIsFree, RemoveId, TypeOK, Phases
  <2> QED BY <2>1, <2>2
<1>4. ASSUME UNCHANGED <<bots, phase, orderly>>
      PROVE  EntryIsOwn' /\ CheckedIsFree'
  BY <1>4 DEF RegistryInv, EntryIsOwn, CheckedIsFree
<1>5. ASSUME NEW b \in Bots, StartScript(b) \/ EndScript(b)
      PROVE  EntryIsOwn' /\ CheckedIsFree'
  BY <1>4, <1>5 DEF StartScript, EndScript
<1>6. ASSUME UNCHANGED vars PROVE EntryIsOwn' /\ CheckedIsFree'
  BY <1>4, <1>6 DEF vars
<1>7. EntryIsOwn' /\ CheckedIsFree'
  BY <1>1, <1>2, <1>3, <1>5, <1>6 DEF Next
<1> QED BY <1>0, <1>7 DEF RegistryInv

(***************************************************************************)
(* The invariant of the registry holds whatever clients do, that is for    *)
(* every interleaving of init, shutdown and scripts.                       *)
(***************************************************************************)
THEOREM RegistryInvHolds == Spec => []RegistryInv
<1>1. RegistryInv /\ [Next]_vars => RegistryInv'
  BY RegistryStep
<1> QED BY <1>1, RegistryInit, PTL DEF Spec

\* With orderly clients, get_bot returns to the scripts of a live bot that bot.
THEOREM LiveIsFoundHolds == Spec => []LiveIsFound
<1>1. RegistryInv => LiveIsFound
  <2> SUFFICES ASSUME RegistryInv, orderly, NEW b \in Bots,
                      phase[b] = "live", script[b] # {}
               PROVE  GetBot(b) = {b}
    BY DEF LiveIsFound, AcceptedIsFound
  <2>1. script[b] = {Identifier[b]} /\ Identifier[b] \in Identifiers
    BY IdentifierAssumption DEF RegistryInv, ScriptIsOwn
  <2>2. bots[Identifier[b]] = b /\ b # NoBot
    BY NullAssumption DEF RegistryInv, EntryIsOwn
  <2> QED BY <2>1, <2>2 DEF GetBot
<1> QED BY <1>1, RegistryInvHolds, PTL

(***************************************************************************)
(* Without any discipline - duplicates shut down, shutdowns repeated, init *)
(* called by several threads - the registry never holds a bot that is not  *)
(* live, or holds it under another identifier.                             *)
(***************************************************************************)
THEOREM OnlyLiveRegisteredHolds == Spec => []OnlyLiveRegistered
<1>1. RegistryInv => OnlyLiveRegistered
  BY DEF RegistryInv
<1> QED BY <1>1, RegistryInvHolds, PTL

=============================================================================
