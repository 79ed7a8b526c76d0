----------------------------- MODULE KaniExec_proofs -----------------------------
(***************************************************************************)
(* Proofs about KaniExec for any number of directories and of inherited    *)
(* flags.  The invariant says what has been established at each stage of   *)
(* exec_kani: which parts of the release were measured and not replaced    *)
(* since, and that nothing the documents select is missing from what the   *)
(* child is given.                                                         *)
(***************************************************************************)
EXTENDS KaniExec, SequenceTheorems, WellFoundedInduction, TLAPS

\* The part is what it was when it was last looked at.
Sound(p) == p \in drifted \/ release[p] = "qualified"

\* What has been measured at each stage.
Qualified ==
    /\ pc \in Running => ~ran
    /\ pc \in Running \ (Queries \cup {"proof"}) => drifted = {}
    /\ pc \in Running \ {"validate"} => Sound("metadata")
    /\ pc \in {"compiler", "verifier", "proof"} => Sound("rustc")
    /\ pc \in {"verifier", "proof"} => Sound("compiler")
    /\ pc = "proof" => Sound("driver")
    /\ ran => \A p \in Asked \cup {"metadata"} : Sound(p)

\* What of the configuration has been collected, refused and overridden.
Shadowed ==
    /\ pc = "manifest" => IsAncestor
    /\ wanted \subseteq selections
    /\ ~escapes
    /\ pc \in Running \ {"validate", "tools"} \/ ran => (fallback => Selected)
    /\ pc \in Queries \cup {"proof"} \/ ran =>
         pinned = {codegen_backend_variable(p) : p \in selections}

Answered == pc = "exited" => IF ran THEN status = ShellStatus(result) ELSE status # 0

IInv == TypeOK /\ Qualified /\ Shadowed /\ Answered

--------------------------------------------------------------------------------

\* A set of numbers that is not empty has a least element.
LEMMA LeastNumber ==
  ASSUME NEW S, S \subseteq Nat, S # {}
  PROVE  \E n \in S : \A m \in S : n <= m
<1> DEFINE less == {ss \in Nat \X Nat : ss[1] < ss[2]}
<1>1. less = OpToRel(<, Nat)
  BY Zenon DEF OpToRel
<1>2. IsWellFoundedOn(less, Nat)
  BY <1>1, NatLessThanWellFounded, Zenon
<1>3. \A m, n \in Nat : m < n => <<m, n>> \in less
  OBVIOUS
<1> HIDE DEF less
<1>4. PICK n \in S : \A m \in S : ~(<<m, n>> \in less)
  BY <1>2, WFMin, Zenon
<1>5. ASSUME NEW m \in S
      PROVE  n <= m
  <2>1. m \in Nat /\ n \in Nat
    BY <1>4
  <2>2. ~(m < n)
    BY <1>3, <1>4, <2>1
  <2>3. QED
    BY <2>1, <2>2
<1>6. QED
  BY <1>4, <1>5

\* An option takes one token or two, and never more than there are.
LEMMA WidthFits ==
  ASSUME NEW tokens \in Seq(Tokens), NEW i \in 1..Len(tokens)
  PROVE  /\ Width(tokens, i) \in {1, 2}
         /\ i + Width(tokens, i) \in (i + 1)..(Len(tokens) + 1)
         /\ Option(tokens, i) \in Seq(Tokens)
<1>1. Width(tokens, i) \in {1, 2} /\ (Width(tokens, i) = 2 => i < Len(tokens))
  BY DEF Width
<1>2. i + Width(tokens, i) \in (i + 1)..(Len(tokens) + 1)
  BY <1>1
<1>3. Option(tokens, i) \in Seq(Tokens)
  BY <1>1, <1>2, SubSeqProperties DEF Option
<1>4. QED
  BY <1>1, <1>2, <1>3

\* The loop over the flags, whatever they are, ends with a sequence of flags: the
\* recursion is well defined, and every step of it appends one.
LEMMA KeptIsFlags ==
  ASSUME NEW tokens \in Seq(Tokens)
  PROVE  KeptFrom(tokens)[1] \in Seq(Tokens)
<1> DEFINE L == Len(tokens)
           step(f, i) == IF i > L THEN <<>>
                         ELSE (IF Survives(Option(tokens, i)) THEN Option(tokens, i) ELSE <<>>)
                                \o f[i + Width(tokens, i)]
           solves(f, n) == \A i \in (L + 1 - n)..(L + 1) : f[i] = step(f, i)
           unsolved == {n \in 0..L : ~\E f \in [1..(L + 1) -> Seq(Tokens)] : solves(f, n)}
<1>1. L \in Nat
  OBVIOUS
<1>2. ASSUME NEW i \in 1..L, NEW s \in Seq(Tokens)
      PROVE  (IF Survives(Option(tokens, i)) THEN Option(tokens, i) ELSE <<>>) \o s \in Seq(Tokens)
  BY <1>2, WidthFits, ConcatProperties
<1>3. unsolved = {}
  <2> SUFFICES ASSUME unsolved # {} PROVE FALSE
    OBVIOUS
  <2>1. unsolved \subseteq 0..L
    OBVIOUS
  <2>2. \A n \in 0..L, f \in [1..(L + 1) -> Seq(Tokens)] : solves(f, n) => n \notin unsolved
    OBVIOUS
  <2>3. \A n \in (0..L) \ unsolved : \E f \in [1..(L + 1) -> Seq(Tokens)] : solves(f, n)
    OBVIOUS
  <2> HIDE DEF unsolved
  <2>4. unsolved \subseteq Nat
    BY <1>1, <2>1
  <2>5. PICK n \in unsolved : \A m \in unsolved : n <= m
    BY <2>4, LeastNumber, Zenon
  <2>6. CASE n = 0
    <3> DEFINE f == [i \in 1..(L + 1) |-> <<>>]
    <3>1. f \in [1..(L + 1) -> Seq(Tokens)]
      OBVIOUS
    <3>2. solves(f, n)
      BY <1>1, <2>6
    <3>3. n \in 0..L
      BY <2>5, <2>1
    <3> HIDE DEF f, solves
    <3>4. QED
      BY <2>5, <2>2, <3>1, <3>2, <3>3, Zenon
  <2>7. CASE n # 0
    <3>1. n \in 1..L /\ n - 1 \in (0..L) \ unsolved
      BY <1>1, <2>5, <2>7, <2>1
    <3>2. PICK f \in [1..(L + 1) -> Seq(Tokens)] : solves(f, n - 1)
      BY <2>3, <3>1
    <3> DEFINE i == L + 1 - n
               g == [f EXCEPT ![i] = step(f, i)]
    <3>3. i \in 1..L
      BY <1>1, <3>1
    <3>4. step(f, i) \in Seq(Tokens)
      BY <1>1, <1>2, <3>2, <3>3, WidthFits
    <3>5. g \in [1..(L + 1) -> Seq(Tokens)]
      BY <3>2, <3>4
    <3>6. ASSUME NEW j \in i..(L + 1)
          PROVE  g[j] = step(g, j)
      <4>1. \A h \in (i + 1)..(L + 1) : g[h] = f[h]
        BY <1>1, <3>2, <3>3
      <4>2. j <= L => j + Width(tokens, j) \in (i + 1)..(L + 1)
        BY <1>1, <3>3, WidthFits
      <4>3. step(g, j) = step(f, j)
        BY <1>1, <3>3, <4>1, <4>2
      <4>4. CASE j = i
        BY <3>2, <3>3, <4>3, <4>4
      <4>5. CASE j # i
        <5>1. j \in (L + 1 - (n - 1))..(L + 1)
          BY <1>1, <3>1, <4>5
        <5>2. f[j] = step(f, j)
          BY <3>2, <5>1
        <5>3. g[j] = f[j]
          BY <1>1, <3>3, <4>1, <4>5
        <5>4. QED
          BY <4>3, <5>2, <5>3
      <4>6. QED
        BY <4>4, <4>5
    <3>7. solves(g, n)
      BY <3>6
    <3>8. n \in 0..L
      BY <2>5, <2>1
    <3> HIDE DEF g, solves
    <3>9. QED
      BY <2>5, <2>2, <3>5, <3>7, <3>8, Zenon
  <2>8. QED
    BY <2>6, <2>7
<1> DEFINE whole(f) == f = [i \in 1..(L + 1) |-> step(f, i)]
<1>4. \E f : whole(f)
  <2>1. PICK f \in [1..(L + 1) -> Seq(Tokens)] : solves(f, L)
    BY <1>1, <1>3
  <2>2. \A i \in 1..(L + 1) : f[i] = step(f, i)
    <3>1. L + 1 - L = 1
      BY <1>1
    <3>2. QED
      BY <2>1, <3>1
  <2>3. whole(f)
    BY <2>2
  <2>4. QED
    BY <2>3
<1> DEFINE kept == KeptFrom(tokens)
<1>5. kept = CHOOSE f : whole(f)
  BY DEF KeptFrom
<1>6. whole(kept)
  BY <1>4, <1>5
<1>7. \A i \in 1..(L + 1) : kept[i] = step(kept, i)
  BY <1>6
<1> HIDE DEF kept
<1> DEFINE wrong == {n \in 0..L : kept[L + 1 - n] \notin Seq(Tokens)}
<1>8. wrong = {}
  <2> SUFFICES ASSUME wrong # {} PROVE FALSE
    OBVIOUS
  <2>1. wrong \subseteq 0..L
    OBVIOUS
  <2>2. \A n \in 0..L : n \in wrong <=> kept[L + 1 - n] \notin Seq(Tokens)
    OBVIOUS
  <2> HIDE DEF wrong
  <2>3. wrong \subseteq Nat
    BY <1>1, <2>1
  <2>4. PICK n \in wrong : \A m \in wrong : n <= m
    BY <2>3, LeastNumber, Zenon
  <2> DEFINE i == L + 1 - n
  <2>5. n \in 0..L /\ i \in 1..(L + 1)
    BY <1>1, <2>4, <2>1
  <2>6. kept[i] = step(kept, i)
    BY <1>7, <2>5
  <2>7. CASE n = 0
    <3>1. i > L
      BY <1>1, <2>7
    <3>2. kept[i] = <<>>
      BY <2>6, <3>1
    <3>3. kept[i] \in Seq(Tokens)
      BY <3>2
    <3>4. QED
      BY <2>4, <2>5, <2>2, <3>3
  <2>8. CASE n # 0
    <3>1. i \in 1..L
      BY <1>1, <2>5, <2>8
    <3> DEFINE j == i + Width(tokens, i)
    <3>2. j \in (i + 1)..(L + 1)
      BY <3>1, WidthFits
    <3>3. L + 1 - j \in 0..(n - 1) /\ L + 1 - (L + 1 - j) = j
      BY <1>1, <2>5, <3>2
    <3>4. kept[j] \in Seq(Tokens)
      BY <1>1, <2>4, <2>5, <2>2, <3>3
    <3>5. kept[i] \in Seq(Tokens)
      BY <1>1, <1>2, <2>6, <3>1, <3>4
    <3>6. QED
      BY <2>4, <2>5, <2>2, <3>5
  <2>9. QED
    BY <2>7, <2>8
<1>9. kept[L + 1 - L] \in Seq(Tokens)
  BY <1>1, <1>8
<1>10. QED
  BY <1>1, <1>9 DEF kept

\* What the environment holds is a sequence of flags.
LEMMA InheritedFlags ==
  ASSUME NEW environment \in Inherited \cup {Nothing}
  PROVE  verification_flags(environment) \in Seq(Tokens)
<1> DEFINE tokens == _effective_tokens(environment)
<1>1. \A n \in Nat : Sequences(n) \subseteq Seq(Tokens)
  BY DEF Sequences
<1>2. << <<"opt">> >> \in Seq(Tokens) /\ Deny \in Seq(Tokens)
  BY DEF Tokens, Words, Dashed, Heads, Deny
<1>3. environment.plain \in Seq(Tokens) /\ environment.encoded \in SUBSET Seq(Tokens)
  <2>1. CASE environment = Nothing
    BY <2>1 DEF Nothing
  <2>2. CASE environment \in Inherited
    <3>1. Sequences(MaxFlags) \subseteq Seq(Tokens) /\ Sequences(1) \subseteq Seq(Tokens)
      BY <1>1, ExecAssumption DEF ExecAssumption
    <3>2. environment.plain \in Sequences(MaxFlags) \cup {<< <<"opt">> >>} \cup {<<>>}
      BY <2>2 DEF Inherited
    <3>3. environment.encoded \in {{}} \cup {{t} : t \in Sequences(1)}
      BY <2>2 DEF Inherited
    <3>4. <<>> \in Seq(Tokens)
      OBVIOUS
    <3>5. environment.plain \in Seq(Tokens)
      BY <1>2, <3>1, <3>2, <3>4
    <3>6. environment.encoded \in SUBSET Seq(Tokens)
      BY <3>1, <3>3
    <3>7. QED
      BY <3>5, <3>6
  <2>3. QED
    BY <2>1, <2>2
<1>4. tokens \in Seq(Tokens)
  BY <1>3 DEF _effective_tokens
<1> HIDE DEF tokens
<1>5. KeptFrom(tokens)[1] \in Seq(Tokens)
  BY <1>4, KeptIsFlags
<1>6. KeptFrom(tokens)[1] \o Deny \in Seq(Tokens)
  BY <1>2, <1>5, ConcatProperties
<1>7. QED
  BY <1>5, <1>6 DEF verification_flags, tokens

\* What the shell sees of a code the command may end with.
LEMMA ShellStatuses ==
  ASSUME NEW code \in {0, 1, FailCode, -Signal}
  PROVE  ShellStatus(code) \in 0..255 /\ (ShellStatus(code) = 0 <=> code = 0)
  BY ExecAssumption DEF ExecAssumption, ShellStatus

--------------------------------------------------------------------------------

\* Every step of the command and every replacement of a part keeps the invariant.
LEMMA Invariance == Spec => []IInv
<1> USE ExecAssumption DEF ExecAssumption, Running, Queries, Asked
<1>1. Init => IInv
  <2> SUFFICES ASSUME Init PROVE IInv
    OBVIOUS
  <2>1. TypeOK
    <3>1. /\ directory \in 1..(Depth + 1)
          /\ result \in {0, FailCode, -Signal}
          /\ status \in -1..255
      BY DEF Init
    <3>2. /\ flags \in Seq(Tokens)
          /\ inherited \in Inherited \cup {Nothing}
          /\ release \in [Parts -> {"qualified", "other", "missing"}]
      BY DEF Init
    <3>3. /\ pinned \subseteq {codegen_backend_variable(p) : p \in Profiles}
          /\ selections \subseteq Profiles /\ wanted \subseteq Profiles /\ drifted \subseteq Parts
      BY DEF Init
    <3>4. QED
      BY <3>1, <3>2, <3>3 DEF Init, TypeOK
  <2>2. Qualified /\ Shadowed /\ Answered
    BY DEF Init, Qualified, Shadowed, Answered, Sound
  <2>3. QED
    BY <2>1, <2>2 DEF IInv
<1>2. IInv /\ [Next]_vars => IInv'
  <2> SUFFICES ASSUME IInv, [Next]_vars PROVE IInv'
    OBVIOUS
  <2> USE DEF IInv, routing, config, child, outcome
  <2>1. CASE Refuse
    <3> USE <2>1 DEF Refuse, Exit
    <3>1. TypeOK'
      <4>1. status' \in -1..255
        BY ShellStatuses
      <4>2. QED
        BY <4>1 DEF TypeOK
    <3>2. Qualified'
      BY DEF TypeOK, Qualified, Sound, Parts
    <3>3. Shadowed'
      BY DEF Shadowed, Qualified, Selected, IsAncestor
    <3>4. Answered'
      BY DEF TypeOK, Qualified, Answered, ShellStatus
    <3>5. QED
      BY <3>1, <3>2, <3>3, <3>4
  <2>2. CASE Validate
    <3> USE <2>2 DEF Validate, Step
    <3>1. TypeOK'
      BY DEF TypeOK
    <3>2. Qualified'
      BY DEF TypeOK, Qualified, Sound, Parts
    <3>3. Shadowed'
      BY DEF Shadowed, Qualified, Selected, IsAncestor
    <3>4. Answered'
      BY DEF TypeOK, Qualified, Answered, ShellStatus
    <3>5. QED
      BY <3>1, <3>2, <3>3, <3>4
  <2>3. CASE CheckTools
    <3> USE <2>3 DEF CheckTools, Step
    <3>1. TypeOK'
      BY DEF TypeOK
    <3>2. Qualified'
      BY DEF TypeOK, Qualified, Sound, Parts
    <3>3. Shadowed'
      BY DEF Shadowed, Qualified, Selected, IsAncestor
    <3>4. Answered'
      BY DEF TypeOK, Qualified, Answered, ShellStatus
    <3>5. QED
      BY <3>1, <3>2, <3>3, <3>4
  <2>4. CASE CheckConfigDirectory
    <3> USE <2>4 DEF CheckConfigDirectory, Collect
    <3>1. TypeOK'
      BY DEF TypeOK
    <3>2. Qualified'
      BY DEF TypeOK, Qualified, Sound, Parts
    <3>3. Shadowed'
      <4>1. PICK legacy, modern \in Documents :
              /\ Acceptable(legacy) /\ Acceptable(modern)
              /\ selections' = selections \cup ({legacy, modern} \cap Profiles)
              /\ wanted' = wanted \cup ({legacy, modern} \cap Profiles)
              /\ escapes' = (escapes \/ Escapes(legacy) \/ Escapes(modern))
        OBVIOUS
      <4>2. \A document \in Documents : Acceptable(document) => ~Escapes(document)
        BY DEF Acceptable, HidesRoute, Selected, Escapes
      <4>3. ~escapes'
        BY <4>1, <4>2 DEF Shadowed
      <4>4. wanted' \subseteq selections'
        BY <4>1 DEF Shadowed
      <4>5. QED
        BY <4>3, <4>4 DEF Shadowed, Qualified, Selected, IsAncestor
    <3>4. Answered'
      BY DEF TypeOK, Qualified, Answered, ShellStatus
    <3>5. QED
      BY <3>1, <3>2, <3>3, <3>4
  <2>5. CASE CheckManifest
    <3> USE <2>5 DEF CheckManifest, Step, Collect
    <3>1. TypeOK'
      <4>1. directory' \in 1..(Depth + 1)
        BY DEF TypeOK, Shadowed, IsAncestor
      <4>2. selections' \subseteq Profiles /\ wanted' \subseteq Profiles
        BY DEF TypeOK
      <4>3. escapes' \in BOOLEAN
        BY DEF TypeOK
      <4>4. QED
        BY <4>1, <4>2, <4>3 DEF TypeOK
    <3>2. Qualified'
      BY DEF TypeOK, Qualified, Sound, Parts
    <3>3. Shadowed'
      <4>1. ~escapes'
        BY DEF Shadowed, AcceptableManifest
      <4>2. wanted' \subseteq selections'
        BY DEF Shadowed
      <4>3. QED
        BY <4>1, <4>2 DEF Shadowed, Qualified, Selected
    <3>4. Answered'
      BY DEF TypeOK, Qualified, Answered, ShellStatus
    <3>5. QED
      BY <3>1, <3>2, <3>3, <3>4
  <2>6. CASE Inherit
    <3> USE <2>6 DEF Inherit, Step
    <3>1. TypeOK'
      BY DEF TypeOK
    <3>2. Qualified'
      BY DEF TypeOK, Qualified, Sound, Parts
    <3>3. Shadowed'
      BY DEF Shadowed, Qualified, Selected, IsAncestor
    <3>4. Answered'
      BY DEF TypeOK, Qualified, Answered, ShellStatus
    <3>5. QED
      BY <3>1, <3>2, <3>3, <3>4
  <2>7. CASE Prepare
    <3> USE <2>7 DEF Prepare, Step
    <3>1. TypeOK'
      <4>1. flags' \in Seq(Tokens)
        BY InheritedFlags DEF TypeOK
      <4>2. pinned' \subseteq {codegen_backend_variable(p) : p \in Profiles}
        BY DEF TypeOK
      <4>3. inherited' \in Inherited \cup {Nothing}
        OBVIOUS
      <4>4. QED
        BY <4>1, <4>2, <4>3 DEF TypeOK
    <3>2. Qualified'
      BY DEF TypeOK, Qualified, Sound, Parts
    <3>3. Shadowed'
      BY DEF Shadowed, Qualified, Selected, IsAncestor
    <3>4. Answered'
      BY DEF TypeOK, Qualified, Answered, ShellStatus
    <3>5. QED
      BY <3>1, <3>2, <3>3, <3>4
  <2>8. CASE Identified
    <3> USE <2>8 DEF Identified, Queried
    <3>1. TypeOK'
      BY DEF TypeOK
    <3>2. Qualified'
      BY DEF TypeOK, Qualified, Sound, Parts
    <3>3. Shadowed'
      BY DEF Shadowed, Qualified, Selected, IsAncestor
    <3>4. Answered'
      BY DEF TypeOK, Qualified, Answered, ShellStatus
    <3>5. QED
      BY <3>1, <3>2, <3>3, <3>4
  <2>9. CASE Drifted
    <3> USE <2>9 DEF Drifted, Exit, Queried
    <3>1. TypeOK'
      <4>1. status' \in -1..255
        BY ShellStatuses
      <4>2. QED
        BY <4>1 DEF TypeOK
    <3>2. Qualified'
      BY DEF TypeOK, Qualified, Sound, Parts
    <3>3. Shadowed'
      BY DEF Shadowed, Qualified, Selected, IsAncestor
    <3>4. Answered'
      BY DEF TypeOK, Qualified, Answered, ShellStatus
    <3>5. QED
      BY <3>1, <3>2, <3>3, <3>4
  <2>10. CASE QueryFails
    <3> USE <2>10 DEF QueryFails, Exit
    <3>1. TypeOK'
      <4>1. status' \in -1..255
        BY ShellStatuses
      <4>2. QED
        BY <4>1 DEF TypeOK
    <3>2. Qualified'
      BY DEF TypeOK, Qualified, Sound, Parts
    <3>3. Shadowed'
      BY DEF Shadowed, Qualified, Selected, IsAncestor
    <3>4. Answered'
      BY DEF TypeOK, Qualified, Answered, ShellStatus
    <3>5. QED
      BY <3>1, <3>2, <3>3, <3>4
  <2>11. CASE Proof
    <3> USE <2>11 DEF Proof, Exit
    <3>1. TypeOK'
      <4>1. status' \in -1..255 /\ result' \in {0, FailCode, -Signal}
        BY ShellStatuses
      <4>2. QED
        BY <4>1 DEF TypeOK
    <3>2. Qualified'
      BY DEF TypeOK, Qualified, Sound, Parts
    <3>3. Shadowed'
      BY DEF Shadowed, Qualified, Selected, IsAncestor
    <3>4. Answered'
      BY DEF TypeOK, Qualified, Answered, ShellStatus
    <3>5. QED
      BY <3>1, <3>2, <3>3, <3>4
  <2>12. CASE Unstartable
    <3> USE <2>12 DEF Unstartable
    <3>1. TypeOK'
      BY DEF TypeOK
    <3>2. Qualified'
      BY DEF TypeOK, Qualified, Sound, Parts
    <3>3. Shadowed'
      BY DEF Shadowed, Qualified, Selected, IsAncestor
    <3>4. Answered'
      BY DEF TypeOK, Qualified, Answered, ShellStatus
    <3>5. QED
      BY <3>1, <3>2, <3>3, <3>4
  <2>13. CASE Interrupt
    <3> USE <2>13 DEF Interrupt
    <3>1. TypeOK'
      BY DEF TypeOK
    <3>2. Qualified'
      BY DEF TypeOK, Qualified, Sound, Parts
    <3>3. Shadowed'
      BY DEF Shadowed, Qualified, Selected, IsAncestor
    <3>4. Answered'
      BY DEF TypeOK, Qualified, Answered, ShellStatus
    <3>5. QED
      BY <3>1, <3>2, <3>3, <3>4
  <2>14. CASE Swap
    <3> USE <2>14 DEF Swap
    <3>1. TypeOK'
      BY DEF TypeOK
    <3>2. Qualified'
      BY DEF TypeOK, Qualified, Sound, Parts
    <3>3. Shadowed'
      BY DEF Shadowed, Qualified, Selected, IsAncestor
    <3>4. Answered'
      BY DEF TypeOK, Qualified, Answered, ShellStatus
    <3>5. QED
      BY <3>1, <3>2, <3>3, <3>4
  <2>15. CASE UNCHANGED vars
    <3> USE <2>15 DEF vars
    <3>1. TypeOK'
      BY DEF TypeOK
    <3>2. Qualified' /\ Shadowed' /\ Answered'
      BY DEF Qualified, Sound, Shadowed, Selected, IsAncestor, Answered
    <3>3. QED
      BY <3>1, <3>2
  <2>16. QED
    BY <2>1, <2>2, <2>3, <2>4, <2>5, <2>6, <2>7, <2>8,
       <2>9, <2>10, <2>11, <2>12, <2>13, <2>14, <2>15
    DEF Next
<1>3. QED
  BY <1>1, <1>2, PTL DEF Spec

\* Every variable keeps its type, the flags of the child among them, however many
\* the caller's environment holds.
THEOREM TypeCorrect == Spec => []TypeOK
<1>1. IInv => TypeOK
  BY DEF IInv
<1>2. QED
  BY <1>1, Invariance, PTL

\* A proof runs only with the measured parts, but for one that was replaced after
\* it was last looked at.
THEOREM OnlyQualifiedRuns == Spec => []ProofIsQualified
<1>1. IInv => ProofIsQualified
  BY DEF IInv, Qualified, Sound, ProofIsQualified
<1>2. QED
  BY <1>1, Invariance, PTL

\* No document of any number of directories reaches the proof: every backend it
\* selects is overridden and nothing it says routes the compiler.
THEOREM DocumentsShadowed == Spec => []ConfigIsShadowed
<1>1. IInv => ConfigIsShadowed
  BY DEF IInv, Shadowed, ConfigIsShadowed
<1>2. QED
  BY <1>1, Invariance, PTL

\* The command's status is the proof's, and zero for no other reason.
THEOREM StatusOfProof == Spec => []StatusIsProofs
<1>1. IInv => StatusIsProofs
  BY ExecAssumption DEF ExecAssumption, IInv, TypeOK, Answered, ShellStatus, StatusIsProofs
<1>2. QED
  BY <1>1, Invariance, PTL
================================================================================
