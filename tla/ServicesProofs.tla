--------------------------- MODULE ServicesProofs ---------------------------
(***************************************************************************)
(* Theorems about the services around a turn: session names, accounts,       *)
(* sub-agents, inline reasoning and the types of all of them, for any number  *)
(* of sessions, users, requests and models, any budgets and any texts.         *)
(***************************************************************************)
EXTENDS Services, ModelCallProofs, FiniteSetTheorems, WellFoundedInduction, TLAPS

(***************************************************************************)
(* Session names.  Two sessions that are being renamed at one time are both  *)
(* marked; so what a check found free is still free when it is used, unless    *)
(* the session is marked.                                                        *)
(***************************************************************************)
Names   == (Titles \cup {Placeholder}) \X (Nat \ {1})
Renames == [at : {"none", "check", "free", "update"}, to : Names, first : BOOLEAN]

NameTypes ==
  /\ name \in [Named -> Names]
  /\ asked \in [Named -> Renames] /\ auto \in [Named -> Renames]
  /\ titled \subseteq Named /\ renames \in 0 .. MaxRenames
  /\ titling \in [Named -> 0 .. MaxTitling]

RenamesMarked == \A s, t \in Renaming : s # t => s \in raced

FoundFree ==
  \A s \in Named \ raced :
    /\ asked[s].at = "update" => asked[s].to \notin Taken(s)
    /\ auto[s].at = "update" => auto[s].to \notin Taken(s)

NameInv == NameTypes /\ RenamesMarked /\ FoundFree /\ NamesApart

\* A set of numbers that is not empty has a least one.
LEMMA LeastNumber ==
  ASSUME NEW T, T \subseteq Nat, T # {}
  PROVE  \E x \in T : \A y \in T : x <= y
<1>1. PICK x \in T : \A y \in T : <<y, x>> \notin OpToRel(<, Nat)
  BY WFMin, NatLessThanWellFounded, Zenon
<1>2. ASSUME NEW y \in T PROVE x <= y
  <2>1. SUFFICES ASSUME y < x PROVE FALSE
    OBVIOUS
  <2>2. x \in Nat /\ y \in Nat
    OBVIOUS
  <2>3. <<y, x>> \in OpToRel(<, Nat)
    BY <2>1, <2>2 DEF OpToRel
  <2> QED
    BY <1>1, <2>3
<1> QED
  BY <1>2

\* The search for a free name ends ("X", "X-2", "X-3", ...): there are more candidates than
\* sessions; and it finds the first one that is free.
THEOREM FreeNameFound ==
  ASSUME name \in [Named -> Names], NEW s \in Named, NEW title \in Titles \cup {Placeholder}
  PROVE  /\ FreeName(title, s) \in Names /\ FreeName(title, s) \notin Taken(s)
         /\ FreeName(title, s)[1] = title
         /\ \A k \in 2 .. FreeName(title, s)[2] - 1 : <<title, k>> \in Taken(s)
<1> DEFINE N == Cardinality(Named)
           K == {k \in 2 .. N + 2 : <<title, k>> \notin Taken(s)}
<1>1. N \in Nat
  BY NamesAssumption, FS_CardinalityType
<1>2. K # {}
  <2>1. SUFFICES ASSUME K = {} PROVE FALSE
    OBVIOUS
  <2> DEFINE A == {t \in Named : name[t][2] \in 2 .. N + 2}
             f == [t \in A |-> name[t][2]]
  <2>2. IsFiniteSet(A) /\ Cardinality(A) <= N
    BY NamesAssumption, FS_Subset
  <2>3. \A k \in 2 .. N + 2 : \E t \in A : f[t] = k
    <3>1. ASSUME NEW k \in 2 .. N + 2 PROVE \E t \in A : f[t] = k
      <4>1. <<title, k>> \in Taken(s)
        BY <2>1
      <4>2. PICK t \in Named : name[t] = <<title, k>>
        BY <4>1 DEF Taken
      <4> QED
        BY <4>2
    <3> QED
      BY <3>1
  <2>4. f \in Surjection(A, 2 .. N + 2)
    BY <2>3 DEF Surjection
  <2>5. Cardinality(2 .. N + 2) <= Cardinality(A)
    BY <2>2, <2>4, FS_Surjection
  <2>6. Cardinality(2 .. N + 2) = N + 1 /\ Cardinality(A) \in Nat
    BY <1>1, <2>2, FS_Interval, FS_CardinalityType
  <2> QED
    BY <1>1, <2>2, <2>5, <2>6
<1>3. PICK x \in K : \A y \in K : x <= y
  <2>1. K \subseteq Nat
    BY <1>1
  <2> QED
    BY <1>2, <2>1, LeastNumber
<1>4. CASE <<title, 0>> \notin Taken(s)
  BY <1>4 DEF FreeName, Names
<1>5. CASE <<title, 0>> \in Taken(s)
  <2> DEFINE C == {<<title, k>> : k \in 2 .. N + 2}
             Q(n) == n \notin Taken(s) /\ \A k \in 2 .. n[2] - 1 : <<title, k>> \in Taken(s)
  <2>1. <<title, x>> \in C /\ Q(<<title, x>>)
    <3>1. ASSUME NEW k \in 2 .. x - 1 PROVE <<title, k>> \in Taken(s)
      <4>1. k \in 2 .. N + 2 /\ ~(x <= k)
        BY <1>1
      <4> QED
        BY <1>3, <4>1
    <3> QED
      BY <3>1
  <2>2. FreeName(title, s) = CHOOSE n \in C : Q(n)
    BY <1>5 DEF FreeName
  <2>3. FreeName(title, s) \in C /\ Q(FreeName(title, s))
    BY <2>1, <2>2
  <2>4. PICK k \in 2 .. N + 2 : FreeName(title, s) = <<title, k>>
    BY <2>3
  <2> QED
    BY <1>1, <2>3, <2>4 DEF Names
<1> QED
  BY <1>4, <1>5

LEMMA NamesInitially == NameInit => NameInv
<1> SUFFICES ASSUME NameInit PROVE NameInv
  OBVIOUS
<1>1. NameTypes
  <2>1. <<Placeholder, 0>> \in Names /\ \A title \in Titles : <<title, 0>> \in Names
    BY DEF Names
  <2>2. NoRename \in Renames
    BY <2>1 DEF NoRename, Renames
  <2>3. name \in [Named -> Names]
    BY <2>1 DEF NameInit
  <2> QED
    BY <2>2, <2>3, NamesAssumption DEF NameInit, NameTypes
<1>2. Renaming = {}
  BY DEF NameInit, Renaming, NoRename
<1>3. FoundFree
  BY DEF NameInit, FoundFree, NoRename
<1>4. NamesApart
  BY DEF NameInit, NamesApart
<1> QED
  BY <1>1, <1>2, <1>3, <1>4 DEF NameInv, RenamesMarked

\* Beginning to rename marks whoever is being renamed at the same time.
LEMMA BeginMarks ==
  ASSUME RenamesMarked, FoundFree, NamesApart, NEW s \in Named, Races(s),
         Renaming' \subseteq Renaming \cup {s}, UNCHANGED name,
         \A t \in Named : asked'[t].at = "update" => asked'[t] = asked[t],
         \A t \in Named : auto'[t].at = "update" => auto'[t] = auto[t]
  PROVE  RenamesMarked' /\ FoundFree' /\ NamesApart'
<1>1. raced \subseteq raced'
  BY DEF Races
<1>2. RenamesMarked'
  <2>1. CASE Renaming \subseteq {s}
    BY <2>1 DEF RenamesMarked
  <2>2. CASE ~ (Renaming \subseteq {s})
    BY <2>2 DEF RenamesMarked, Races
  <2> QED
    BY <2>1, <2>2
<1>3. FoundFree'
  BY <1>1 DEF FoundFree, Taken
<1>4. NamesApart'
  BY <1>1 DEF NamesApart
<1> QED
  BY <1>2, <1>3, <1>4

\* A step of a rename under way that changes no name: what it finds free is free.
LEMMA GoesOn ==
  ASSUME RenamesMarked, FoundFree, NamesApart, Renaming' \subseteq Renaming,
         UNCHANGED <<name, raced>>,
         \A t \in Named : asked'[t].at = "update" =>
           asked'[t] = asked[t] \/ asked'[t].to \notin Taken(t),
         \A t \in Named : auto'[t].at = "update" =>
           auto'[t] = auto[t] \/ auto'[t].to \notin Taken(t)
  PROVE  RenamesMarked' /\ FoundFree' /\ NamesApart'
<1>1. RenamesMarked' /\ NamesApart'
  BY DEF RenamesMarked, NamesApart
<1>2. \A t \in Named : Taken(t)' = Taken(t)
  BY DEF Taken
<1>3. FoundFree'
  BY <1>2 DEF FoundFree
<1> QED
  BY <1>1, <1>3

\* A name is written: it was free when it was checked, and nobody else has been renamed
\* since, or the session is marked.
LEMMA NameWritten ==
  ASSUME NameTypes, RenamesMarked, FoundFree, NamesApart,
         NEW s \in Named, s \in Renaming, NEW new \in Names,
         s \in raced \/ new \notin Taken(s),
         name' = [name EXCEPT ![s] = new], Renaming' \subseteq Renaming, UNCHANGED raced,
         \A t \in Named : asked'[t].at = "update" => asked'[t] = asked[t],
         \A t \in Named : auto'[t].at = "update" => auto'[t] = auto[t]
  PROVE  RenamesMarked' /\ FoundFree' /\ NamesApart'
<1>1. RenamesMarked'
  BY DEF RenamesMarked
<1>2. name'[s] = new /\ \A t \in Named : t # s => name'[t] = name[t]
  BY DEF NameTypes
<1>3. NamesApart'
  <2>1. ASSUME NEW t \in Named, t # s, name'[t] = new PROVE s \in raced
    <3>1. name[t] \in Taken(s)
      BY <2>1 DEF Taken
    <3> QED
      BY <1>2, <2>1, <3>1
  <2> QED
    BY <1>2, <2>1 DEF NamesApart
<1>4. FoundFree'
  <2>1. Taken(s)' = Taken(s)
    BY <1>2 DEF Taken
  <2>2. ASSUME NEW t \in Named \ raced, t # s
        PROVE  asked'[t].at # "update" /\ auto'[t].at # "update"
    <3>1. t \notin Renaming
      BY <2>2 DEF RenamesMarked
    <3> QED
      BY <2>2, <3>1 DEF Renaming
  <2> QED
    BY <2>1, <2>2 DEF FoundFree
<1> QED
  BY <1>1, <1>3, <1>4

LEMMA NameTypesKept == NameTypes /\ [NameNext]_nameVars => NameTypes'
<1>1. NoRename \in Renames /\ \A title \in Titles : <<title, 0>> \in Names
  BY DEF NoRename, Renames, Names
<1>2. ASSUME NameTypes, NEW s \in Named PROVE
        /\ name[s] \in Names /\ asked[s] \in Renames /\ auto[s] \in Renames
        /\ FreeName(asked[s].to[1], s) \in Names /\ FreeName(auto[s].to[1], s) \in Names
        /\ Check(asked, s) \in {"none", "update", "free"}
        /\ Check(auto, s) \in {"none", "update", "free"}
  <2>1. name[s] \in Names /\ asked[s] \in Renames /\ auto[s] \in Renames
    BY <1>2 DEF NameTypes
  <2>2. asked[s].to[1] \in Titles \cup {Placeholder} /\ auto[s].to[1] \in Titles \cup {Placeholder}
    BY <2>1 DEF Renames, Names
  <2>3. FreeName(asked[s].to[1], s) \in Names /\ FreeName(auto[s].to[1], s) \in Names
    BY <1>2, <2>2, FreeNameFound DEF NameTypes
  <2> QED
    BY <2>1, <2>3 DEF Check
<1> SUFFICES ASSUME NameTypes, [NameNext]_nameVars PROVE NameTypes'
  OBVIOUS
<1>3. CASE UNCHANGED nameVars
  BY <1>3 DEF nameVars, NameTypes
<1>4. ASSUME NEW s \in Named,
             AskRename(s) \/ CheckRename(s) \/ FindFree(s) \/ UpdateName(s)
      PROVE  NameTypes'
  <2>1. CASE AskRename(s)
    <3>1. PICK title \in Titles :
            asked' = [asked EXCEPT ![s] = [at |-> "check", to |-> <<title, 0>>, first |-> TRUE]]
      BY <2>1 DEF AskRename
    <3>2. [at |-> "check", to |-> <<title, 0>>, first |-> TRUE] \in Renames
      BY <1>1, <3>1 DEF Renames
    <3>3. renames' \in 0 .. MaxRenames
      BY <2>1, NamesAssumption DEF AskRename, NameTypes
    <3> QED
      BY <2>1, <3>1, <3>2, <3>3 DEF AskRename, NameTypes
  <2>2. CASE CheckRename(s)
    <3>1. [asked[s] EXCEPT !.at = Check(asked, s)] \in Renames
      BY <1>2 DEF Renames
    <3> QED
      BY <2>2, <3>1 DEF CheckRename, NameTypes
  <2>3. CASE FindFree(s)
    <3>1. [at |-> "check", to |-> FreeName(asked[s].to[1], s), first |-> FALSE] \in Renames
      BY <1>2 DEF Renames
    <3> QED
      BY <2>3, <3>1 DEF FindFree, NameTypes
  <2>4. CASE UpdateName(s)
    <3>1. asked[s].to \in Names
      BY <1>2 DEF Renames
    <3> QED
      BY <2>4, <3>1, <1>1 DEF UpdateName, NameTypes
  <2> QED
    BY <1>4, <2>1, <2>2, <2>3, <2>4
<1>5. ASSUME NEW s \in Named,
             AskTitle(s) \/ GetTitle(s) \/ FindFreeTitle(s) \/ CheckTitle(s) \/ UpdateTitle(s)
      PROVE  NameTypes'
  <2>1. CASE AskTitle(s)
    <3>1. titling' \in [Named -> 0 .. MaxTitling]
      BY <2>1, NamesAssumption DEF AskTitle, NameTypes
    <3>2. UNCHANGED <<name, asked, auto, titled, own, raced, renames>>
      BY <2>1 DEF AskTitle
    <3> QED
      BY <3>1, <3>2 DEF NameTypes
  <2>2. CASE GetTitle(s)
    <3>1. PICK title \in Suggestions :
            \/ title = NoTitle /\ auto' = auto
            \/ title # NoTitle
               /\ auto' = [auto EXCEPT ![s] = [at |-> "free", to |-> <<title, 0>>, first |-> FALSE]]
      BY <2>2 DEF GetTitle
    <3>2. title # NoTitle => [at |-> "free", to |-> <<title, 0>>, first |-> FALSE] \in Renames
      BY <1>1, <3>1 DEF Renames, Suggestions
    <3>3. auto' \in [Named -> Renames]
      BY <3>1, <3>2 DEF NameTypes
    <3>4. titling' \in [Named -> 0 .. MaxTitling]
      BY <2>2, NamesAssumption DEF GetTitle, NameTypes
    <3>5. UNCHANGED <<name, asked, titled, renames>>
      BY <2>2 DEF GetTitle
    <3> QED
      BY <3>3, <3>4, <3>5 DEF NameTypes
  <2>3. CASE FindFreeTitle(s)
    <3>1. [auto[s] EXCEPT !.at = "check", !.to = FreeName(auto[s].to[1], s)] \in Renames
      BY <1>2 DEF Renames
    <3> QED
      BY <2>3, <3>1 DEF FindFreeTitle, NameTypes
  <2>4. CASE CheckTitle(s)
    <3>1. [auto[s] EXCEPT !.at = Check(auto, s)] \in Renames
      BY <1>2 DEF Renames
    <3> QED
      BY <2>4, <3>1 DEF CheckTitle, NameTypes
  <2>5. CASE UpdateTitle(s)
    <3>1. auto[s].to \in Names
      BY <1>2 DEF Renames
    <3> QED
      BY <2>5, <3>1, <1>1 DEF UpdateTitle, NameTypes
  <2> QED
    BY <1>5, <2>1, <2>2, <2>3, <2>4, <2>5
<1> QED
  BY <1>3, <1>4, <1>5 DEF NameNext

\* The invariant of session names.
THEOREM NameInvariant == NameSpec => []NameInv
<1>1. ASSUME NameInv, [NameNext]_nameVars
      PROVE  NameInv'
  <2>a. NameTypes /\ RenamesMarked /\ FoundFree /\ NamesApart
    BY <1>1 DEF NameInv
  <2>b. NameTypes'
    BY <1>1, <2>a, NameTypesKept
  <2>c. /\ asked \in [Named -> Renames] /\ auto \in [Named -> Renames]
        /\ \A s \in Named : asked[s] \in Renames /\ auto[s] \in Renames
    BY <2>a DEF NameTypes
  <2>1. ASSUME NEW s \in Named, AskRename(s) PROVE NameInv'
    <3>1. \A t \in Named : t # s => asked'[t] = asked[t]
      BY <2>1, <2>c DEF AskRename
    <3>2. asked'[s].at = "check"
      BY <2>1, <2>c DEF AskRename
    <3>3. Renaming' \subseteq Renaming \cup {s}
      BY <2>1, <3>1 DEF AskRename, Renaming
    <3> QED
      BY <2>a, <2>b, <2>1, <3>1, <3>2, <3>3, BeginMarks DEF AskRename, NameInv
  <2>2. ASSUME NEW s \in Named, CheckRename(s) \/ FindFree(s) PROVE NameInv'
    <3>1. /\ \A t \in Named : t # s => asked'[t] = asked[t]
          /\ UNCHANGED <<name, auto, raced>> /\ s \in Renaming
      BY <2>2, <2>c DEF CheckRename, FindFree, Renaming
    <3>2. asked'[s].at = "update" => asked'[s].to \notin Taken(s)
      <4>1. CASE CheckRename(s)
        <5>1. asked'[s].at = Check(asked, s) /\ asked'[s].to = asked[s].to
          BY <2>c, <4>1 DEF CheckRename, Renames
        <5> QED
          BY <5>1 DEF Check
      <4>2. CASE FindFree(s)
        BY <2>c, <4>2 DEF FindFree
      <4> QED
        BY <2>2, <4>1, <4>2
    <3>3. Renaming' \subseteq Renaming
      BY <3>1 DEF Renaming
    <3> QED
      BY <2>a, <2>b, <3>1, <3>2, <3>3, GoesOn DEF NameInv
  <2>3. ASSUME NEW s \in Named, UpdateName(s) PROVE NameInv'
    <3>1. asked[s].to \in Names /\ s \in Renaming
      BY <2>3, <2>c DEF UpdateName, Renaming, Renames
    <3>2. s \in raced \/ asked[s].to \notin Taken(s)
      BY <2>a, <2>3 DEF UpdateName, FoundFree
    <3>3. asked'[s] = NoRename /\ \A t \in Named : t # s => asked'[t] = asked[t]
      BY <2>3, <2>c DEF UpdateName
    <3>4. Renaming' \subseteq Renaming
      BY <2>3, <3>1, <3>3 DEF UpdateName, Renaming
    <3>5. name' = [name EXCEPT ![s] = asked[s].to] /\ UNCHANGED <<raced, auto>>
      BY <2>3 DEF UpdateName
    <3>6. \A t \in Named : asked'[t].at = "update" => asked'[t] = asked[t]
      BY <3>3 DEF NoRename
    <3>7. RenamesMarked' /\ FoundFree' /\ NamesApart'
      BY <2>a, <3>1, <3>2, <3>4, <3>5, <3>6, NameWritten
    <3> QED
      BY <2>b, <3>7 DEF NameInv
  <2>4. ASSUME NEW s \in Named, AskTitle(s) PROVE NameInv'
    <3>1. UNCHANGED <<name, asked, auto, raced>>
      BY <2>4 DEF AskTitle
    <3>2. Renaming' \subseteq Renaming
      BY <3>1 DEF Renaming
    <3> QED
      BY <2>a, <2>b, <3>1, <3>2, GoesOn DEF NameInv
  <2>5. ASSUME NEW s \in Named, GetTitle(s) PROVE NameInv'
    <3>1. auto'[s].at \in {"none", "free"} /\ \A t \in Named : t # s => auto'[t] = auto[t]
      BY <2>5, <2>c DEF GetTitle, LoopFree
    <3>2. CASE Races(s)
      <4>1. Renaming' \subseteq Renaming \cup {s}
        BY <2>5, <3>1 DEF GetTitle, Renaming
      <4> QED
        BY <2>a, <2>b, <2>5, <3>1, <3>2, <4>1, BeginMarks DEF GetTitle, NameInv
    <3>3. CASE UNCHANGED <<auto, raced>>
      <4>1. Renaming' \subseteq Renaming
        BY <2>5, <3>3 DEF GetTitle, Renaming
      <4> QED
        BY <2>a, <2>b, <2>5, <3>1, <3>3, <4>1, GoesOn DEF GetTitle, NameInv
    <3> QED
      BY <2>5, <3>2, <3>3 DEF GetTitle
  <2>6. ASSUME NEW s \in Named, FindFreeTitle(s) \/ CheckTitle(s) PROVE NameInv'
    <3>1. /\ \A t \in Named : t # s => auto'[t] = auto[t]
          /\ UNCHANGED <<name, asked, raced>> /\ s \in Renaming
      BY <2>6, <2>c DEF FindFreeTitle, CheckTitle, Renaming
    <3>2. auto'[s].at = "update" => auto'[s].to \notin Taken(s)
      <4>1. CASE CheckTitle(s)
        <5>1. auto'[s].at = Check(auto, s) /\ auto'[s].to = auto[s].to
          BY <2>c, <4>1 DEF CheckTitle, Renames
        <5> QED
          BY <5>1 DEF Check
      <4>2. CASE FindFreeTitle(s)
        BY <2>c, <4>2 DEF FindFreeTitle, Renames
      <4> QED
        BY <2>6, <4>1, <4>2
    <3>3. Renaming' \subseteq Renaming
      BY <3>1 DEF Renaming
    <3> QED
      BY <2>a, <2>b, <3>1, <3>2, <3>3, GoesOn DEF NameInv
  <2>7. ASSUME NEW s \in Named, UpdateTitle(s) PROVE NameInv'
    <3>1. auto[s].to \in Names /\ s \in Renaming
      BY <2>7, <2>c DEF UpdateTitle, Renaming, Renames
    <3>2. s \in raced \/ auto[s].to \notin Taken(s)
      BY <2>a, <2>7 DEF UpdateTitle, FoundFree
    <3>3. auto'[s] = NoRename /\ \A t \in Named : t # s => auto'[t] = auto[t]
      BY <2>7, <2>c DEF UpdateTitle
    <3>4. Renaming' \subseteq Renaming
      BY <2>7, <3>1, <3>3 DEF UpdateTitle, Renaming
    <3>5. name' = [name EXCEPT ![s] = auto[s].to] /\ UNCHANGED <<raced, asked>>
      BY <2>7 DEF UpdateTitle
    <3>6. \A t \in Named : auto'[t].at = "update" => auto'[t] = auto[t]
      BY <3>3 DEF NoRename
    <3>7. RenamesMarked' /\ FoundFree' /\ NamesApart'
      BY <2>a, <3>1, <3>2, <3>4, <3>5, <3>6, NameWritten
    <3> QED
      BY <2>b, <3>7 DEF NameInv
  <2>8. CASE UNCHANGED nameVars
    BY <2>a, <2>b, <2>8 DEF nameVars, NameInv, RenamesMarked, Renaming, FoundFree, Taken, NamesApart
  <2> QED
    BY <1>1, <2>1, <2>2, <2>3, <2>4, <2>5, <2>6, <2>7, <2>8 DEF NameNext
<1> QED
  BY <1>1, NamesInitially, PTL DEF NameSpec

\* Sessions of a project have different names, unless they were created alike or one was
\* renamed while the other was.
THEOREM NamesApartHolds == NameSpec => []NamesApart
<1>1. NameInv => NamesApart
  BY DEF NameInv
<1> QED
  BY <1>1, NameInvariant, PTL

\* The types of names and renames; no suffix is "-1".
THEOREM NameTypesHold == NameSpec => []NameTypeOK
<1>1. NameInv => NameTypeOK
  BY DEF NameInv, NameTypes, NameTypeOK, Names
<1> QED
  BY <1>1, NameInvariant, PTL

(***************************************************************************)
(* Accounts.  A request that was never marked as overlapping has been alone   *)
(* since it came in; what it read is then still so when it writes.              *)
(***************************************************************************)
Users  == [id : Nat, pw : Nat]
Tokens == [id : Nat, pw : Nat, key : Nat, by : Nat]
CallSteps  == {"none", "done", "gate", "insert", "verify", "secret", "truncate", "write", "store",
           "authenticate", "projects", "project", "row", "folder", "password", "purge", "revoke",
           "cascade"}
Ops    == {"none", "signup", "login", "default", "session", "reset", "delete"}
Calls  == [op : Ops, at : CallSteps, email : Emails, id : Nat, pw : Nat, key : Nat, of : Nat,
           raced : BOOLEAN]

AccountTypes ==
  /\ secret \in Nat /\ forged \in BOOLEAN /\ calls \in Nat \ {0}
  /\ user \in [Emails -> Users] /\ tokens \subseteq Tokens
  /\ \A p \in projects : p.id \in Ids
  /\ \A s \in sessions : s.id \in Ids
  /\ folders \subseteq Ids
  /\ call \in [Ids -> Calls]

\* Which request comes to which step, and what it brings.
Entering == {"signup", "login"}
Guarded  == {"default", "session", "reset", "delete"}

CallInv(i) ==
  /\ i > calls \/ i = 1 => call[i] = NoCall
  /\ call[i].at = "none" => call[i].op = "none"
  /\ At(i, "gate") => call[i].op = "signup"
  /\ At(i, "insert") => call[i].op = "signup" \/ (call[i].op = "login" /\ call[i].email = Root)
  /\ At(i, "verify") => call[i].op \in Entering
  /\ call[i].at \in {"secret", "truncate", "write"} =>
       (call[i].op \in Entering /\ call[i].pw # 0) \/ (call[i].op \in Guarded /\ call[i].pw = 0)
  /\ At(i, "store") => call[i].op \in Entering /\ call[i].pw # 0 /\ call[i].key # 0
  /\ At(i, "authenticate") => call[i].op \in Guarded
  /\ call[i].at \in {"projects", "project"} => call[i].op \in {"signup", "default"}
  /\ call[i].at \in {"row", "folder"} => call[i].op = "session"
  /\ At(i, "password") => call[i].op = "reset"
  /\ At(i, "revoke") => call[i].op \in {"reset", "delete"}
  /\ call[i].at \in {"purge", "cascade"} => call[i].op = "delete"

CallsInv == \A i \in Ids : CallInv(i)

OverlapsMarked == \A i, j \in Open : i # j => call[i].raced

\* While no secret was forged, all tokens, handed out or about to be, are signed with the
\* one in the file, and who writes it is alone and finds none.
SecretInv ==
  /\ \A t \in tokens : t.key # 0 /\ (t.key = secret \/ forged)
  /\ ~forged =>
       /\ \A i \in Ids : At(i, "store") => call[i].key = secret
       /\ \A i \in Ids : At(i, "write") => secret = 0 /\ \A j \in Ids \ {i} : ~At(j, "write")

\* Request x may have made user x.
Born(x) ==
  \/ x = 1
  \/ /\ x \in Ids /\ call[x].at \notin {"none", "gate", "insert"}
     /\ ~(At(x, "verify") /\ call[x].op = "login")

\* Ids of users are never given out twice.
UserInv ==
  /\ \A e \in Emails : IF user[e].id = 0 THEN user[e] = NoUser
                       ELSE user[e].pw # 0 /\ Born(user[e].id)
  /\ \A e, f \in Emails : e # f /\ user[e].id = user[f].id => user[e].id = 0
  /\ \A i \in Ids : call[i].id # 0 => Born(call[i].id)

\* Only root's e-mail has a row of that role, and only who logs in with it works with one.
RootInv ==
  /\ \A e \in Emails : IsRoot(user[e].id) => e = Root
  /\ \A i \in Ids : IsRoot(call[i].id) => call[i].email = Root

\* Rows point at rows that are there.
RowsKnown ==
  /\ \A t \in tokens : Known(t.id)
  /\ \A p \in projects : Known(p.owner)
  /\ \A s \in sessions : Known(s.by) /\ \E p \in projects : p.id = s.project

Resets(j, id) == call[j].op = "reset" /\ call[j].of = id

\* Request j has checked a password and is about to hand out a token for it.
Holding(j) == call[j].at \in {"secret", "truncate", "write", "store"} /\ call[j].pw # 0

\* The password of the row that request i makes.
FirstPassword(i) == IF call[i].op = "login" THEN Environ ELSE i

\* Whoever has row u at e-mail e may log in with this password.
LogsIn(e, u, pw) == pw = u.pw \/ (e = Root /\ pw = Environ)

\* Who holds an old password, or a token issued for one, has been overtaken by a reset
\* that ran beside somebody, or that has yet to revoke the token.
PasswordInv ==
  /\ \A i \in Ids : Holding(i) => call[i].id # 0
  /\ \A t \in tokens, e \in Emails : user[e].id = t.id =>
       LogsIn(e, user[e], t.pw)
         \/ \E j \in Ids : Resets(j, t.id) /\ (call[j].raced \/ At(j, "revoke"))
  /\ \A i \in Ids, e \in Emails : Holding(i) /\ user[e].id = call[i].id =>
       LogsIn(e, user[e], call[i].pw) \/ \E j \in Ids : Resets(j, call[i].id) /\ call[j].raced

\* Who is about to make a default project has found none, and any made meanwhile is marked.
ProjectInv ==
  /\ \A p, q \in projects : p # q => p.id # q.id
  /\ \A p \in projects :
       \/ At(p.id, "done")
       \/ /\ call[p.id].op = "signup"
          /\ call[p.id].at \in {"verify", "secret", "truncate", "write", "store"}
  /\ \A i \in Ids : At(i, "project") =>
       \A q \in projects : q.owner = call[i].id => call[i].raced /\ call[q.id].raced
  /\ \A p, q \in projects : p.owner = q.owner /\ p # q => call[p.id].raced /\ call[q.id].raced

Deletes(j, id) == call[j].op = "delete" /\ call[j].at \in {"revoke", "cascade"} /\ call[j].of = id

\* Rows and directories of sessions, while the one is made after the other, and taken away
\* before it.
SessionInv ==
  /\ \A s, r \in sessions : s # r => s.id # r.id
  /\ \A s \in sessions : At(s.id, "folder") \/ (At(s.id, "done") /\ call[s.id].op = "session")
  /\ \A s \in sessions, p \in projects :
       p.id = s.project => call[s.id].email = Root \/ p.owner = s.by
  /\ \A f \in folders : At(f, "done") /\ call[f].op = "session"
  /\ \A s \in sessions : s.id \in folders \/ At(s.id, "folder") \/ \E j \in Ids : Deletes(j, s.by)
  /\ \A j \in Ids, s \in sessions :
       Deletes(j, s.by) => s.id \notin folders \/ s.id \in kept \/ call[s.id].raced
  /\ \A i \in Ids : At(i, "folder") => call[i].raced \/ \E s \in sessions : s.id = i
  /\ \A f \in folders :
       (\E s \in sessions : s.id = f) \/ call[f].email = Root \/ call[f].raced \/ f \in kept

AccountInv ==
  /\ AccountTypes /\ CallsInv /\ OverlapsMarked
  /\ SecretInv /\ UserInv /\ RootInv /\ RowsKnown /\ PasswordInv /\ ProjectInv /\ SessionInv

-----------------------------------------------------------------------------
\* A request under way takes a step of its own.
Moves(i) ==
  /\ i \in Open /\ UNCHANGED calls
  /\ call' = [call EXCEPT ![i] = call'[i]] /\ call'[i] \in Calls /\ call'[i].at # "none"
  /\ call'[i].op = call[i].op /\ call'[i].email = call[i].email
  /\ call'[i].of = call[i].of /\ call'[i].raced = call[i].raced

LEMMA GoesMoves ==
  ASSUME AccountTypes, NEW i \in Open, NEW step \in CallSteps \ {"none"}, Goes(i, step), UNCHANGED calls
  PROVE  /\ Moves(i) /\ call'[i].at = step
         /\ step # "done" => call'[i] = [call[i] EXCEPT !.at = step]
         /\ step = "done" => call'[i].id = 0
BY DEF AccountTypes, Goes, Moves, Open, Calls

\* What each request's step makes of its record.
LEMMA EnteringMoves ==
  ASSUME AccountTypes, NEW i \in Ids,
         Gate(i) \/ Insert(i) \/ Verify(i)
  PROVE  /\ Moves(i)
         /\ call'[i].at \in {"insert", "secret", "projects", "done"}
         /\ Gate(i) => /\ call'[i].at \in {"insert", "done"}
                       /\ call'[i].at # "done" => call'[i].id = call[i].id
         /\ call'[i].at \in {"secret", "projects"} =>
              \/ /\ Insert(i) /\ call'[i].id = i /\ call'[i].pw = FirstPassword(i)
                 /\ call'[i].at = "secret" <=> call[i].op = "login"
              \/ /\ Verify(i) /\ call'[i].id = user[call[i].email].id
                 /\ LogsIn(call[i].email, user[call[i].email], call'[i].pw)
                 /\ user[call[i].email] # NoUser /\ call'[i].at = "secret"
         /\ call'[i].at = "insert" =>
              /\ call'[i].id = call[i].id
              /\ Gate(i) \/ (Verify(i) /\ call[i].email = Root /\ call[i].op = "login")
         /\ call'[i].at = "done" => call'[i].id = 0
<1>a. /\ call[i] \in Calls /\ i \in Nat /\ user[call[i].email] \in Users
      /\ FirstPassword(i) \in Nat /\ Environ \in Nat
  BY AccountsAssumption DEF AccountTypes, Calls, Ids, FirstPassword, Environ
<1>1. CASE Gate(i)
  <2>1. i \in Open /\ UNCHANGED calls
    BY <1>1 DEF Gate, At, Open
  <2>2. Goes(i, "insert") \/ Goes(i, "done")
    BY <1>1 DEF Gate, Answered
  <2>3. (Moves(i) /\ call'[i].at = "insert" /\ call'[i] = [call[i] EXCEPT !.at = "insert"])
        \/ (Moves(i) /\ call'[i].at = "done" /\ call'[i].id = 0)
    BY <2>1, <2>2, GoesMoves DEF CallSteps
  <2> QED
    BY <1>a, <1>1, <2>3 DEF Calls
<1>2. CASE Insert(i)
  <2>1. i \in Open /\ UNCHANGED calls /\ ~Gate(i)
    BY <1>2 DEF Insert, Gate, At, Open
  <2>2. CASE Goes(i, "done")
    <3>1. Moves(i) /\ call'[i].at = "done" /\ call'[i].id = 0
      BY <2>1, <2>2, GoesMoves DEF CallSteps
    <3> QED
      BY <2>1, <3>1
  <2>3. CASE call' = [call EXCEPT ![i].at = IF call[i].op = "login" THEN "secret" ELSE "projects",
                                  ![i].id = i, ![i].pw = FirstPassword(i)]
    <3>1. call'[i] = [call[i] EXCEPT !.at = IF call[i].op = "login" THEN "secret" ELSE "projects",
                                     !.id = i, !.pw = FirstPassword(i)]
      BY <2>3 DEF AccountTypes
    <3>2. call'[i] \in Calls /\ call' = [call EXCEPT ![i] = call'[i]]
      BY <1>a, <2>3, <3>1 DEF Calls, CallSteps, AccountTypes
    <3> QED
      BY <1>a, <1>2, <2>1, <3>1, <3>2 DEF Moves, Calls
  <2> QED
    BY <1>2, <2>2, <2>3 DEF Insert, Answered, FirstPassword
<1>3. CASE Verify(i)
  <2>1. i \in Open /\ UNCHANGED calls /\ ~Gate(i)
    BY <1>3 DEF Verify, Gate, At, Open
  <2>2. ASSUME NEW pw \in Nat, LogsIn(call[i].email, user[call[i].email], pw),
               user[call[i].email] # NoUser,
               call' = [call EXCEPT ![i].at = "secret", ![i].id = user[call[i].email].id, ![i].pw = pw]
        PROVE  /\ Moves(i) /\ call'[i].at = "secret" /\ call'[i].id = user[call[i].email].id
               /\ LogsIn(call[i].email, user[call[i].email], call'[i].pw)
    <3>1. call'[i] = [call[i] EXCEPT !.at = "secret", !.id = user[call[i].email].id, !.pw = pw]
      BY <2>2 DEF AccountTypes
    <3>2. call'[i] \in Calls /\ call' = [call EXCEPT ![i] = call'[i]]
      BY <1>a, <2>2, <3>1 DEF Calls, CallSteps, AccountTypes, Users
    <3>3. call'[i].at = "secret" /\ call'[i].id = user[call[i].email].id /\ call'[i].pw = pw
      BY <1>a, <3>1 DEF Calls
    <3>4. Moves(i)
      BY <1>a, <2>1, <3>1, <3>2, <3>3 DEF Moves, Calls
    <3> QED
      BY <2>2, <3>3, <3>4
  <2>3. CASE call[i].email = Root /\ call[i].op = "login" /\ Goes(i, "insert")
    <3>1. Moves(i) /\ call'[i].at = "insert" /\ call'[i] = [call[i] EXCEPT !.at = "insert"]
      BY <2>1, <2>3, GoesMoves DEF CallSteps
    <3> QED
      BY <1>a, <1>3, <2>1, <2>3, <3>1 DEF Calls
  <2>4. CASE Goes(i, "done")
    <3>1. Moves(i) /\ call'[i].at = "done" /\ call'[i].id = 0
      BY <2>1, <2>4, GoesMoves DEF CallSteps
    <3> QED
      BY <2>1, <3>1
  <2>5. \/ \E pw \in {user[call[i].email].pw, Environ} :
             /\ LogsIn(call[i].email, user[call[i].email], pw) /\ user[call[i].email] # NoUser
             /\ call' = [call EXCEPT ![i].at = "secret", ![i].id = user[call[i].email].id, ![i].pw = pw]
        \/ call[i].email = Root /\ call[i].op = "login" /\ Goes(i, "insert")
        \/ Goes(i, "done")
    BY <1>3 DEF Verify, Answered, LogsIn
  <2>6. {user[call[i].email].pw, Environ} \subseteq Nat
    BY <1>a DEF Users
  <2>7. CASE \E pw \in {user[call[i].email].pw, Environ} :
             /\ LogsIn(call[i].email, user[call[i].email], pw) /\ user[call[i].email] # NoUser
             /\ call' = [call EXCEPT ![i].at = "secret", ![i].id = user[call[i].email].id, ![i].pw = pw]
    BY <1>3, <2>1, <2>2, <2>6, <2>7
  <2> QED
    BY <2>3, <2>4, <2>5, <2>7
<1> QED
  BY <1>1, <1>2, <1>3

LEMMA SecretMoves ==
  ASSUME AccountTypes, NEW i \in Ids,
         LoadSecret(i) \/ TruncateSecret(i) \/ WriteSecret(i) \/ StoreToken(i)
  PROVE  /\ Moves(i)
         /\ StoreToken(i) => call'[i].at = "done" /\ call'[i].id = 0
         /\ TruncateSecret(i) => call'[i].at = "write"
         /\ LoadSecret(i) =>
              IF secret = 0 THEN call'[i].at = "truncate"
              ELSE /\ call'[i].key = secret
                   /\ call'[i].at = IF call[i].pw # 0 THEN "store" ELSE "authenticate"
         /\ WriteSecret(i) =>
              /\ call'[i].key = i /\ call'[i].at = IF call[i].pw # 0 THEN "store" ELSE "authenticate"
         /\ ~StoreToken(i) => call'[i].id = call[i].id /\ call'[i].pw = call[i].pw
<1>a. call[i] \in Calls /\ i \in Nat /\ secret \in Nat
  BY AccountsAssumption DEF AccountTypes, Ids
<1>b. i \in Open /\ UNCHANGED calls
  BY DEF LoadSecret, TruncateSecret, WriteSecret, StoreToken, At, Open
<1>c. /\ LoadSecret(i) => ~TruncateSecret(i) /\ ~WriteSecret(i) /\ ~StoreToken(i)
      /\ TruncateSecret(i) => ~WriteSecret(i) /\ ~StoreToken(i)
      /\ WriteSecret(i) => ~StoreToken(i)
  BY DEF LoadSecret, TruncateSecret, WriteSecret, StoreToken, At
<1> DEFINE next == IF call[i].pw # 0 THEN "store" ELSE "authenticate"
<1>1. CASE StoreToken(i)
  BY <1>1, <1>b, <1>c, GoesMoves DEF StoreToken, Answered, CallSteps
<1>2. CASE TruncateSecret(i)
  <2>1. Moves(i) /\ call'[i].at = "write" /\ call'[i] = [call[i] EXCEPT !.at = "write"]
    BY <1>2, <1>b, GoesMoves DEF TruncateSecret, CallSteps
  <2> QED
    BY <1>a, <1>2, <1>c, <2>1 DEF Calls
<1>3. ASSUME NEW k \in Nat, call' = [call EXCEPT ![i].key = k, ![i].at = next]
      PROVE  /\ Moves(i) /\ call'[i].key = k /\ call'[i].at = next
             /\ call'[i].id = call[i].id /\ call'[i].pw = call[i].pw
  <2>1. call'[i] = [call[i] EXCEPT !.key = k, !.at = next]
    BY <1>3 DEF AccountTypes
  <2>2. call'[i] \in Calls /\ call' = [call EXCEPT ![i] = call'[i]] /\ next # "none"
    BY <1>a, <1>3, <2>1 DEF Calls, CallSteps, AccountTypes
  <2> QED
    BY <1>a, <1>b, <2>1, <2>2 DEF Moves, Calls
<1>4. CASE WriteSecret(i)
  BY <1>4, <1>3, <1>a, <1>c DEF WriteSecret
<1>5. CASE LoadSecret(i) /\ secret # 0
  BY <1>5, <1>3, <1>a, <1>c DEF LoadSecret
<1>6. CASE LoadSecret(i) /\ secret = 0
  <2>1. call'[i] = [call[i] EXCEPT !.at = "truncate"] /\ call' = [call EXCEPT ![i] = call'[i]]
    BY <1>6 DEF LoadSecret, AccountTypes
  <2>2. call'[i] \in Calls
    BY <1>a, <2>1 DEF Calls, CallSteps
  <2> QED
    BY <1>a, <1>b, <1>c, <1>6, <2>1, <2>2 DEF Moves, Calls
<1> QED
  BY <1>1, <1>2, <1>4, <1>5, <1>6

\* The step after authentication, of each kind of request.
AfterAuthentication(op) ==
  CASE op = "default" -> "projects" [] op = "session" -> "row"
    [] op = "reset" -> "password" [] OTHER -> "purge"

LEMMA AuthenticateMoves ==
  ASSUME AccountTypes, NEW i \in Ids, Authenticate(i)
  PROVE  /\ Moves(i)
         /\ \/ call'[i].at = "done" /\ call'[i].id = 0
            \/ /\ call'[i].at = AfterAuthentication(call[i].op)
               /\ call'[i].id = user[call[i].email].id /\ call'[i].pw = call[i].pw
<1>a. call[i] \in Calls /\ user[call[i].email] \in Users /\ i \in Open /\ UNCHANGED calls
  BY DEF AccountTypes, Calls, Authenticate, At, Open
<1>b. AfterAuthentication(call[i].op) \in CallSteps \ {"none"}
  BY DEF AfterAuthentication, CallSteps
<1>1. CASE Goes(i, "done")
  BY <1>1, <1>a, GoesMoves DEF CallSteps
<1>2. CASE call' = [call EXCEPT ![i].id = user[call[i].email].id,
                                ![i].at = AfterAuthentication(call[i].op)]
  <2>1. /\ call'[i] = [call[i] EXCEPT !.id = user[call[i].email].id,
                                      !.at = AfterAuthentication(call[i].op)]
        /\ call' = [call EXCEPT ![i] = call'[i]]
    BY <1>2 DEF AccountTypes
  <2>2. call'[i] \in Calls
    BY <1>a, <1>b, <2>1 DEF Calls, Users
  <2> QED
    BY <1>a, <1>b, <2>1, <2>2 DEF Moves, Calls
<1> QED
  BY <1>1, <1>2 DEF Authenticate, Answered, AfterAuthentication

LEMMA OwningMoves ==
  ASSUME AccountTypes, NEW i \in Ids,
         \/ LookForProject(i) \/ CreateProject(i) \/ InsertSession(i) \/ MakeFolder(i)
         \/ SetPassword(i) \/ Purge(i) \/ RevokeTokens(i) \/ Cascade(i)
  PROVE  /\ Moves(i)
         /\ call'[i].at # "done" => call'[i].id = call[i].id /\ call'[i].pw = call[i].pw
         /\ call'[i].at = "done" => call'[i].id = 0
         /\ LookForProject(i) =>
              call'[i].at = IF \E p \in projects : p.owner = call[i].id THEN Afterwards(i) ELSE "project"
         /\ CreateProject(i) => call'[i].at = Afterwards(i)
         /\ InsertSession(i) => call'[i].at \in {"folder", "done"}
         /\ SetPassword(i) \/ Purge(i) => call'[i].at \in {"revoke", "done"}
         /\ RevokeTokens(i) => call'[i].at = IF call[i].op = "reset" THEN "done" ELSE "cascade"
         /\ MakeFolder(i) \/ Cascade(i) => call'[i].at = "done"
<1> USE DEF At
<1>a. call[i] \in Calls /\ i \in Open /\ UNCHANGED calls
  BY DEF AccountTypes, Open, LookForProject, CreateProject, InsertSession, MakeFolder,
         SetPassword, Purge, RevokeTokens, Cascade
<1>b. Afterwards(i) \in {"verify", "done"}
  BY DEF Afterwards
<1>c. /\ LookForProject(i) <=> LookForProject(i) /\ At(i, "projects")
      /\ CreateProject(i) <=> CreateProject(i) /\ At(i, "project")
      /\ InsertSession(i) <=> InsertSession(i) /\ At(i, "row")
      /\ MakeFolder(i) <=> MakeFolder(i) /\ At(i, "folder")
      /\ SetPassword(i) <=> SetPassword(i) /\ At(i, "password")
      /\ Purge(i) <=> Purge(i) /\ At(i, "purge")
      /\ RevokeTokens(i) <=> RevokeTokens(i) /\ At(i, "revoke")
      /\ Cascade(i) <=> Cascade(i) /\ At(i, "cascade")
  BY DEF LookForProject, CreateProject, InsertSession, MakeFolder, SetPassword, Purge,
         RevokeTokens, Cascade
<1>d. ASSUME NEW step \in CallSteps \ {"none"}, Goes(i, step)
      PROVE  /\ Moves(i) /\ call'[i].at = step
             /\ step # "done" => call'[i].id = call[i].id /\ call'[i].pw = call[i].pw
             /\ step = "done" => call'[i].id = 0
  <2>1. /\ Moves(i) /\ call'[i].at = step
        /\ step # "done" => call'[i] = [call[i] EXCEPT !.at = step]
        /\ step = "done" => call'[i].id = 0
    BY <1>a, <1>d, GoesMoves
  <2> QED
    BY <1>a, <2>1 DEF Calls
<1>1. CASE LookForProject(i)
  <2> DEFINE step == IF \E p \in projects : p.owner = call[i].id THEN Afterwards(i) ELSE "project"
  <2>1. step \in CallSteps \ {"none"} /\ Goes(i, step)
    BY <1>1, <1>b DEF LookForProject, CallSteps
  <2> HIDE DEF step
  <2>2. /\ Moves(i) /\ call'[i].at = step
        /\ step # "done" => call'[i].id = call[i].id /\ call'[i].pw = call[i].pw
        /\ step = "done" => call'[i].id = 0
    BY <1>d, <2>1
  <2> QED
    BY <1>1, <1>c, <2>2 DEF step
<1>2. CASE CreateProject(i)
  <2>1. Afterwards(i) \in CallSteps \ {"none"} /\ Goes(i, Afterwards(i))
    BY <1>2, <1>b DEF CreateProject, CallSteps
  <2>2. /\ Moves(i) /\ call'[i].at = Afterwards(i)
        /\ Afterwards(i) # "done" => call'[i].id = call[i].id /\ call'[i].pw = call[i].pw
        /\ Afterwards(i) = "done" => call'[i].id = 0
    BY <1>d, <2>1
  <2> QED
    BY <1>2, <1>c, <2>2
<1>3. CASE InsertSession(i) \/ MakeFolder(i)
  <2>1. PICK step \in {"folder", "done"} : Goes(i, step) /\ (MakeFolder(i) => step = "done")
    BY <1>3, <1>c DEF InsertSession, MakeFolder, Answered
  <2>2. step \in CallSteps \ {"none"}
    BY DEF CallSteps
  <2>3. /\ Moves(i) /\ call'[i].at = step
        /\ step # "done" => call'[i].id = call[i].id /\ call'[i].pw = call[i].pw
        /\ step = "done" => call'[i].id = 0
    BY <1>d, <2>1, <2>2
  <2> QED
    BY <1>3, <1>c, <2>1, <2>3
<1>4. CASE SetPassword(i) \/ Purge(i)
  <2>1. PICK step \in {"revoke", "done"} : Goes(i, step)
    BY <1>4 DEF SetPassword, Purge, Answered
  <2>2. step \in CallSteps \ {"none"}
    BY DEF CallSteps
  <2>3. /\ Moves(i) /\ call'[i].at = step
        /\ step # "done" => call'[i].id = call[i].id /\ call'[i].pw = call[i].pw
        /\ step = "done" => call'[i].id = 0
    BY <1>d, <2>1, <2>2
  <2> QED
    BY <1>4, <1>c, <2>3
<1>5. CASE RevokeTokens(i)
  <2> DEFINE step == IF call[i].op = "reset" THEN "done" ELSE "cascade"
  <2>1. step \in CallSteps \ {"none"} /\ Goes(i, step)
    BY <1>5 DEF RevokeTokens, CallSteps
  <2> HIDE DEF step
  <2>2. /\ Moves(i) /\ call'[i].at = step
        /\ step # "done" => call'[i].id = call[i].id /\ call'[i].pw = call[i].pw
        /\ step = "done" => call'[i].id = 0
    BY <1>d, <2>1
  <2> QED
    BY <1>5, <1>c, <2>2 DEF step
<1>6. CASE Cascade(i)
  <2>1. "done" \in CallSteps \ {"none"} /\ Goes(i, "done")
    BY <1>6 DEF Cascade, Answered, CallSteps
  <2>2. Moves(i) /\ call'[i].at = "done" /\ call'[i].id = 0
    BY <1>d, <2>1
  <2> QED
    BY <1>6, <1>c, <2>2
<1> QED
  BY <1>1, <1>2, <1>3, <1>4, <1>5, <1>6

-----------------------------------------------------------------------------
\* A request comes in.
Entries == {<<"signup", "gate">>, <<"login", "verify">>, <<"default", "secret">>,
          <<"session", "secret">>, <<"reset", "secret">>, <<"delete", "secret">>}

\* Request n comes in; the others are what they were, but those under way are marked, and
\* so is it if there are any.
Arrives(n) ==
  /\ n = calls + 1 /\ n \in Ids /\ calls' = n
  /\ call[n] = NoCall /\ call'[n] \in Calls
  /\ <<call'[n].op, call'[n].at>> \in Entries
  /\ call'[n].id = 0 /\ call'[n].pw = 0
  /\ call'[n].raced <=> Open # {}
  /\ call' \in [Ids -> Calls]
  /\ \A i \in Ids \ {n} :
       /\ call'[i].op = call[i].op /\ call'[i].at = call[i].at /\ call'[i].email = call[i].email
       /\ call'[i].id = call[i].id /\ call'[i].pw = call[i].pw /\ call'[i].key = call[i].key
       /\ call'[i].of = call[i].of /\ (i \notin Open => call'[i] = call[i])
       /\ call'[i].raced <=> call[i].raced \/ i \in Open
  /\ UNCHANGED <<secret, rowVars, forged>>

LEMMA AskArrives ==
  ASSUME AccountTypes, CallsInv, NEW e \in Emails,
         \/ AskSignup(e) \/ AskLogin(e) \/ AskDefault(e) \/ AskSession(e)
         \/ AskReset(e) \/ AskDelete(e)
  PROVE  Arrives(calls + 1)
<1> DEFINE n == calls + 1
<1>1. PICK op \in Ops, step \in CallSteps, email \in Emails, of \in Nat :
        /\ Accept(op, step, email, of)
        /\ <<op, step>> \in Entries
  <2>1. \A f \in Emails : user[f].id \in Nat
    BY DEF AccountTypes, Users
  <2>2. \A p \in projects : p.id \in Nat
    BY DEF AccountTypes, Ids
  <2> QED
    BY <2>1, <2>2, AccountsAssumption DEF AskSignup, AskLogin, AskDefault, AskSession, AskReset,
       AskDelete, Ops, CallSteps, Entries
<1>2. n \in Ids /\ calls' = n /\ n > calls /\ call[n] = NoCall
  <2>1. calls < MaxCalls /\ calls' = n /\ calls \in Nat \ {0}
    BY <1>1 DEF Accept, AccountTypes
  <2>2. n \in Ids /\ n > calls
    BY <2>1, AccountsAssumption DEF Ids
  <2> QED
    BY <2>1, <2>2 DEF CallsInv, CallInv
<1> DEFINE new == [NoCall EXCEPT !.op = op, !.at = step, !.email = email, !.of = of, !.raced = Open # {}]
<1>3. call' = [i \in Ids |-> IF i = n THEN new
                 ELSE IF i \in Open THEN [call[i] EXCEPT !.raced = TRUE] ELSE call[i]]
  BY <1>1 DEF Accept
<1>4. /\ new \in Calls /\ new.op = op /\ new.at = step /\ new.email = email /\ new.id = 0
      /\ new.pw = 0 /\ (new.raced <=> Open # {})
  BY AccountsAssumption DEF NoCall, Calls
<1> HIDE DEF new
<1>5. ASSUME NEW i \in Ids \ {n}
      PROVE  /\ call'[i] \in Calls
             /\ call'[i].op = call[i].op /\ call'[i].at = call[i].at /\ call'[i].email = call[i].email
             /\ call'[i].id = call[i].id /\ call'[i].pw = call[i].pw /\ call'[i].key = call[i].key
             /\ call'[i].of = call[i].of /\ (i \notin Open => call'[i] = call[i])
             /\ call'[i].raced <=> call[i].raced \/ i \in Open
  <2>1. call[i] \in Calls
    BY DEF AccountTypes
  <2>2. call'[i] = IF i \in Open THEN [call[i] EXCEPT !.raced = TRUE] ELSE call[i]
    BY <1>3
  <2> QED
    BY <2>1, <2>2 DEF Calls
<1>6. call'[n] = new
  BY <1>2, <1>3
<1>7. call' \in [Ids -> Calls]
  BY <1>3, <1>4, <1>5, <1>6
<1>8. UNCHANGED <<secret, rowVars, forged>>
  BY <1>1 DEF Accept
<1> QED
  BY <1>1, <1>2, <1>4, <1>5, <1>6, <1>7, <1>8 DEF Arrives

-----------------------------------------------------------------------------
\* A step of the accounts: a request comes in, or one goes on.
Step(i) ==
  \/ Gate(i) \/ Insert(i) \/ Verify(i)
  \/ LoadSecret(i) \/ TruncateSecret(i) \/ WriteSecret(i) \/ StoreToken(i)
  \/ Authenticate(i)
  \/ LookForProject(i) \/ CreateProject(i) \/ InsertSession(i) \/ MakeFolder(i)
  \/ SetPassword(i) \/ Purge(i) \/ RevokeTokens(i) \/ Cascade(i)

LEMMA StepOrArrival ==
  ASSUME AccountTypes, CallsInv, AccountsNext
  PROVE  (\E i \in Ids : Step(i)) \/ Arrives(calls + 1)
<1>1. CASE \E e \in Emails :
             AskSignup(e) \/ AskLogin(e) \/ AskDefault(e) \/ AskSession(e) \/ AskReset(e) \/ AskDelete(e)
  BY <1>1, AskArrives
<1>2. ASSUME NEW i \in Ids,
         \/ Gate(i) \/ Insert(i) \/ Verify(i) \/ LoadSecret(i) \/ TruncateSecret(i) \/ WriteSecret(i)
         \/ StoreToken(i) \/ Authenticate(i) \/ LookForProject(i) \/ CreateProject(i)
         \/ InsertSession(i) \/ MakeFolder(i)
         \/ SetPassword(i) \/ Purge(i) \/ RevokeTokens(i) \/ Cascade(i)
      PROVE  Step(i)
  BY <1>2 DEF Step
<1> QED
  BY <1>1, <1>2 DEF AccountsNext

LEMMA StepMoves ==
  ASSUME AccountTypes, NEW i \in Ids, Step(i)
  PROVE  Moves(i)
BY EnteringMoves, SecretMoves, AuthenticateMoves, OwningMoves DEF Step

\* Only its own record changes.
LEMMA MovesAlone ==
  ASSUME AccountTypes, NEW i \in Ids, Moves(i)
  PROVE  /\ call' \in [Ids -> Calls] /\ i \in Open
         /\ \A j \in Ids : j # i => call'[j] = call[j]
         /\ \A j \in Ids : call'[j].op = call[j].op /\ call'[j].email = call[j].email
                           /\ call'[j].of = call[j].of /\ call'[j].raced = call[j].raced
         /\ Open' \subseteq Open
<1>1. call' \in [Ids -> Calls] /\ \A j \in Ids : j # i => call'[j] = call[j]
  BY DEF AccountTypes, Moves
<1>2. i \in Open
  BY DEF Moves
<1> QED
  BY <1>1, <1>2 DEF Moves, Open

\* A default project is made for a user who is there, or not at all.
LEMMA ProjectMade ==
  ASSUME NEW i, CreateProject(i)
  PROVE  \/ projects' = projects
         \/ \E k : /\ projects' = projects \cup {[id |-> i, owner |-> call[i].id, name |-> k]}
                   /\ Known(call[i].id)
BY Zenon DEF CreateProject

LEMMA AccountTypesKept ==
  ASSUME AccountTypes, CallsInv, [AccountsNext]_accountVars
  PROVE  AccountTypes'
<1>1. CASE UNCHANGED accountVars
  BY <1>1 DEF accountVars, rowVars, AccountTypes
<1>2. CASE Arrives(calls + 1)
  BY <1>2 DEF Arrives, AccountTypes, rowVars
<1>3. ASSUME NEW i \in Ids, Step(i) PROVE AccountTypes'
  <2>a. call' \in [Ids -> Calls] /\ UNCHANGED calls
    BY <1>3, StepMoves, MovesAlone DEF Moves
  <2>b. call[i] \in Calls /\ i \in Nat
    BY AccountsAssumption DEF AccountTypes, Ids
  <2>1. CASE UNCHANGED <<user, tokens, projects, sessions, folders>>
             /\ secret' \in Nat /\ forged' \in BOOLEAN
    BY <2>1, <2>a DEF AccountTypes
  <2>2. CASE Gate(i) \/ Verify(i) \/ LoadSecret(i) \/ Authenticate(i) \/ LookForProject(i)
    BY <2>1, <2>2 DEF AccountTypes, Gate, Verify, LoadSecret, Authenticate, LookForProject, rowVars
  <2>3. CASE TruncateSecret(i) \/ WriteSecret(i)
    <3>1. secret' \in Nat
      BY <2>3, <2>b DEF TruncateSecret, WriteSecret
    <3>2. forged' \in BOOLEAN
      BY <2>3 DEF AccountTypes, TruncateSecret, WriteSecret
    <3> QED
      BY <2>1, <2>3, <3>1, <3>2 DEF TruncateSecret, WriteSecret, rowVars
  <2>4. CASE Insert(i)
    <3>1. user' \in [Emails -> Users]
      BY <2>4, <2>b, AccountsAssumption DEF Insert, AccountTypes, Users, Environ
    <3> QED
      BY <2>4, <2>a, <3>1 DEF Insert, AccountTypes
  <2>5. CASE StoreToken(i)
    <3>1. [id |-> call[i].id, pw |-> call[i].pw, key |-> call[i].key, by |-> i] \in Tokens
      BY <2>b DEF Calls, Tokens
    <3> QED
      BY <2>5, <2>a, <3>1 DEF StoreToken, AccountTypes
  <2>6. CASE CreateProject(i)
    <3>1. \A p \in projects' : p \in projects \/ p.id = i
      BY <2>6, ProjectMade
    <3> QED
      BY <2>6, <2>a, <3>1 DEF CreateProject, AccountTypes
  <2>7. CASE InsertSession(i) \/ MakeFolder(i)
    BY <2>7, <2>a DEF InsertSession, MakeFolder, AccountTypes
  <2>8. CASE SetPassword(i)
    <3>1. user' \in [Emails -> Users]
      BY <2>8, <2>b DEF SetPassword, AccountTypes, Users
    <3> QED
      BY <2>8, <2>a, <3>1 DEF SetPassword, AccountTypes
  <2>9. CASE Purge(i) \/ RevokeTokens(i)
    BY <2>9, <2>a DEF Purge, RevokeTokens, AccountTypes
  <2>10. CASE Cascade(i)
    <3>1. user' \in [Emails -> Users]
      BY <2>10 DEF Cascade, AccountTypes, Users, NoUser
    <3> QED
      BY <2>10, <2>a, <3>1 DEF Cascade, AccountTypes
  <2> QED
    BY <1>3, <2>2, <2>3, <2>4, <2>5, <2>6, <2>7, <2>8, <2>9, <2>10 DEF Step
<1> QED
  BY <1>1, <1>2, <1>3, StepOrArrival

LEMMA OverlapsKept ==
  ASSUME AccountTypes, CallsInv, OverlapsMarked, [AccountsNext]_accountVars
  PROVE  OverlapsMarked'
<1>1. CASE UNCHANGED accountVars
  BY <1>1 DEF accountVars, OverlapsMarked, Open
<1>2. CASE Arrives(calls + 1)
  <2> DEFINE n == calls + 1
  <2>1. Open' \subseteq Open \cup {n}
    BY <1>2 DEF Arrives, Open
  <2>2. n \notin Open
    BY <1>2 DEF Arrives, Open, NoCall
  <2>3. \A i \in Open : call'[i].raced
    BY <1>2, <2>2 DEF Arrives, Open
  <2>4. ASSUME NEW i \in Open', NEW j \in Open', i # j PROVE call'[i].raced
    <3>1. CASE i \in Open
      BY <2>3, <3>1
    <3>2. CASE i = n
      BY <1>2, <2>1, <2>4, <3>2 DEF Arrives
    <3> QED
      BY <2>1, <3>1, <3>2
  <2> QED
    BY <2>4 DEF OverlapsMarked
<1>3. ASSUME NEW i \in Ids, Step(i) PROVE OverlapsMarked'
  BY <1>3, StepMoves, MovesAlone DEF OverlapsMarked, Open
<1> QED
  BY <1>1, <1>2, <1>3, StepOrArrival

LEMMA CallsKept ==
  ASSUME AccountTypes, CallsInv, UserInv, [AccountsNext]_accountVars
  PROVE  CallsInv'
<1>1. CASE UNCHANGED accountVars
  BY <1>1 DEF accountVars, CallsInv, CallInv, At
<1>2. CASE Arrives(calls + 1)
  <2>0. PICK n \in Ids : n = calls + 1 /\ Arrives(n)
    BY <1>2 DEF Arrives
  <2>1. calls \in Nat /\ calls > 0
    BY DEF AccountTypes
  <2>2. CallInv(n)'
    <3>1. ~(n > calls' \/ n = 1)
      BY <2>0, <2>1 DEF Arrives
    <3>2. \/ call'[n].op = "signup" /\ call'[n].at = "gate"
          \/ call'[n].op = "login" /\ call'[n].at = "verify"
          \/ call'[n].op \in Guarded /\ call'[n].at = "secret" /\ call'[n].pw = 0
      BY <2>0 DEF Arrives, Entries, Guarded
    <3> QED
      BY <3>1, <3>2 DEF CallInv, At, Entering, Guarded
  <2>3. ASSUME NEW i \in Ids \ {n} PROVE CallInv(i)'
    <3>1. CallInv(i) /\ i \in Nat
      BY AccountsAssumption DEF CallsInv, Ids
    <3>2. i > calls' \/ i = 1 => call'[i] = call[i] /\ call[i] = NoCall
      BY <2>0, <2>1, <2>3, <3>1 DEF Arrives, CallInv, Open, NoCall
    <3> QED
      BY <2>0, <3>1, <3>2 DEF Arrives, CallInv, At
  <2>4. \A i \in Ids : CallInv(i)'
    BY <2>2, <2>3
  <2> QED
    BY <2>4 DEF CallsInv
<1>3. ASSUME NEW i \in Ids, Step(i) PROVE CallsInv'
  <2>a. /\ Moves(i) /\ UNCHANGED calls /\ i \in Open /\ call'[i].at # "none"
        /\ \A j \in Ids : j # i => call'[j] = call[j]
        /\ call'[i].op = call[i].op /\ call'[i].email = call[i].email
    BY <1>3, StepMoves, MovesAlone DEF Moves
  <2>b. CallInv(i) /\ i \in Nat /\ i # 0 /\ ~(i > calls \/ i = 1)
    BY <2>a, AccountsAssumption DEF CallsInv, CallInv, NoCall, Open, Ids
  <2>c. \A j \in Ids : j # i => CallInv(j)'
    BY <2>a DEF CallsInv, CallInv, At
  <2>d. \A e \in Emails : user[e] # NoUser => user[e].pw # 0
    BY DEF UserInv
  <2>e. call[i].email \in Emails /\ secret \in Nat
    BY DEF AccountTypes, Calls
  <2>f. Environ # 0 /\ FirstPassword(i) # 0
    BY <2>b, AccountsAssumption DEF Environ, FirstPassword
  <2>1. CASE Gate(i) \/ Insert(i) \/ Verify(i)
    <3>1. /\ call'[i].at \in {"insert", "secret", "projects", "done"}
          /\ call'[i].at = "insert" =>
               Gate(i) \/ (Verify(i) /\ call[i].email = Root /\ call[i].op = "login")
          /\ call'[i].at \in {"secret", "projects"} =>
              \/ /\ Insert(i) /\ call'[i].pw = FirstPassword(i)
                 /\ call'[i].at = "secret" <=> call[i].op = "login"
              \/ /\ Verify(i) /\ LogsIn(call[i].email, user[call[i].email], call'[i].pw)
                 /\ user[call[i].email] # NoUser /\ call'[i].at = "secret"
      BY <2>1, EnteringMoves
    <3>2. /\ Gate(i) => At(i, "gate")
          /\ Insert(i) => At(i, "insert")
          /\ Verify(i) => At(i, "verify")
      BY DEF Gate, Insert, Verify
    <3>3. call'[i].at \in {"secret", "projects"} => call'[i].pw # 0
      BY <2>b, <2>d, <2>e, <2>f, <3>1 DEF LogsIn
    <3>4. CallInv(i)'
      BY <2>a, <2>b, <3>1, <3>2, <3>3 DEF CallInv, At, Entering, Guarded
    <3> QED
      BY <2>c, <3>4 DEF CallsInv
  <2>2. CASE LoadSecret(i) \/ TruncateSecret(i) \/ WriteSecret(i) \/ StoreToken(i)
    <3>1. /\ StoreToken(i) => call'[i].at = "done"
          /\ TruncateSecret(i) => call'[i].at = "write"
          /\ LoadSecret(i) =>
              IF secret = 0 THEN call'[i].at = "truncate"
              ELSE /\ call'[i].key = secret
                   /\ call'[i].at = IF call[i].pw # 0 THEN "store" ELSE "authenticate"
          /\ WriteSecret(i) =>
               /\ call'[i].key = i /\ call'[i].at = IF call[i].pw # 0 THEN "store" ELSE "authenticate"
          /\ ~StoreToken(i) => call'[i].pw = call[i].pw
      BY <2>2, SecretMoves
    <3>2. StoreToken(i) \/ call[i].at \in {"secret", "truncate", "write"}
      BY <2>2 DEF LoadSecret, TruncateSecret, WriteSecret, At
    <3>3. CallInv(i)'
      BY <2>2, <2>a, <2>b, <3>1, <3>2 DEF CallInv, At, Entering, Guarded
    <3> QED
      BY <2>c, <3>3 DEF CallsInv
  <2>3. CASE Authenticate(i)
    <3>1. call'[i].at \in {"done", AfterAuthentication(call[i].op)} /\ At(i, "authenticate")
      BY <2>3, AuthenticateMoves DEF Authenticate
    <3>2. CallInv(i)'
      BY <2>a, <2>b, <3>1 DEF CallInv, At, Guarded, AfterAuthentication
    <3> QED
      BY <2>c, <3>2 DEF CallsInv
  <2>4. CASE \/ LookForProject(i) \/ CreateProject(i) \/ InsertSession(i) \/ MakeFolder(i)
             \/ SetPassword(i) \/ Purge(i) \/ RevokeTokens(i) \/ Cascade(i)
    <3>1. /\ LookForProject(i) =>
               call'[i].at = IF \E p \in projects : p.owner = call[i].id THEN Afterwards(i) ELSE "project"
          /\ CreateProject(i) => call'[i].at = Afterwards(i)
          /\ InsertSession(i) => call'[i].at \in {"folder", "done"}
          /\ SetPassword(i) \/ Purge(i) => call'[i].at \in {"revoke", "done"}
          /\ RevokeTokens(i) => call'[i].at = IF call[i].op = "reset" THEN "done" ELSE "cascade"
          /\ MakeFolder(i) \/ Cascade(i) => call'[i].at = "done"
      BY <2>4, OwningMoves
    <3>2. /\ LookForProject(i) => At(i, "projects")
          /\ CreateProject(i) => At(i, "project")
          /\ InsertSession(i) => At(i, "row")
          /\ SetPassword(i) => At(i, "password")
          /\ Purge(i) => At(i, "purge")
          /\ RevokeTokens(i) => At(i, "revoke")
      BY DEF LookForProject, CreateProject, InsertSession, SetPassword, Purge, RevokeTokens
    <3>3. \/ call'[i].at = "done"
          \/ call'[i].at = "verify" /\ call[i].op = "signup"
          \/ call'[i].at = "project" /\ call[i].op \in {"signup", "default"}
          \/ call'[i].at = "folder" /\ call[i].op = "session"
          \/ call'[i].at = "revoke" /\ call[i].op \in {"reset", "delete"}
          \/ call'[i].at = "cascade" /\ call[i].op = "delete"
      BY <2>4, <2>b, <3>1, <3>2 DEF CallInv, At, Afterwards
    <3>4. CallInv(i)'
      BY <2>a, <2>b, <3>3 DEF CallInv, At, Entering, Guarded
    <3> QED
      BY <2>c, <3>4 DEF CallsInv
  <2> QED
    BY <1>3, <2>1, <2>2, <2>3, <2>4 DEF Step
<1> QED
  BY <1>1, <1>2, <1>3, StepOrArrival

-----------------------------------------------------------------------------
\* Which tables a step may change.
LEMMA Touches ==
  ASSUME NEW i \in Ids, Step(i)
  PROVE  /\ TruncateSecret(i) \/ WriteSecret(i) \/ UNCHANGED <<secret, forged>>
         /\ Insert(i) \/ SetPassword(i) \/ Cascade(i) \/ UNCHANGED user
         /\ StoreToken(i) \/ RevokeTokens(i) \/ Cascade(i) \/ UNCHANGED tokens
         /\ CreateProject(i) \/ Cascade(i) \/ UNCHANGED projects
         /\ InsertSession(i) \/ MakeFolder(i) \/ Cascade(i) \/ UNCHANGED sessions
         /\ MakeFolder(i) \/ Purge(i) \/ UNCHANGED <<folders, kept>>
<1>1. CASE Gate(i) \/ Insert(i) \/ Verify(i)
  BY <1>1 DEF Gate, Insert, Verify, rowVars
<1>2. CASE LoadSecret(i) \/ TruncateSecret(i) \/ WriteSecret(i) \/ StoreToken(i)
  BY <1>2 DEF LoadSecret, TruncateSecret, WriteSecret, StoreToken, rowVars
<1>3. CASE Authenticate(i) \/ LookForProject(i) \/ CreateProject(i) \/ InsertSession(i) \/ MakeFolder(i)
  BY <1>3 DEF Authenticate, LookForProject, CreateProject, InsertSession, MakeFolder, rowVars
<1>4. CASE SetPassword(i) \/ Purge(i) \/ RevokeTokens(i) \/ Cascade(i)
  BY <1>4 DEF SetPassword, Purge, RevokeTokens, Cascade, rowVars
<1> QED
  BY <1>1, <1>2, <1>3, <1>4 DEF Step

\* Where a step starts and where it may lead.
LEMMA Leads ==
  ASSUME AccountTypes, NEW i \in Ids, Step(i)
  PROVE  /\ Gate(i) => At(i, "gate") /\ call'[i].at \in {"insert", "done"}
         /\ Insert(i) => At(i, "insert") /\ call'[i].at \in {"secret", "projects", "done"}
         /\ Verify(i) => At(i, "verify") /\ call'[i].at \in {"secret", "insert", "done"}
         /\ LoadSecret(i) =>
              At(i, "secret") /\ call'[i].at \in {"truncate", "store", "authenticate"}
         /\ TruncateSecret(i) => At(i, "truncate") /\ call'[i].at = "write"
         /\ WriteSecret(i) => At(i, "write") /\ call'[i].at \in {"store", "authenticate"}
         /\ StoreToken(i) => At(i, "store") /\ call'[i].at = "done"
         /\ Authenticate(i) => /\ At(i, "authenticate")
                               /\ call'[i].at \in {"projects", "row", "password", "purge", "done"}
         /\ LookForProject(i) => At(i, "projects") /\ call'[i].at \in {"project", "verify", "done"}
         /\ CreateProject(i) => At(i, "project") /\ call'[i].at \in {"verify", "done"}
         /\ InsertSession(i) => At(i, "row") /\ call'[i].at \in {"folder", "done"}
         /\ MakeFolder(i) => At(i, "folder") /\ call'[i].at = "done"
         /\ SetPassword(i) => At(i, "password") /\ call'[i].at \in {"revoke", "done"}
         /\ Purge(i) => At(i, "purge") /\ call'[i].at \in {"revoke", "done"}
         /\ RevokeTokens(i) => At(i, "revoke") /\ call'[i].at \in {"cascade", "done"}
         /\ Cascade(i) => At(i, "cascade") /\ call'[i].at = "done"
<1>1. /\ Gate(i) => call'[i].at \in {"insert", "done"}
      /\ Insert(i) => call'[i].at \in {"secret", "projects", "done"}
      /\ Verify(i) => call'[i].at \in {"secret", "insert", "done"}
  <2>1. Gate(i) => ~Insert(i) /\ ~Verify(i)
    BY DEF Gate, Insert, Verify, At
  <2>2. Insert(i) => ~Gate(i) /\ ~Verify(i)
    BY DEF Gate, Insert, Verify, At
  <2> QED
    BY <2>1, <2>2, EnteringMoves
<1>2. /\ LoadSecret(i) => call'[i].at \in {"truncate", "store", "authenticate"}
      /\ TruncateSecret(i) => call'[i].at = "write"
      /\ WriteSecret(i) => call'[i].at \in {"store", "authenticate"}
      /\ StoreToken(i) => call'[i].at = "done"
  BY SecretMoves
<1>3. Authenticate(i) => call'[i].at \in {"projects", "row", "password", "purge", "done"}
  BY AuthenticateMoves DEF AfterAuthentication
<1>4. /\ LookForProject(i) => call'[i].at \in {"project", "verify", "done"}
      /\ CreateProject(i) => call'[i].at \in {"verify", "done"}
      /\ InsertSession(i) => call'[i].at \in {"folder", "done"}
      /\ MakeFolder(i) => call'[i].at = "done"
      /\ SetPassword(i) => call'[i].at \in {"revoke", "done"}
      /\ Purge(i) => call'[i].at \in {"revoke", "done"}
      /\ RevokeTokens(i) => call'[i].at \in {"cascade", "done"}
      /\ Cascade(i) => call'[i].at = "done"
  BY OwningMoves DEF Afterwards
<1>5. /\ Gate(i) => At(i, "gate")
      /\ Insert(i) => At(i, "insert")
      /\ Verify(i) => At(i, "verify")
      /\ LoadSecret(i) => At(i, "secret")
      /\ TruncateSecret(i) => At(i, "truncate")
      /\ WriteSecret(i) => At(i, "write")
      /\ StoreToken(i) => At(i, "store")
      /\ Authenticate(i) => At(i, "authenticate")
  BY DEF Gate, Insert, Verify, LoadSecret, TruncateSecret, WriteSecret, StoreToken, Authenticate
<1>6. /\ LookForProject(i) => At(i, "projects")
      /\ CreateProject(i) => At(i, "project")
      /\ InsertSession(i) => At(i, "row")
      /\ MakeFolder(i) => At(i, "folder")
      /\ SetPassword(i) => At(i, "password")
      /\ Purge(i) => At(i, "purge")
      /\ RevokeTokens(i) => At(i, "revoke")
      /\ Cascade(i) => At(i, "cascade")
  BY DEF LookForProject, CreateProject, InsertSession, MakeFolder, SetPassword, Purge,
         RevokeTokens, Cascade
<1> QED
  BY <1>1, <1>2, <1>3, <1>4, <1>5, <1>6

LEMMA SecretKept ==
  ASSUME AccountTypes, CallsInv, SecretInv, [AccountsNext]_accountVars
  PROVE  SecretInv'
<1>1. CASE UNCHANGED accountVars
  BY <1>1 DEF accountVars, rowVars, SecretInv, At
<1>2. CASE Arrives(calls + 1)
  <2>1. PICK n \in Ids : n = calls + 1 /\ Arrives(n)
    BY <1>2 DEF Arrives
  <2>2. call'[n].at \notin {"store", "write"}
    BY <2>1 DEF Arrives, Entries
  <2>3. UNCHANGED <<secret, tokens, forged>>
    BY <2>1 DEF Arrives, rowVars
  <2>4. \A i \in Ids \ {n} : call'[i].at = call[i].at /\ call'[i].key = call[i].key
    BY <2>1 DEF Arrives
  <2> QED
    BY <2>2, <2>3, <2>4 DEF SecretInv, At
<1>3. ASSUME NEW i \in Ids, Step(i) PROVE SecretInv'
  <2>a. \A j \in Ids : j # i => call'[j] = call[j]
    BY <1>3, StepMoves, MovesAlone
  <2>b. call[i] \in Calls /\ i \in Nat /\ i # 0 /\ CallInv(i)
    BY AccountsAssumption DEF AccountTypes, Ids, CallsInv
  <2>1. CASE UNCHANGED <<secret, forged>> /\ tokens' \subseteq tokens
             /\ call'[i].at \notin {"store", "write"}
    BY <2>a, <2>1 DEF SecretInv, At
  <2>2. CASE LoadSecret(i)
    <3>1. UNCHANGED <<secret, forged, tokens>>
      BY <2>2 DEF LoadSecret, rowVars
    <3>2. call'[i].at # "write" /\ (call'[i].at = "store" => call'[i].key = secret)
      BY <2>2, SecretMoves
    <3> QED
      BY <2>a, <3>1, <3>2 DEF SecretInv, At
  <2>3. CASE TruncateSecret(i)
    <3>1. /\ secret' = 0 /\ UNCHANGED tokens /\ call'[i].at = "write"
          /\ forged' = (forged \/ secret # 0 \/ \E j \in Ids \ {i} : At(j, "write"))
      BY <2>3, SecretMoves DEF TruncateSecret, rowVars
    <3>2. ~forged' => ~forged /\ secret = 0 /\ \A j \in Ids \ {i} : ~At(j, "write")
      BY <3>1
    <3>3. forged' \in BOOLEAN /\ (forged => forged')
      BY <3>1 DEF AccountTypes
    <3>4. CASE forged'
      BY <3>1, <3>4 DEF SecretInv
    <3>5. CASE ~forged'
      BY <2>a, <3>1, <3>2, <3>5 DEF SecretInv, At
    <3> QED
      BY <3>4, <3>5
  <2>4. CASE WriteSecret(i)
    <3>1. /\ secret' = i /\ UNCHANGED <<tokens, forged>> /\ At(i, "write")
          /\ call'[i].key = i /\ call'[i].at \in {"store", "authenticate"}
      BY <2>4, SecretMoves DEF WriteSecret, rowVars
    <3>2. CASE forged
      BY <3>1, <3>2 DEF SecretInv
    <3>3. CASE ~forged
      <4>1. secret = 0 /\ \A j \in Ids \ {i} : ~At(j, "write")
        BY <3>1, <3>3 DEF SecretInv
      <4>2. tokens = {}
        BY <3>3, <4>1 DEF SecretInv
      <4>3. \A j \in Ids : ~At(j, "store")
        BY <3>3, <4>1 DEF SecretInv, CallsInv, CallInv
      <4> QED
        BY <2>a, <3>1, <3>3, <4>1, <4>2, <4>3 DEF SecretInv, At
    <3> QED
      BY <3>2, <3>3 DEF AccountTypes
  <2>5. CASE StoreToken(i)
    <3>1. /\ UNCHANGED <<secret, forged>> /\ At(i, "store") /\ call'[i].at = "done"
          /\ \A t \in tokens' : t \in tokens \/ t.key = call[i].key
      BY <2>5, SecretMoves DEF StoreToken
    <3>2. call[i].key # 0
      BY <2>b, <3>1 DEF CallInv
    <3> QED
      BY <2>a, <3>1, <3>2 DEF SecretInv, At
  <2>6. CASE RevokeTokens(i) \/ Cascade(i)
    <3>1. tokens' \subseteq tokens /\ UNCHANGED <<secret, forged>>
      BY <2>6 DEF RevokeTokens, Cascade
    <3> QED
      BY <1>3, <2>1, <2>6, <3>1, Leads
  <2>7. CASE ~ (\/ LoadSecret(i) \/ TruncateSecret(i) \/ WriteSecret(i) \/ StoreToken(i)
               \/ RevokeTokens(i) \/ Cascade(i))
    <3>1. UNCHANGED <<secret, forged, tokens>>
      BY <1>3, <2>7, Touches
    <3>2. call'[i].at \notin {"store", "write"}
      BY <1>3, <2>7, Leads DEF Step
    <3> QED
      BY <2>1, <3>1, <3>2
  <2> QED
    BY <2>2, <2>3, <2>4, <2>5, <2>6, <2>7
<1> QED
  BY <1>1, <1>2, <1>3, StepOrArrival

-----------------------------------------------------------------------------
\* What a step makes of the user and the password it works with.
LEMMA Identifies ==
  ASSUME AccountTypes, NEW i \in Ids, Step(i)
  PROVE  \/ call'[i].at = "done" /\ call'[i].id = 0
         \/ call'[i].at = "insert" /\ call'[i].id = call[i].id
         \/ /\ call'[i].at \notin {"done", "insert"}
            /\ call'[i].id = call[i].id /\ call'[i].pw = call[i].pw
            /\ ~Gate(i) /\ ~Insert(i) /\ ~Verify(i) /\ ~Authenticate(i)
         \/ /\ Insert(i) /\ call'[i].at \in {"secret", "projects"}
            /\ call'[i].id = i /\ call'[i].pw = FirstPassword(i)
         \/ /\ Verify(i) /\ user[call[i].email] # NoUser /\ call'[i].at = "secret"
            /\ call'[i].id = user[call[i].email].id
            /\ LogsIn(call[i].email, user[call[i].email], call'[i].pw)
         \/ /\ Authenticate(i) /\ call'[i].at \in {"projects", "row", "password", "purge"}
            /\ call'[i].id = user[call[i].email].id /\ call'[i].pw = call[i].pw
<1>1. CASE Gate(i) \/ Insert(i) \/ Verify(i)
  BY <1>1, EnteringMoves
<1>2. CASE LoadSecret(i) \/ TruncateSecret(i) \/ WriteSecret(i) \/ StoreToken(i)
  <2>1. ~Gate(i) /\ ~Insert(i) /\ ~Verify(i) /\ ~Authenticate(i)
    BY <1>2 DEF LoadSecret, TruncateSecret, WriteSecret, StoreToken, Gate, Insert, Verify,
                Authenticate, At
  <2> QED
    BY <1>2, <2>1, SecretMoves, Leads
<1>3. CASE Authenticate(i)
  BY <1>3, AuthenticateMoves DEF AfterAuthentication
<1>4. CASE \/ LookForProject(i) \/ CreateProject(i) \/ InsertSession(i) \/ MakeFolder(i)
           \/ SetPassword(i) \/ Purge(i) \/ RevokeTokens(i) \/ Cascade(i)
  <2>1. ~Gate(i) /\ ~Insert(i) /\ ~Verify(i) /\ ~Authenticate(i)
    BY <1>4 DEF LookForProject, CreateProject, InsertSession, MakeFolder, SetPassword, Purge,
                RevokeTokens, Cascade, Gate, Insert, Verify, Authenticate, At
  <2>2. call'[i].at # "insert"
    BY <1>4, Leads
  <2> QED
    BY <1>4, <2>1, <2>2, OwningMoves
<1> QED
  BY <1>1, <1>2, <1>3, <1>4 DEF Step

\* A row of a user is made by an insert that finds none, changed by a new password, and
\* goes with what hangs on it.
LEMMA InsertMakes ==
  ASSUME AccountTypes, NEW i \in Ids, Insert(i)
  PROVE  \/ UNCHANGED user /\ call'[i].at = "done"
         \/ /\ user[call[i].email] = NoUser /\ call[i].email \in Emails
            /\ user' = [user EXCEPT ![call[i].email] = [id |-> i, pw |-> FirstPassword(i)]]
            /\ call'[i].at \in {"secret", "projects"}
<1>1. call[i].email \in Emails /\ i \in Open /\ UNCHANGED calls
  BY DEF AccountTypes, Calls, Insert, At, Open
<1>2. CASE Goes(i, "done") /\ UNCHANGED user
  BY <1>1, <1>2, GoesMoves DEF CallSteps
<1>3. CASE /\ user[call[i].email] = NoUser
           /\ user' = [user EXCEPT ![call[i].email] = [id |-> i, pw |-> FirstPassword(i)]]
           /\ call' = [call EXCEPT ![i].at = IF call[i].op = "login" THEN "secret" ELSE "projects",
                                   ![i].id = i, ![i].pw = FirstPassword(i)]
  <2>1. call'[i].at = IF call[i].op = "login" THEN "secret" ELSE "projects"
    BY <1>3 DEF AccountTypes, Calls
  <2> QED
    BY <1>1, <1>3, <2>1
<1> QED
  BY <1>2, <1>3 DEF Insert, Answered, FirstPassword

LEMMA UserChanges ==
  ASSUME AccountTypes, NEW i \in Ids, Step(i)
  PROVE  \/ UNCHANGED user
         \/ /\ Insert(i) /\ user[call[i].email] = NoUser /\ call[i].email \in Emails
            /\ user' = [user EXCEPT ![call[i].email] = [id |-> i, pw |-> FirstPassword(i)]]
            /\ call'[i].at \in {"secret", "projects"}
         \/ /\ SetPassword(i)
            /\ \A e \in Emails : user'[e].id = user[e].id
            /\ \A e \in Emails : IF user[e].id = call[i].of /\ call[i].of # 0
                                 THEN user'[e].pw = i /\ call'[i].at = "revoke"
                                 ELSE user'[e] = user[e]
         \/ /\ Cascade(i)
            /\ \A e \in Emails :
                 user'[e] = IF user[e].id = call[i].of THEN NoUser ELSE user[e]
<1>1. CASE Insert(i)
  BY <1>1, InsertMakes
<1>2. CASE SetPassword(i)
  <2> DEFINE of == {e \in Emails : user[e].id = call[i].of /\ call[i].of # 0}
  <2>1. ASSUME NEW e \in Emails
        PROVE  /\ user'[e].id = user[e].id
               /\ IF e \in of THEN user'[e].pw = i ELSE user'[e] = user[e]
    BY <1>2 DEF SetPassword, AccountTypes, Users
  <2>2. i \in Open /\ UNCHANGED calls /\ Goes(i, IF of # {} THEN "revoke" ELSE "done")
    BY <1>2 DEF SetPassword, At, Open
  <2>3. of # {} => call'[i].at = "revoke"
    BY <2>2, GoesMoves DEF CallSteps
  <2> QED
    BY <1>2, <2>1, <2>3
<1>3. CASE Cascade(i)
  BY <1>3 DEF Cascade
<1> QED
  BY <1>1, <1>2, <1>3, Touches

LEMMA BornStays ==
  ASSUME AccountTypes, CallsInv, NEW x, Born(x),
         (\E i \in Ids : Step(i)) \/ Arrives(calls + 1)
  PROVE  Born(x)'
<1>1. CASE Arrives(calls + 1)
  BY <1>1 DEF Arrives, Born, At, NoCall
<1>2. ASSUME NEW i \in Ids, Step(i) PROVE Born(x)'
  <2>1. /\ \A j \in Ids : j # i => call'[j] = call[j]
        /\ call'[i].op = call[i].op /\ call'[i].at # "none"
    BY <1>2, StepMoves, MovesAlone DEF Moves
  <2>2. CASE x # i \/ x = 1
    BY <2>1, <2>2 DEF Born, At
  <2>3. CASE x = i /\ x # 1
    <3>1. call[i].at \notin {"none", "gate", "insert"} /\ ~(At(i, "verify") /\ call[i].op = "login")
      BY <2>3 DEF Born
    <3>2. CallInv(i)
      BY DEF CallsInv
    <3>3. call'[i].at # "gate"
      BY <1>2, Leads DEF Step
    <3>4. call'[i].at # "insert"
      <4>1. CASE Verify(i)
        <5>1. call[i].op = "signup"
          BY <3>1, <3>2, <4>1 DEF Verify, CallInv, Entering
        <5>2. ~Gate(i)
          BY <3>1 DEF Gate, At
        <5> QED
          BY <4>1, <5>1, <5>2, EnteringMoves
      <4>2. CASE ~Verify(i)
        <5>1. ~Gate(i)
          BY <3>1 DEF Gate, At
        <5> QED
          BY <1>2, <4>2, <5>1, Leads DEF Step
      <4> QED
        BY <4>1, <4>2
    <3>5. ~(call'[i].at = "verify" /\ call[i].op = "login")
      <4>1. call'[i].at = "verify" => LookForProject(i) \/ CreateProject(i)
        BY <1>2, Leads DEF Step
      <4>2. call'[i].at = "verify" => call[i].at \in {"projects", "project"}
        BY <4>1 DEF LookForProject, CreateProject, At
      <4> QED
        BY <3>2, <4>2 DEF CallInv
    <3> QED
      BY <2>1, <2>3, <3>3, <3>4, <3>5 DEF Born, At
  <2> QED
    BY <2>2, <2>3
<1> QED
  BY <1>1, <1>2

LEMMA UserKept ==
  ASSUME AccountTypes, CallsInv, UserInv, [AccountsNext]_accountVars
  PROVE  UserInv'
<1>1. CASE UNCHANGED accountVars
  BY <1>1 DEF accountVars, rowVars, UserInv, Born, At
<1>2. CASE Arrives(calls + 1)
  <2>1. PICK n \in Ids : n = calls + 1 /\ Arrives(n)
    BY <1>2 DEF Arrives
  <2>2. UNCHANGED user
    BY <2>1 DEF Arrives, rowVars
  <2>3. \A j \in Ids : call'[j].id # 0 => call'[j].id = call[j].id
    BY <2>1 DEF Arrives
  <2> DEFINE Has(x) == x = 1 \/ (/\ x \in Ids /\ call'[x].at \notin {"none", "gate", "insert"}
                                /\ ~(call'[x].at = "verify" /\ call'[x].op = "login"))
  <2>4. \A x : Born(x) => Has(x)
    <3>1. \A x : Born(x) => Born(x)'
      BY <1>2, BornStays
    <3> QED
      BY <3>1 DEF Born, At
  <2> HIDE DEF Has
  <2>5. \A e \in Emails : user[e].id # 0 => Has(user[e].id)
    BY <2>4 DEF UserInv
  <2>6. \A j \in Ids : call'[j].id # 0 => Has(call'[j].id)
    BY <2>3, <2>4 DEF UserInv
  <2> QED
    BY <2>2, <2>5, <2>6 DEF UserInv, Born, At, Has
<1>3. ASSUME NEW i \in Ids, Step(i) PROVE UserInv'
  <2>a. /\ \A j \in Ids : j # i => call'[j] = call[j]
        /\ call'[i].op = call[i].op /\ call[i].email \in Emails
    BY <1>3, StepMoves, MovesAlone DEF Moves, AccountTypes, Calls
  <2> DEFINE Has(x) == x = 1 \/ (/\ x \in Ids /\ call'[x].at \notin {"none", "gate", "insert"}
                                /\ ~(call'[x].at = "verify" /\ call'[x].op = "login"))
  <2>b. \A x : Born(x) => Has(x)
    <3>1. \A x : Born(x) => Born(x)'
      BY <1>3, BornStays
    <3> QED
      BY <3>1 DEF Born, At
  <2>c. i \in Nat /\ i # 0 /\ FirstPassword(i) # 0
    BY AccountsAssumption DEF Ids, FirstPassword, Environ
  <2>d. /\ user \in [Emails -> Users] /\ \A e \in Emails : user[e] # NoUser => user[e].id # 0
        /\ \A e \in Emails : user[e].id # 0 => user[e].pw # 0 /\ Born(user[e].id)
    BY DEF AccountTypes, UserInv
  <2>e. Insert(i) => ~Born(i)
    <3>1. i # 1 \/ call[i] = NoCall
      BY DEF CallsInv, CallInv
    <3> QED
      BY <3>1 DEF Insert, At, Born, NoCall
  <2>f. Insert(i) /\ call'[i].at \in {"secret", "projects"} => Has(i)
    BY <2>c
  <2> HIDE DEF Has
  <2>1. \A e \in Emails : IF user'[e].id = 0 THEN user'[e] = NoUser
                          ELSE user'[e].pw # 0 /\ Has(user'[e].id)
    <3>1. CASE UNCHANGED user
      BY <2>b, <3>1 DEF UserInv
    <3>2. CASE /\ Insert(i) /\ user' = [user EXCEPT ![call[i].email] = [id |-> i, pw |-> FirstPassword(i)]]
               /\ call'[i].at \in {"secret", "projects"}
      BY <2>a, <2>b, <2>c, <2>d, <2>f, <3>2 DEF UserInv
    <3>3. CASE /\ \A e \in Emails : user'[e].id = user[e].id
               /\ \A e \in Emails : user'[e].pw = i \/ user'[e] = user[e]
               /\ \A e \in Emails : user[e].id = 0 => user'[e] = user[e]
      BY <2>b, <2>c, <3>3 DEF UserInv
    <3>4. CASE \A e \in Emails : user'[e] = NoUser \/ user'[e] = user[e]
      BY <2>b, <3>4 DEF UserInv, NoUser
    <3> QED
      BY <1>3, <3>1, <3>2, <3>3, <3>4, UserChanges
  <2>2. \A e, f \in Emails : e # f /\ user'[e].id = user'[f].id => user'[e].id = 0
    <3>1. CASE \A e \in Emails : user'[e].id = user[e].id
      BY <3>1 DEF UserInv
    <3>2. CASE /\ Insert(i) /\ user' = [user EXCEPT ![call[i].email] = [id |-> i, pw |-> FirstPassword(i)]]
      <4>1. \A e \in Emails : user[e].id # i
        BY <2>c, <2>d, <2>e, <3>2
      <4> QED
        BY <2>a, <2>d, <3>2, <4>1 DEF UserInv
    <3>3. CASE \A e \in Emails : user'[e] = NoUser \/ user'[e] = user[e]
      BY <3>3 DEF UserInv, NoUser
    <3> QED
      BY <1>3, <3>1, <3>2, <3>3, UserChanges
  <2>3. \A j \in Ids : call'[j].id # 0 => Has(call'[j].id)
    <3>1. call'[i].id \in {0, call[i].id, user[call[i].email].id}
          \/ (call'[i].id = i /\ Has(i))
      BY <1>3, <2>f, Identifies
    <3> QED
      BY <2>a, <2>b, <2>d, <3>1 DEF UserInv
  <2> QED
    BY <2>1, <2>2, <2>3 DEF UserInv, Born, At, Has
<1> QED
  BY <1>1, <1>2, <1>3, StepOrArrival

LEMMA RootKept ==
  ASSUME AccountTypes, CallsInv, UserInv, RootInv, [AccountsNext]_accountVars
  PROVE  RootInv'
<1>1. CASE UNCHANGED accountVars
  BY <1>1 DEF accountVars, rowVars, RootInv, IsRoot
<1>2. CASE Arrives(calls + 1)
  <2>1. PICK n \in Ids : n = calls + 1 /\ Arrives(n)
    BY <1>2 DEF Arrives
  <2>2. n # 1 /\ call[n].at = "none" /\ call'[n].id = 0 /\ UNCHANGED user
    BY <2>1 DEF Arrives, AccountTypes, NoCall, rowVars
  <2>3. \A id : Born(id) /\ IsRoot(id)' => IsRoot(id)
    BY <2>1, <2>2 DEF Arrives, IsRoot, Born
  <2>4. ~IsRoot(0)'
    BY AccountsAssumption DEF IsRoot, Ids
  <2>5. \A e \in Emails : user[e].id = 0 \/ Born(user[e].id)
    BY DEF UserInv
  <2>6. \A j \in Ids : call'[j].id = 0 \/ (/\ Born(call[j].id) /\ call'[j].id = call[j].id
                                            /\ call'[j].email = call[j].email)
    BY <2>1, <2>2 DEF Arrives, UserInv
  <2>7. (\A e \in Emails : IsRoot(user[e].id) => e = Root)'
    BY <2>2, <2>3, <2>4, <2>5 DEF RootInv, IsRoot
  <2>8. (\A j \in Ids : IsRoot(call[j].id) => call[j].email = Root)'
    BY <2>3, <2>4, <2>6 DEF RootInv, IsRoot
  <2> QED
    BY <2>7, <2>8 DEF RootInv
<1>3. ASSUME NEW i \in Ids, Step(i) PROVE RootInv'
  <2>a. /\ \A j \in Ids : j # i => call'[j] = call[j]
        /\ \A j \in Ids : call'[j].op = call[j].op /\ call'[j].email = call[j].email
        /\ call[i].email \in Emails /\ CallInv(i) /\ i \in Open
    BY <1>3, StepMoves, MovesAlone DEF CallsInv, AccountTypes, Calls
  <2>b. \A id : IsRoot(id)' <=> IsRoot(id)
    BY <2>a DEF IsRoot
  <2>c. ~IsRoot(0)
    BY AccountsAssumption DEF IsRoot, Ids
  <2>d. Insert(i) /\ IsRoot(i) => call[i].email = Root
    BY <2>a DEF Insert, IsRoot, CallInv, At, NoCall, Open
  <2>1. ASSUME NEW e \in Emails, IsRoot(user'[e].id) PROVE e = Root
    <3>1. CASE user'[e].id = user[e].id
      BY <2>1, <3>1 DEF RootInv
    <3>2. CASE user'[e] = NoUser
      BY <2>1, <2>c, <3>2 DEF NoUser
    <3>3. CASE Insert(i) /\ user' = [user EXCEPT ![call[i].email] = [id |-> i, pw |-> FirstPassword(i)]]
      BY <2>1, <2>a, <2>d, <3>3 DEF RootInv, AccountTypes
    <3> QED
      BY <1>3, <3>1, <3>2, <3>3, UserChanges
  <2>2. ASSUME IsRoot(call'[i].id) PROVE call[i].email = Root
    <3>1. call'[i].id \in {0, call[i].id, user[call[i].email].id} \/ (Insert(i) /\ call'[i].id = i)
      BY <1>3, Identifies
    <3> QED
      BY <2>2, <2>a, <2>c, <2>d, <3>1 DEF RootInv
  <2>3. \A e \in Emails : IsRoot(user'[e].id) => e = Root
    BY <2>1
  <2>4. \A j \in Ids : IsRoot(call'[j].id) => call'[j].email = Root
    BY <2>2, <2>a DEF RootInv
  <2> QED
    BY <2>3, <2>4, <2>b DEF RootInv, IsRoot
<1> QED
  BY <1>1, <1>2, <1>3, StepOrArrival

\* A user stays known until the row is deleted.
LEMMA KnownStays ==
  ASSUME AccountTypes, NEW i \in Ids, Step(i), NEW id, Known(id)
  PROVE  Known(id)' \/ (Cascade(i) /\ id = call[i].of)
<1>1. PICK e \in Emails : user[e].id = id /\ id # 0
  BY DEF Known
<1>2. user'[e].id = id \/ (Cascade(i) /\ id = call[i].of)
  <2>1. CASE Insert(i) /\ user[call[i].email] = NoUser /\ call[i].email \in Emails
             /\ user' = [user EXCEPT ![call[i].email] = [id |-> i, pw |-> FirstPassword(i)]]
    BY <1>1, <2>1 DEF NoUser, AccountTypes
  <2> QED
    BY <1>1, <2>1, UserChanges
<1> QED
  BY <1>1, <1>2 DEF Known

LEMMA RowsKept ==
  ASSUME AccountTypes, RowsKnown, [AccountsNext]_accountVars
  PROVE  RowsKnown'
<1>1. CASE UNCHANGED accountVars
  BY <1>1 DEF accountVars, rowVars, RowsKnown, Known
<1>2. ASSUME NEW e \in Emails,
        AskSignup(e) \/ AskLogin(e) \/ AskDefault(e) \/ AskSession(e) \/ AskReset(e) \/ AskDelete(e)
      PROVE  RowsKnown'
  <2>1. UNCHANGED rowVars
    BY <1>2 DEF AskSignup, AskLogin, AskDefault, AskSession, AskReset, AskDelete, Accept
  <2> QED
    BY <2>1 DEF rowVars, RowsKnown, Known
<1>3. ASSUME NEW i \in Ids, Step(i) PROVE RowsKnown'
  <2>1. CASE Cascade(i)
    <3>1. /\ \A t \in tokens' : t \in tokens /\ t.id # call[i].of
          /\ \A p \in projects' : p \in projects /\ p.owner # call[i].of
          /\ \A s \in sessions' : s \in sessions /\ s.by # call[i].of
      BY <2>1 DEF Cascade
    <3>2. \A s \in sessions' : \E p \in projects' : p.id = s.project
      BY <2>1 DEF Cascade, RowsKnown
    <3> QED
      BY <1>3, <3>1, <3>2, KnownStays DEF RowsKnown
  <2>2. CASE ~Cascade(i)
    <3>a. \A id : Known(id) => Known(id)'
      BY <1>3, <2>2, KnownStays
    <3>1. \A t \in tokens' : Known(t.id)'
      <4>1. CASE StoreToken(i)
        <5>1. \A t \in tokens' : t \in tokens \/ (t.id = call[i].id /\ Known(call[i].id))
          BY <4>1 DEF StoreToken
        <5> QED
          BY <3>a, <5>1 DEF RowsKnown
      <4>2. CASE ~StoreToken(i)
        <5>1. tokens' \subseteq tokens
          BY <1>3, <2>2, <4>2, Touches DEF RevokeTokens
        <5> QED
          BY <3>a, <5>1 DEF RowsKnown
      <4> QED
        BY <4>1, <4>2
    <3>2. projects \subseteq projects' /\ \A p \in projects' : Known(p.owner)'
      <4>1. CASE CreateProject(i)
        <5>1. projects \subseteq projects'
              /\ \A p \in projects' : p \in projects \/ (p.owner = call[i].id /\ Known(call[i].id))
          BY <4>1, ProjectMade
        <5> QED
          BY <3>a, <5>1 DEF RowsKnown
      <4>2. CASE ~CreateProject(i)
        BY <1>3, <2>2, <3>a, <4>2, Touches DEF RowsKnown
      <4> QED
        BY <4>1, <4>2
    <3>3. \A s \in sessions' : Known(s.by)' /\ \E p \in projects : p.id = s.project
      <4>1. CASE InsertSession(i)
        <5>1. \A s \in sessions' : s \in sessions \/
                 (/\ s.by = call[i].id /\ Known(call[i].id)
                  /\ \E p \in projects : p.id = s.project)
          BY <4>1 DEF InsertSession
        <5> QED
          BY <3>a, <5>1 DEF RowsKnown
      <4>2. CASE ~InsertSession(i)
        <5>1. sessions' \subseteq sessions
          BY <1>3, <2>2, <4>2, Touches DEF MakeFolder
        <5> QED
          BY <3>a, <5>1 DEF RowsKnown
      <4> QED
        BY <4>1, <4>2
    <3> QED
      BY <3>1, <3>2, <3>3 DEF RowsKnown
  <2> QED
    BY <2>1, <2>2
<1> QED
  BY <1>1, <1>2, <1>3 DEF AccountsNext, Step

LEMMA PasswordKept ==
  ASSUME AccountTypes, CallsInv, OverlapsMarked, UserInv, RowsKnown, PasswordInv,
         [AccountsNext]_accountVars
  PROVE  PasswordInv'
<1>1. CASE UNCHANGED accountVars
  BY <1>1 DEF accountVars, rowVars, PasswordInv, Holding, Resets, At
<1>2. CASE Arrives(calls + 1)
  <2>1. PICK n \in Ids : n = calls + 1 /\ Arrives(n)
    BY <1>2 DEF Arrives
  <2>2. UNCHANGED <<user, tokens>> /\ call'[n].pw = 0 /\ call[n].op = "none" /\ call[n].raced = FALSE
    BY <2>1 DEF Arrives, rowVars, NoCall
  <2>3. /\ \A j \in Ids \ {n} : /\ call'[j].op = call[j].op /\ call'[j].at = call[j].at
                                /\ call'[j].of = call[j].of /\ call'[j].pw = call[j].pw
                                /\ call'[j].id = call[j].id
                                /\ (call[j].raced => call'[j].raced)
    BY <2>1 DEF Arrives
  <2>4. \A j \in Ids : \A id : Resets(j, id) => Resets(j, id)' /\ j # n
    BY <2>2, <2>3 DEF Resets
  <2>5. \A i \in Ids : Holding(i)' => Holding(i) /\ i # n
    BY <2>2, <2>3 DEF Holding
  <2> QED
    BY <2>2, <2>3, <2>4, <2>5 DEF PasswordInv, At
<1>3. ASSUME NEW i \in Ids, Step(i) PROVE PasswordInv'
  <2>a. /\ \A j \in Ids : j # i => call'[j] = call[j]
        /\ \A j \in Ids : call'[j].op = call[j].op /\ call'[j].of = call[j].of
                          /\ call'[j].raced = call[j].raced
        /\ i \in Open /\ CallInv(i) /\ call[i].email \in Emails
    BY <1>3, StepMoves, MovesAlone DEF CallsInv, AccountTypes, Calls
  <2>b. \A j \in Ids : \A id : Resets(j, id) <=> Resets(j, id)'
    BY <2>a DEF Resets
  <2>c. i \in Nat /\ i # 0 /\ (Insert(i) => ~Born(i))
    <3>1. i # 1 \/ call[i] = NoCall
      BY <2>a DEF CallInv
    <3> QED
      BY <3>1, AccountsAssumption DEF Insert, At, Born, NoCall, Ids
  <2>d. user \in [Emails -> Users]
    BY DEF AccountTypes
  <2>e. \A e \in Emails : user[e].id # 0 => Born(user[e].id)
    BY DEF UserInv
  \* What an id of before finds among the users: the row that was there, or a new password.
  <2>f. ASSUME NEW id, id # 0, Born(id), NEW e \in Emails, user'[e].id = id
        PROVE  /\ user[e].id = id
               /\ \/ user'[e] = user[e]
                  \/ SetPassword(i) /\ call[i].of = id /\ call'[i].at = "revoke"
    <3>1. CASE Insert(i) /\ user' = [user EXCEPT ![call[i].email] = [id |-> i, pw |-> FirstPassword(i)]]
      BY <2>a, <2>c, <2>d, <2>f, <3>1
    <3>2. CASE Cascade(i) /\ \A f \in Emails :
                 user'[f] = IF user[f].id = call[i].of THEN NoUser ELSE user[f]
      BY <2>f, <3>2 DEF NoUser
    <3> QED
      BY <1>3, <2>f, <3>1, <3>2, UserChanges
  <2>g. SetPassword(i) => call[i].op = "reset"
    BY <2>a DEF SetPassword, CallInv
  <2>1. \A k \in Ids : Holding(k)' => call'[k].id # 0
    <3>1. ASSUME Holding(i)' PROVE call'[i].id # 0
      <4>1. call'[i].at \notin {"done", "insert", "projects", "row", "password", "purge"}
        BY <3>1 DEF Holding
      <4>2. CASE Insert(i) \/ Verify(i)
        BY <1>3, <2>a, <2>c, <4>1, <4>2, Identifies DEF UserInv
      <4>3. CASE call'[i].id = call[i].id /\ call'[i].pw = call[i].pw /\ ~Authenticate(i)
        <5>1. LoadSecret(i) \/ TruncateSecret(i) \/ WriteSecret(i) \/ Insert(i) \/ Verify(i)
          BY <1>3, <3>1, Leads DEF Step, Holding
        <5>2. call[i].at \in {"secret", "truncate", "write"} \/ Insert(i) \/ Verify(i)
          BY <5>1 DEF LoadSecret, TruncateSecret, WriteSecret, At
        <5> QED
          BY <3>1, <4>2, <4>3, <5>2 DEF Holding, PasswordInv
      <4> QED
        BY <1>3, <4>1, <4>2, <4>3, Identifies
    <3> QED
      BY <2>a, <3>1 DEF PasswordInv, Holding
  <2>2. ASSUME NEW k \in Ids, NEW e \in Emails, Holding(k)', user'[e].id = call'[k].id
        PROVE  \/ LogsIn(e, user'[e], call'[k].pw)
               \/ \E j \in Ids : Resets(j, call'[k].id) /\ call[j].raced
    <3>1. CASE \/ k # i
               \/ Holding(k) /\ call'[k].id = call[k].id /\ call'[k].pw = call[k].pw /\ UNCHANGED user
      <4>1. Holding(k) /\ call'[k].id = call[k].id /\ call'[k].pw = call[k].pw
        BY <2>2, <2>a, <3>1 DEF Holding
      <4>2. call[k].id # 0 /\ Born(call[k].id)
        BY <4>1 DEF PasswordInv, UserInv
      <4>3. user[e].id = call[k].id
        BY <2>2, <2>f, <4>1, <4>2
      <4>4. CASE user'[e] = user[e]
        <5>1. \/ LogsIn(e, user[e], call[k].pw)
              \/ \E j \in Ids : Resets(j, call[k].id) /\ call[j].raced
          BY <4>1, <4>3 DEF PasswordInv
        <5> QED
          BY <4>1, <4>4, <5>1
      <4>5. CASE SetPassword(i) /\ call[i].of = call[k].id /\ k # i
        <5>1. k \in Open
          BY <4>1 DEF Holding, Open
        <5>2. call[i].raced
          BY <2>a, <4>5, <5>1 DEF OverlapsMarked
        <5>3. Resets(i, call'[k].id)
          BY <2>g, <4>1, <4>5 DEF Resets
        <5> QED
          BY <5>2, <5>3
      <4> QED
        BY <2>2, <2>f, <3>1, <4>1, <4>2, <4>4, <4>5
    <3>2. CASE k = i
      <4>1. call'[i].at \in {"secret", "truncate", "write", "store"} /\ call'[i].pw # 0
        BY <2>2, <3>2 DEF Holding
      <4>2. CASE Insert(i)
        <5>1. /\ call'[i].id = i /\ call'[i].pw = FirstPassword(i)
          BY <1>3, <4>1, <4>2, Identifies DEF Insert, Verify, Authenticate, At
        <5>2. user' = [user EXCEPT ![call[i].email] = [id |-> i, pw |-> FirstPassword(i)]]
          BY <4>1, <4>2, InsertMakes
        <5>3. e # call[i].email => user[e].id = i
          BY <2>2, <2>d, <3>2, <5>1, <5>2
        <5>4. e = call[i].email
          BY <2>c, <2>e, <4>2, <5>3
        <5> QED
          BY <2>a, <2>d, <3>2, <5>1, <5>2, <5>4 DEF LogsIn
      <4>3. CASE Verify(i)
        <5>1. /\ call'[i].id = user[call[i].email].id
              /\ LogsIn(call[i].email, user[call[i].email], call'[i].pw)
              /\ user[call[i].email] # NoUser
          BY <1>3, <4>1, <4>3, Identifies DEF Insert, Verify, Authenticate, At
        <5>2. user' = user
          BY <4>3 DEF Verify, rowVars
        <5>3. e = call[i].email
          BY <2>2, <2>a, <3>2, <5>1, <5>2 DEF UserInv
        <5> QED
          BY <3>2, <5>1, <5>2, <5>3
      <4>4. CASE ~Insert(i) /\ ~Verify(i)
        <5>1. LoadSecret(i) \/ TruncateSecret(i) \/ WriteSecret(i)
          BY <1>3, <4>1, <4>4, Leads DEF Step
        <5>2. /\ Holding(i) /\ call'[i].id = call[i].id /\ call'[i].pw = call[i].pw
              /\ UNCHANGED user
          BY <4>1, <5>1, SecretMoves DEF LoadSecret, TruncateSecret, WriteSecret, StoreToken, At, Holding,
             rowVars
        <5> QED
          BY <3>1, <3>2, <5>2
      <4> QED
        BY <4>2, <4>3, <4>4
    <3> QED
      BY <3>1, <3>2
  <2>3. ASSUME NEW t \in tokens', NEW e \in Emails, user'[e].id = t.id
        PROVE  \/ LogsIn(e, user'[e], t.pw)
               \/ \E j \in Ids : Resets(j, t.id) /\ (call[j].raced \/ At(j, "revoke")')
    <3>1. CASE t \in tokens
      <4>1. Known(t.id) /\ t.id # 0 /\ Born(t.id)
        BY <2>e, <3>1 DEF RowsKnown, Known
      <4>2. user[e].id = t.id
        BY <2>3, <2>f, <4>1
      <4>3. CASE user'[e] = user[e]
        <5>1. CASE LogsIn(e, user[e], t.pw)
          BY <4>3, <5>1
        <5>2. CASE \E j \in Ids : Resets(j, t.id) /\ (call[j].raced \/ At(j, "revoke"))
          <6>1. PICK j \in Ids : Resets(j, t.id) /\ (call[j].raced \/ At(j, "revoke"))
            BY <5>2
          <6>2. CASE call[j].raced \/ j # i
            BY <2>a, <2>b, <6>1, <6>2 DEF At
          <6>3. CASE j = i /\ At(i, "revoke")
            <7>1. RevokeTokens(i)
              BY <1>3, <6>3, Leads DEF Step, At
            <7>2. t.id # call[i].of
              BY <7>1 DEF RevokeTokens
            <7> QED
              BY <6>1, <6>3, <7>2 DEF Resets
          <6> QED
            BY <6>1, <6>2, <6>3
        <5> QED
          BY <3>1, <4>2, <5>1, <5>2 DEF PasswordInv
      <4>4. CASE SetPassword(i) /\ call[i].of = t.id /\ call'[i].at = "revoke"
        BY <2>b, <2>g, <4>4 DEF Resets, At
      <4> QED
        BY <2>3, <2>f, <4>1, <4>3, <4>4
    <3>2. CASE t \notin tokens
      <4>1. StoreToken(i)
        BY <1>3, <2>3, <3>2, Touches DEF RevokeTokens, Cascade
      <4>2. t.id = call[i].id /\ t.pw = call[i].pw /\ user' = user
        BY <2>3, <3>2, <4>1 DEF StoreToken
      <4>3. Holding(i)
        BY <2>a, <4>1 DEF StoreToken, CallInv, Holding, At
      <4>4. \/ LogsIn(e, user[e], call[i].pw)
            \/ \E j \in Ids : Resets(j, call[i].id) /\ call[j].raced
        BY <2>3, <4>2, <4>3 DEF PasswordInv
      <4> QED
        BY <2>a, <2>b, <4>2, <4>4
    <3> QED
      BY <3>1, <3>2
  <2>4. (\A k \in Ids, e \in Emails : Holding(k) /\ user[e].id = call[k].id =>
            LogsIn(e, user[e], call[k].pw) \/ \E j \in Ids : Resets(j, call[k].id) /\ call[j].raced)'
    BY <2>a, <2>2 DEF Resets
  <2>5. (\A t \in tokens, e \in Emails : user[e].id = t.id =>
            LogsIn(e, user[e], t.pw) \/ \E j \in Ids : Resets(j, t.id) /\ (call[j].raced \/ At(j, "revoke")))'
    BY <2>a, <2>3 DEF Resets
  <2> QED
    BY <2>1, <2>4, <2>5 DEF PasswordInv
<1> QED
  BY <1>1, <1>2, <1>3, StepOrArrival

LEMMA ProjectKept ==
  ASSUME AccountTypes, CallsInv, OverlapsMarked, ProjectInv, [AccountsNext]_accountVars
  PROVE  ProjectInv'
<1>1. CASE UNCHANGED accountVars
  BY <1>1 DEF accountVars, rowVars, ProjectInv, At
<1>2. CASE Arrives(calls + 1)
  <2>1. PICK n \in Ids : n = calls + 1 /\ Arrives(n)
    BY <1>2 DEF Arrives
  <2>2. projects' = projects /\ call[n].at = "none" /\ call'[n].at # "project"
    BY <2>1 DEF Arrives, rowVars, NoCall, Entries
  <2>3. \A j \in Ids \ {n} : /\ call'[j].op = call[j].op /\ call'[j].at = call[j].at
                             /\ call'[j].id = call[j].id /\ (call[j].raced => call'[j].raced)
    BY <2>1 DEF Arrives
  <2>4. \A p \in projects : p.id \in Ids \ {n}
    BY <2>2 DEF ProjectInv, AccountTypes, At
  <2>5. \A i \in Ids : At(i, "project")' => At(i, "project") /\ i # n
    BY <2>2, <2>3 DEF At
  <2> QED
    BY <2>2, <2>3, <2>4, <2>5 DEF ProjectInv, At
<1>3. ASSUME NEW i \in Ids, Step(i) PROVE ProjectInv'
  <2>a. /\ \A j \in Ids : j # i => call'[j] = call[j]
        /\ \A j \in Ids : call'[j].op = call[j].op /\ call'[j].raced = call[j].raced
        /\ i \in Open /\ CallInv(i)
    BY <1>3, StepMoves, MovesAlone DEF CallsInv
  <2>b. \A p \in projects : p.id \in Ids
    BY DEF AccountTypes
  \* A project is one that was there, or the one the step makes.
  <2>c. \A p \in projects' :
          \/ p \in projects
          \/ CreateProject(i) /\ p.id = i /\ p.owner = call[i].id
    BY <1>3, Touches, ProjectMade DEF Cascade
  <2>d. \A p, q \in projects' : p # q => p \in projects \/ q \in projects
    <3>1. CASE CreateProject(i)
      BY <3>1, ProjectMade
    <3>2. CASE ~CreateProject(i)
      BY <2>c, <3>2
    <3> QED
      BY <3>1, <3>2
  <2>e. CreateProject(i) => At(i, "project") /\ \A p \in projects : p.id # i
    BY DEF CreateProject, ProjectInv, At
  <2>1. \A p, q \in projects' : p # q => p.id # q.id
    BY <2>c, <2>d, <2>e DEF ProjectInv
  <2>2. \A p \in projects' :
       \/ At(p.id, "done")'
       \/ /\ call'[p.id].op = "signup"
          /\ call'[p.id].at \in {"verify", "secret", "truncate", "write", "store"}
    <3>1. ASSUME NEW p \in projects, p.id = i
          PROVE  \/ call'[i].at = "done"
                 \/ /\ call'[i].op = "signup"
                    /\ call'[i].at \in {"verify", "secret", "truncate", "write", "store"}
      <4>1. /\ call[i].op = "signup"
            /\ call[i].at \in {"verify", "secret", "truncate", "write", "store"}
        BY <2>a, <3>1 DEF ProjectInv, Open, At, CallInv
      <4>2. CASE Verify(i)
        <5>1. ~Gate(i)
          BY <4>2 DEF Verify, Gate, At
        <5> QED
          BY <1>3, <2>a, <4>1, <4>2, <5>1, EnteringMoves, Leads
      <4>3. CASE LoadSecret(i) \/ WriteSecret(i)
        <5>1. call[i].pw # 0
          BY <2>a, <4>1, <4>3 DEF LoadSecret, WriteSecret, At, CallInv, Guarded
        <5> QED
          BY <1>3, <2>a, <4>1, <4>3, <5>1, SecretMoves, Leads
      <4>4. CASE TruncateSecret(i) \/ StoreToken(i)
        BY <1>3, <2>a, <4>1, <4>4, Leads
      <4> QED
        BY <1>3, <4>1, <4>2, <4>3, <4>4, Leads DEF Step, At
    <3>2. CreateProject(i) => \/ call'[i].at = "done"
                              \/ call'[i].op = "signup" /\ call'[i].at = "verify"
      BY <2>a, OwningMoves DEF Afterwards
    <3>3. ASSUME NEW p \in projects, p.id # i
          PROVE  \/ call'[p.id].at = "done"
                 \/ /\ call'[p.id].op = "signup"
                    /\ call'[p.id].at \in {"verify", "secret", "truncate", "write", "store"}
      BY <2>a, <2>b, <3>3 DEF ProjectInv, At
    <3> QED
      BY <2>c, <3>1, <3>2, <3>3 DEF At
  <2>3. ASSUME NEW k \in Ids, At(k, "project")', NEW q \in projects', q.owner = call'[k].id
        PROVE  call'[k].raced /\ call'[q.id].raced
    <3>1. CASE k # i
      <4>1. At(k, "project") /\ call'[k] = call[k] /\ k \in Open
        BY <2>a, <2>3, <3>1 DEF At, Open
      <4>2. CASE q \in projects
        BY <2>a, <2>b, <2>3, <4>1, <4>2 DEF ProjectInv
      <4>3. CASE q \notin projects
        BY <2>a, <2>c, <3>1, <4>1, <4>3 DEF OverlapsMarked
      <4> QED
        BY <4>2, <4>3
    <3>2. CASE k = i
      <4>1. LookForProject(i)
        BY <1>3, <2>3, <3>2, Leads DEF Step, At
      <4>2. /\ call'[i].id = call[i].id /\ UNCHANGED projects
            /\ ~ \E p \in projects : p.owner = call[i].id
        BY <2>3, <3>2, <4>1, OwningMoves DEF LookForProject, At, Afterwards, rowVars
      <4> QED
        BY <2>3, <3>2, <4>2
    <3> QED
      BY <3>1, <3>2
  <2>4. ASSUME NEW p \in projects', NEW q \in projects', p.owner = q.owner, p # q
        PROVE  call'[p.id].raced /\ call'[q.id].raced
    <3>1. CASE p \in projects /\ q \in projects
      BY <2>a, <2>b, <2>4, <3>1 DEF ProjectInv
    <3>2. CASE p \notin projects
      BY <2>a, <2>b, <2>c, <2>d, <2>e, <2>4, <3>2 DEF ProjectInv
    <3>3. CASE q \notin projects
      BY <2>a, <2>b, <2>c, <2>d, <2>e, <2>4, <3>3 DEF ProjectInv
    <3> QED
      BY <3>1, <3>2, <3>3
  <2> QED
    BY <2>1, <2>2, <2>3, <2>4 DEF ProjectInv
<1> QED
  BY <1>1, <1>2, <1>3, StepOrArrival

\* The rows of sessions and the directories a step leaves.
LEMMA SessionsChange ==
  ASSUME AccountTypes, NEW i \in Ids, Step(i)
  PROVE  /\ \A s \in sessions' :
              \/ s \in sessions
              \/ /\ InsertSession(i) /\ s.id = i /\ s.project = call[i].of /\ s.by = call[i].id
                 /\ \E p \in projects : p.id = s.project /\ (IsRoot(call[i].id) \/ p.owner = s.by)
         /\ \A s, r \in sessions' : s = r \/ s \in sessions \/ r \in sessions
         /\ InsertSession(i) /\ call'[i].at = "folder" => \E s \in sessions' : s.id = i
         /\ \A s \in sessions \ sessions' :
              \/ MakeFolder(i) /\ s.id = i /\ folders' = folders
              \/ Cascade(i) /\ (s.by = call[i].of
                                \/ \E p \in projects : p.id = s.project /\ p.owner = call[i].of)
         /\ MakeFolder(i) => i \in folders' \/ \A s \in sessions' : s.id # i
         /\ \A f \in folders' : f \in folders \/ (MakeFolder(i) /\ f = i /\ sessions' = sessions)
         /\ \A f \in folders \ folders' :
              /\ Purge(i) /\ call'[i].at = "revoke"
              /\ \E s \in sessions : s.id = f /\ s.by = call[i].of
         /\ Purge(i) /\ call'[i].at = "revoke" =>
              \A s \in sessions : s.by = call[i].of => s.id \notin folders' \/ s.id \in kept'
         /\ kept \subseteq kept'
<1> USE DEF At
<1>1. CASE InsertSession(i)
  <2> DEFINE may == {p \in projects : p.id = call[i].of /\ (IsRoot(call[i].id) \/ p.owner = call[i].id)}
             new == [id |-> i, project |-> call[i].of, by |-> call[i].id]
  <2>1. folders' = folders /\ kept' = kept /\ ~MakeFolder(i) /\ ~Purge(i) /\ i \in Open /\ UNCHANGED calls
    BY <1>1 DEF InsertSession, MakeFolder, Purge, Open
  <2>2. CASE may # {} /\ sessions' = sessions \cup {new}
    <3>1. new.id = i /\ new.project = call[i].of /\ new.by = call[i].id
      OBVIOUS
    <3>2. \E p \in projects : p.id = call[i].of /\ (IsRoot(call[i].id) \/ p.owner = call[i].id)
      BY <2>2
    <3> HIDE DEF new, may
    <3> QED
      BY <1>1, <2>1, <2>2, <3>1, <3>2
  <2>3. CASE sessions' = sessions /\ Goes(i, "done")
    <3>1. call'[i].at = "done"
      BY <2>1, <2>3, GoesMoves DEF CallSteps
    <3> QED
      BY <2>1, <2>3, <3>1
  <2> QED
    BY <1>1, <2>2, <2>3 DEF InsertSession, Answered
<1>2. CASE MakeFolder(i)
  <2>1. ~InsertSession(i) /\ ~Purge(i)
    BY <1>2 DEF MakeFolder, InsertSession, Purge
  <2> QED
    BY <1>2, <2>1 DEF MakeFolder
<1>3. CASE Purge(i)
  <2> DEFINE gone == folders \cap {s.id : s \in {x \in sessions : x.by = call[i].of}}
  <2>1. /\ sessions' = sessions /\ ~InsertSession(i) /\ ~MakeFolder(i)
        /\ i \in Open /\ UNCHANGED calls
    BY <1>3 DEF Purge, InsertSession, MakeFolder, Open
  <2>2. CASE \E left \in SUBSET gone :
               folders' = (folders \ gone) \cup left /\ kept' = kept \cup left /\ Goes(i, "revoke")
    <3>1. call'[i].at = "revoke"
      BY <2>1, <2>2, GoesMoves DEF CallSteps
    <3> QED
      BY <1>3, <2>1, <2>2, <3>1
  <2>3. CASE folders' = folders /\ kept' = kept /\ Goes(i, "done")
    <3>1. call'[i].at = "done"
      BY <2>1, <2>3, GoesMoves DEF CallSteps
    <3> QED
      BY <2>1, <2>3, <3>1
  <2> QED
    BY <1>3, <2>2, <2>3 DEF Purge, Answered
<1>4. CASE Cascade(i)
  <2>1. folders' = folders /\ kept' = kept /\ ~InsertSession(i) /\ ~MakeFolder(i) /\ ~Purge(i)
    BY <1>4 DEF Cascade, InsertSession, MakeFolder, Purge
  <2>2. /\ sessions' \subseteq sessions
        /\ \A s \in sessions \ sessions' :
             s.by = call[i].of \/ \E p \in projects : p.id = s.project /\ p.owner = call[i].of
    BY <1>4 DEF Cascade
  <2> QED
    BY <1>4, <2>1, <2>2
<1>5. CASE ~InsertSession(i) /\ ~MakeFolder(i) /\ ~Purge(i) /\ ~Cascade(i)
  BY <1>5, Touches
<1> QED
  BY <1>1, <1>2, <1>3, <1>4, <1>5

LEMMA SessionKept ==
  ASSUME AccountTypes, CallsInv, OverlapsMarked, RootInv, RowsKnown, ProjectInv, SessionInv,
         [AccountsNext]_accountVars
  PROVE  SessionInv'
<1>1. CASE UNCHANGED accountVars
  BY <1>1 DEF accountVars, rowVars, SessionInv, Deletes, At
<1>2. CASE Arrives(calls + 1)
  <2>1. PICK n \in Ids : n = calls + 1 /\ Arrives(n)
    BY <1>2 DEF Arrives
  <2>2. /\ UNCHANGED <<projects, sessions, folders, kept>> /\ call[n].at = "none"
        /\ call'[n].at \notin {"folder", "revoke", "cascade"}
    BY <2>1 DEF Arrives, rowVars, NoCall, Entries
  <2>3. \A j \in Ids \ {n} : /\ call'[j].op = call[j].op /\ call'[j].at = call[j].at
                             /\ call'[j].email = call[j].email /\ call'[j].of = call[j].of
                             /\ (call[j].raced => call'[j].raced)
    BY <2>1 DEF Arrives
  <2>4. /\ \A s \in sessions : s.id \in Ids \ {n}
        /\ \A f \in folders : f \in Ids \ {n}
    BY <2>2 DEF SessionInv, AccountTypes, At
  <2>5. \A j \in Ids : \A id : Deletes(j, id)' <=> Deletes(j, id)
    BY <2>2, <2>3 DEF Deletes
  <2>6. \A j \in Ids : At(j, "folder")' => At(j, "folder") /\ j # n
    BY <2>2, <2>3 DEF At
  <2> QED
    BY <2>2, <2>3, <2>4, <2>5, <2>6 DEF SessionInv, At
<1>3. ASSUME NEW i \in Ids, Step(i) PROVE SessionInv'
  <2>a. /\ \A j \in Ids : j # i => call'[j] = call[j]
        /\ \A j \in Ids : /\ call'[j].op = call[j].op /\ call'[j].raced = call[j].raced
                          /\ call'[j].email = call[j].email /\ call'[j].of = call[j].of
        /\ i \in Open /\ CallInv(i) /\ ~At(i, "done") /\ Open \subseteq Ids
    BY <1>3, StepMoves, MovesAlone DEF CallsInv, Open, At
  <2>b. (\A p \in projects : p.id \in Ids) /\ (\A s \in sessions : s.id \in Ids) /\ folders \subseteq Ids
    BY DEF AccountTypes
  <2>c. InsertSession(i) => At(i, "row") /\ call[i].op = "session"
                            /\ call'[i].at \in {"folder", "done"}
    BY <1>3, <2>a, Leads DEF CallInv, At
  <2>d. MakeFolder(i) => At(i, "folder") /\ call[i].op = "session" /\ call'[i].at = "done"
    BY <1>3, <2>a, Leads DEF CallInv, At
  <2>e. \A s \in sessions' :
          s \in sessions \/ (/\ InsertSession(i) /\ s.id = i
                             /\ \E p \in projects : p.id = s.project
                                                    /\ (IsRoot(call[i].id) \/ p.owner = s.by))
    BY <1>3, SessionsChange
  <2>f. \A s \in sessions' \ sessions : call'[i].at = "folder"
    <3>1. InsertSession(i) /\ call'[i].at # "folder" => sessions' = sessions
      <4>1. ASSUME InsertSession(i), sessions' # sessions PROVE call'[i].at = "folder"
        <5>1. Goes(i, "folder") /\ UNCHANGED calls
          BY <4>1 DEF InsertSession
        <5> QED
          BY <2>a, <5>1, GoesMoves DEF CallSteps
      <4> QED
        BY <4>1
    <3> QED
      BY <2>e, <3>1
  <2>g. \A s \in sessions : At(i, "folder") \/ s.id # i
    BY <2>a DEF SessionInv
  <2>h. \A f \in folders : f # i
    BY <2>a DEF SessionInv
  <2>i. \A j \in Ids : \A id : j # i => (Deletes(j, id)' <=> Deletes(j, id))
    BY <2>a DEF Deletes
  <2>j. /\ Cascade(i) => Deletes(i, call[i].of)
        /\ \A id : Deletes(i, id) /\ ~Cascade(i) => Deletes(i, id)'
        /\ \A id : Deletes(i, id)' /\ ~Deletes(i, id) => /\ Purge(i) /\ call'[i].at = "revoke"
                                                         /\ id = call[i].of
        /\ \A id : Purge(i) /\ call'[i].at = "revoke" /\ id = call[i].of => Deletes(i, id)'
    <3>1. Cascade(i) => Deletes(i, call[i].of)
      BY <2>a DEF Cascade, At, CallInv, Deletes
    <3>2. ASSUME NEW id, Deletes(i, id), ~Cascade(i) PROVE Deletes(i, id)'
      <4>1. RevokeTokens(i)
        BY <1>3, <3>2, Leads DEF Step, Deletes, At
      <4>2. call'[i].at = "cascade"
        BY <3>2, <4>1, OwningMoves DEF Deletes
      <4> QED
        BY <2>a, <3>2, <4>2 DEF Deletes
    <3>3. ASSUME NEW id, Deletes(i, id)', ~Deletes(i, id)
          PROVE Purge(i) /\ call'[i].at = "revoke" /\ id = call[i].of
      <4>1. call[i].op = "delete" /\ id = call[i].of /\ call[i].at \notin {"revoke", "cascade"}
            /\ call'[i].at \in {"revoke", "cascade"}
        BY <2>a, <3>3 DEF Deletes
      <4>2. Purge(i) \/ SetPassword(i)
        BY <1>3, <4>1, Leads DEF Step, At
      <4>3. ~SetPassword(i)
        BY <2>a, <4>1 DEF SetPassword, CallInv
      <4> QED
        BY <1>3, <4>1, <4>2, <4>3, Leads
    <3>4. ASSUME NEW id, Purge(i), call'[i].at = "revoke", id = call[i].of PROVE Deletes(i, id)'
      BY <2>a, <3>4 DEF Purge, CallInv, Deletes, At
    <3> QED
      BY <3>1, <3>2, <3>3, <3>4
  <2>k. kept \subseteq kept'
    BY <1>3, SessionsChange
  <2>1. \A s, r \in sessions' : s # r => s.id # r.id
    <3>1. \A s, r \in sessions' : s = r \/ s \in sessions \/ r \in sessions
      BY <1>3, SessionsChange
    <3>2. \A s \in sessions' \ sessions : s.id = i /\ At(i, "row")
      BY <2>c, <2>e
    <3>3. At(i, "row") => \A s \in sessions : s.id # i
      BY <2>g DEF At
    <3> QED
      BY <3>1, <3>2, <3>3 DEF SessionInv
  <2>2. \A s \in sessions' :
          call'[s.id].at = "folder" \/ (call'[s.id].at = "done" /\ call[s.id].op = "session")
    <3>1. ASSUME NEW s \in sessions, s.id = i PROVE MakeFolder(i)
      BY <1>3, <2>g, <3>1, Leads DEF Step, At
    <3>2. \A s \in sessions : s.id # i => call'[s.id] = call[s.id]
      BY <2>a, <2>b
    <3> QED
      BY <2>d, <2>e, <2>f, <3>1, <3>2 DEF SessionInv, At
  <2>3. ASSUME NEW s \in sessions', NEW p \in projects', p.id = s.project
        PROVE  call[s.id].email = Root \/ p.owner = s.by
    <3>1. \E q \in projects : q.id = s.project
      BY <2>e DEF RowsKnown
    <3>2. p \in projects
      <4>1. p \in projects \/ (CreateProject(i) /\ p.id = i)
        BY <1>3, Touches, ProjectMade DEF Cascade
      <4>2. CreateProject(i) => \A q \in projects : q.id # i
        BY DEF CreateProject, ProjectInv, At
      <4> QED
        BY <2>3, <3>1, <4>1, <4>2
    <3>3. CASE s \in sessions
      BY <2>3, <3>2, <3>3 DEF SessionInv
    <3>4. CASE s \notin sessions
      BY <2>3, <2>e, <3>2, <3>4 DEF ProjectInv, RootInv
    <3> QED
      BY <3>3, <3>4
  <2>4. \A f \in folders' : call'[f].at = "done" /\ call[f].op = "session"
    <3>1. \A f \in folders' : f \in folders \/ (MakeFolder(i) /\ f = i)
      BY <1>3, SessionsChange
    <3>2. \A f \in folders : call'[f] = call[f]
      BY <2>a, <2>b, <2>h
    <3> QED
      BY <2>d, <3>1, <3>2 DEF SessionInv, At
  <2>5. ASSUME NEW s \in sessions'
        PROVE  s.id \in folders' \/ call'[s.id].at = "folder" \/ \E j \in Ids : Deletes(j, s.by)'
    <3>1. CASE s \notin sessions
      BY <2>e, <2>f, <3>1
    <3>2. CASE s \in sessions /\ s.id \in folders
      <4>1. CASE s.id \notin folders'
        <5>1. /\ Purge(i) /\ call'[i].at = "revoke"
              /\ \E x \in sessions : x.id = s.id /\ x.by = call[i].of
          BY <1>3, <3>2, <4>1, SessionsChange
        <5>2. s.by = call[i].of
          BY <3>2, <5>1 DEF SessionInv
        <5> QED
          BY <2>j, <5>1, <5>2
      <4> QED
        BY <4>1
    <3>3. CASE s \in sessions /\ At(s.id, "folder")
      <4>1. CASE s.id = i
        <5>1. MakeFolder(i)
          BY <1>3, <3>3, <4>1, Leads DEF Step, At
        <5> QED
          BY <1>3, <4>1, <5>1, SessionsChange
      <4> QED
        BY <2>a, <2>b, <3>3, <4>1 DEF At
    <3>4. CASE s \in sessions /\ \E j \in Ids : Deletes(j, s.by)
      <4>1. PICK j \in Ids : Deletes(j, s.by)
        BY <3>4
      <4>2. CASE j # i
        BY <2>i, <4>1, <4>2
      <4>3. CASE j = i
        <5>1. call[i].of = s.by
          BY <4>1, <4>3 DEF Deletes
        <5>2. ~Cascade(i)
          BY <5>1 DEF Cascade
        <5> QED
          BY <2>j, <4>1, <4>3, <5>2
      <4> QED
        BY <4>2, <4>3
    <3> QED
      BY <3>1, <3>2, <3>3, <3>4 DEF SessionInv
  <2>6. ASSUME NEW j \in Ids, NEW s \in sessions', Deletes(j, s.by)'
        PROVE  s.id \notin folders' \/ s.id \in kept' \/ call[s.id].raced
    <3>a. \A x : Deletes(j, x)' => call'[j].at \in {"revoke", "cascade"}
      BY DEF Deletes
    <3>b. j # i => j \in Open
      BY <2>6, <2>i DEF Deletes, Open
    <3>1. CASE s \notin sessions
      <4>1. s.id = i /\ j # i
        BY <2>6, <2>e, <2>f, <3>1, <3>a
      <4> QED
        BY <2>a, <3>b, <4>1 DEF OverlapsMarked
    <3>2. CASE s \in sessions /\ Deletes(j, s.by)
      <4>1. CASE s.id \notin folders /\ s.id \in folders'
        <5>1. MakeFolder(i) /\ s.id = i
          BY <1>3, <4>1, SessionsChange
        <5>2. j # i
          BY <2>d, <3>2, <5>1 DEF At, Deletes
        <5> QED
          BY <2>a, <3>b, <5>1, <5>2 DEF OverlapsMarked
      <4> QED
        BY <2>k, <3>2, <4>1 DEF SessionInv
    <3>3. CASE s \in sessions /\ ~Deletes(j, s.by)
      <4>1. j = i
        BY <2>6, <2>i, <3>3
      <4>2. Purge(i) /\ call'[i].at = "revoke" /\ s.by = call[i].of
        BY <2>6, <2>j, <3>3, <4>1
      <4> QED
        BY <1>3, <3>3, <4>2, SessionsChange
    <3> QED
      BY <3>1, <3>2, <3>3
  <2>7. ASSUME NEW k \in Ids, call'[k].at = "folder"
        PROVE  call[k].raced \/ \E s \in sessions' : s.id = k
    <3>1. CASE k = i
      <4>1. InsertSession(i)
        BY <1>3, <2>7, <3>1, Leads DEF Step
      <4> QED
        BY <1>3, <2>7, <3>1, <4>1, SessionsChange
    <3>2. CASE k # i
      <4>1. At(k, "folder") /\ k \in Open
        BY <2>7, <2>a, <3>2 DEF At, Open
      <4>2. CASE \E s \in sessions \ sessions' : s.id = k
        BY <2>a, <3>2, <4>1 DEF OverlapsMarked
      <4>3. CASE ~ \E s \in sessions \ sessions' : s.id = k
        BY <4>1, <4>3 DEF SessionInv
      <4> QED
        BY <4>2, <4>3
    <3> QED
      BY <3>1, <3>2
  <2>8. ASSUME NEW f \in folders'
        PROVE  (\E s \in sessions' : s.id = f) \/ call[f].email = Root \/ call[f].raced \/ f \in kept'
    <3>1. CASE f \notin folders
      <4>1. MakeFolder(i) /\ f = i /\ sessions' = sessions
        BY <1>3, <3>1, SessionsChange
      <4> QED
        BY <2>d, <4>1 DEF SessionInv
    <3>2. CASE \E s \in sessions \ sessions' : s.id = f /\ f \in folders
      <4>1. PICK s \in sessions \ sessions' : s.id = f /\ f \in folders
        BY <3>2
      <4>2. /\ Cascade(i)
            /\ (s.by = call[i].of \/ \E p \in projects : p.id = s.project /\ p.owner = call[i].of)
        BY <1>3, <2>h, <4>1, SessionsChange
      <4>3. CASE s.by = call[i].of
        BY <2>j, <2>k, <4>1, <4>2, <4>3 DEF SessionInv
      <4>4. CASE s.by # call[i].of
        BY <4>1, <4>2, <4>4 DEF SessionInv
      <4> QED
        BY <4>3, <4>4
    <3>3. CASE f \in folders /\ ~ \E s \in sessions \ sessions' : s.id = f
      BY <2>k, <3>3 DEF SessionInv
    <3> QED
      BY <3>1, <3>2, <3>3
  <2>9. \A s \in sessions' : call'[s.id].email = call[s.id].email /\ call'[s.id].raced = call[s.id].raced
                             /\ call'[s.id].op = call[s.id].op
    BY <2>a, <2>b, <2>e
  <2>10. \A f \in folders' : /\ call'[f].email = call[f].email /\ call'[f].raced = call[f].raced
                             /\ call'[f].op = call[f].op
    BY <1>3, <2>a, <2>b, SessionsChange
  <2> QED
    BY <2>1, <2>2, <2>3, <2>4, <2>5, <2>6, <2>7, <2>8, <2>9, <2>10, <2>a DEF SessionInv, At
<1> QED
  BY <1>1, <1>2, <1>3, StepOrArrival

LEMMA AccountsInitially == AccountsInit => AccountInv
<1> SUFFICES ASSUME AccountsInit PROVE AccountInv
  OBVIOUS
<1>1. /\ call = [i \in Ids |-> NoCall] /\ calls = 1 /\ forged = FALSE
      /\ projects = {} /\ sessions = {} /\ folders = {}
  BY DEF AccountsInit
<1>2. NoCall \in Calls /\ NoCall.at = "none" /\ NoCall.op = "none" /\ NoCall.id = 0
  BY AccountsAssumption DEF NoCall, Calls, Ops, CallSteps
<1>3. \A i \in Ids : call[i] = NoCall /\ i \in Nat
  BY <1>1, AccountsAssumption DEF Ids
<1>4. \/ secret = 0 /\ user = [e \in Emails |-> NoUser] /\ tokens = {}
      \/ /\ secret = 1 /\ user = [e \in Emails |-> IF e = Root THEN [id |-> 1, pw |-> Environ] ELSE NoUser]
         /\ tokens = {[id |-> 1, pw |-> Environ, key |-> 1, by |-> 1]}
  BY DEF AccountsInit
<1>a. Environ \in Nat \ {0}
  BY AccountsAssumption DEF Environ
<1>5. AccountTypes
  <2>1. secret \in Nat /\ user \in [Emails -> Users]
    BY <1>a, <1>4 DEF Users, NoUser
  <2>2. tokens \subseteq Tokens
    BY <1>a, <1>4 DEF Tokens
  <2>3. call \in [Ids -> Calls]
    BY <1>1, <1>2
  <2>4. forged \in BOOLEAN /\ calls \in Nat \ {0}
    <3>1. calls \in Nat \ {0}
      BY <1>1
    <3>2. forged \in BOOLEAN
      BY <1>1, Zenon
    <3> QED
      BY <3>1, <3>2
  <2>5. /\ \A p \in projects : p.id \in Ids
        /\ \A s \in sessions : s.id \in Ids
        /\ folders \subseteq Ids
    BY <1>1
  <2> QED
    BY <2>1, <2>2, <2>3, <2>4, <2>5 DEF AccountTypes
<1>6. CallsInv /\ OverlapsMarked
  BY <1>2, <1>3 DEF CallsInv, CallInv, OverlapsMarked, Open, At
<1>7. SecretInv
  BY <1>2, <1>3, <1>4 DEF SecretInv, At
<1>8. UserInv
  BY <1>a, <1>2, <1>3, <1>4 DEF UserInv, Born, NoUser
<1>b. RootInv
  BY <1>3, <1>4, AccountsAssumption DEF RootInv, IsRoot, NoUser, NoCall, Ids
<1>9. RowsKnown
  BY <1>1, <1>4, AccountsAssumption DEF RowsKnown, Known
<1>10. PasswordInv
  BY <1>2, <1>3, <1>4 DEF PasswordInv, Holding, LogsIn, NoUser
<1>11. ProjectInv /\ SessionInv
  BY <1>1, <1>2, <1>3 DEF ProjectInv, SessionInv, At, Deletes
<1> QED
  BY <1>5, <1>6, <1>7, <1>8, <1>b, <1>9, <1>10, <1>11 DEF AccountInv

\* The invariant of accounts, over all interleavings of requests (server/auth.py;
\* server/app.py 776-1043, 1783-1847, 5718-5866).
THEOREM AccountInvariant == AccountsSpec => []AccountInv
<1>1. AccountsInit => AccountInv
  BY AccountsInitially
<1>2. AccountInv /\ [AccountsNext]_accountVars => AccountInv'
  BY AccountTypesKept, OverlapsKept, CallsKept, SecretKept, UserKept, RootKept, RowsKept, PasswordKept,
     ProjectKept, SessionKept DEF AccountInv
<1> QED
  BY <1>1, <1>2, PTL DEF AccountsSpec

\* A token that was handed out is accepted by the next request, unless two requests wrote
\* a secret at once; and is for the password in force, unless a request overlapped with the
\* reset of it, or it is for the password root has in the environment (auth.py 18, 205, 234).
THEOREM TokensHoldAlways == AccountsSpec => []TokensHold
<1>1. AccountInv => TokensHold
  <2> SUFFICES ASSUME AccountInv, NEW t \in tokens
               PROVE  /\ t.key = secret \/ forged
                      /\ \A e \in Emails : user[e].id = t.id =>
                           \/ t.pw = user[e].pw
                           \/ e = Root /\ t.pw = Environ
                           \/ \E i \in Ids : call[i].op = "reset" /\ call[i].of = t.id
                                             /\ (i \in Open \/ call[i].raced)
    BY DEF TokensHold
  <2>1. t.key = secret \/ forged
    BY DEF AccountInv, SecretInv
  <2>2. \A j \in Ids : At(j, "revoke") => j \in Open
    BY DEF At, Open
  <2>3. \A e \in Emails : user[e].id = t.id =>
          \/ LogsIn(e, user[e], t.pw)
          \/ \E j \in Ids : Resets(j, t.id) /\ (call[j].raced \/ At(j, "revoke"))
    BY DEF AccountInv, PasswordInv
  <2> QED
    BY <2>1, <2>2, <2>3 DEF Resets, LogsIn
<1> QED
  BY <1>1, AccountInvariant, PTL

\* Requests that did not overlap leave each user one default project, each session its
\* directory and each directory its session (app.py 875, 1823), but for those that root made
\* in a project of somebody who was deleted, and those that could not be removed.
THEOREM OwnedApartAlways == AccountsSpec => []OwnedApart
<1>1. AccountInv => OwnedApart
  <2> SUFFICES ASSUME AccountInv PROVE OwnedApart
    OBVIOUS
  <2>1. \A p, q \in projects : p.owner = q.owner /\ p # q => call[p.id].raced /\ call[q.id].raced
    BY DEF AccountInv, ProjectInv
  <2>2. \A j \in Ids : \A id : Deletes(j, id) => j \in Open /\ call[j].op = "delete"
    BY DEF Deletes, Open
  <2>3. \A s \in sessions : At(s.id, "folder") => s.id \in Open
    BY DEF AccountInv, AccountTypes, At, Open
  <2>4. \A s \in sessions : s.id \in folders \cup Open \/ \E i \in Open : call[i].op = "delete"
    BY <2>2, <2>3 DEF AccountInv, SessionInv
  <2>5. \A f \in folders : \/ \E s \in sessions : s.id = f
                           \/ call[f].email = Root \/ call[f].raced \/ f \in kept
    BY DEF AccountInv, SessionInv
  <2> QED
    BY <2>1, <2>4, <2>5 DEF OwnedApart
<1> QED
  BY <1>1, AccountInvariant, PTL

\* Secrets, users and passwords are named after the requests that made them.
Bounded ==
  /\ secret \in 0 .. MaxCalls
  /\ \A e \in Emails : user[e].id \in 0 .. MaxCalls /\ user[e].pw \in 0 .. Environ

\* The tables keep their types, and no row points at one that is gone.
THEOREM AccountTypesHold == AccountsSpec => []AccountsTypeOK
<1>1. AccountsInit => Bounded
  BY AccountsAssumption DEF AccountsInit, Bounded, NoUser, Environ
<1>2. AccountInv /\ Bounded /\ [AccountsNext]_accountVars => Bounded'
  <2> SUFFICES ASSUME AccountInv, Bounded, [AccountsNext]_accountVars PROVE Bounded'
    OBVIOUS
  <2>0. AccountTypes /\ CallsInv
    BY DEF AccountInv
  <2>1. CASE UNCHANGED <<secret, user>>
    BY <2>1 DEF Bounded
  <2>2. ASSUME NEW i \in Ids, Step(i) PROVE Bounded'
    <3>1. /\ i \in 0 .. MaxCalls /\ 0 \in 0 .. MaxCalls
          /\ i \in 0 .. Environ /\ 0 \in 0 .. Environ /\ Environ \in 0 .. Environ
      BY AccountsAssumption DEF Ids, Environ
    <3>2. secret' \in {0, i, secret}
      BY <2>2, Touches DEF TruncateSecret, WriteSecret
    <3>3. ASSUME NEW e \in Emails PROVE user'[e].id \in 0 .. MaxCalls /\ user'[e].pw \in 0 .. Environ
      <4>1. user'[e].id \in {0, i, user[e].id} /\ user'[e].pw \in {0, i, Environ, user[e].pw}
        <5>1. CASE user' = [user EXCEPT ![call[i].email] = [id |-> i, pw |-> FirstPassword(i)]]
          BY <2>0, <5>1 DEF AccountTypes, FirstPassword
        <5>2. CASE user'[e] = NoUser \/ user'[e] = user[e]
          BY <5>2 DEF NoUser
        <5>3. CASE user'[e].id = user[e].id /\ user'[e].pw = i
          BY <5>3
        <5> QED
          BY <2>0, <2>2, <5>1, <5>2, <5>3, UserChanges
      <4> QED
        BY <3>1, <4>1 DEF Bounded
    <3> QED
      BY <3>1, <3>2, <3>3 DEF Bounded
  <2>3. CASE Arrives(calls + 1)
    BY <2>1, <2>3 DEF Arrives, rowVars
  <2>4. CASE UNCHANGED accountVars
    BY <2>1, <2>4 DEF accountVars, rowVars
  <2> QED
    BY <2>0, <2>2, <2>3, <2>4, StepOrArrival
<1>3. AccountInv /\ Bounded => AccountsTypeOK
  BY DEF AccountInv, Bounded, AccountTypes, RowsKnown, AccountsTypeOK
<1> QED
  BY <1>1, <1>2, <1>3, AccountInvariant, PTL DEF AccountsSpec
-----------------------------------------------------------------------------
(***************************************************************************)
(* Sub-agents.  While nothing was spoiled, one thread at a time is between   *)
(* opening the manifest and leaving it, and who has written it has written it *)
(* last.                                                                       *)
(***************************************************************************)
SubTypes ==
  /\ SubTypeOK
  /\ worker \in {"opened", "wrote"} => goal \in Terminal
  /\ result => worker = "gone"
  /\ manifest = "none" => worker = "none"
  /\ exc => dog = "gone"

WritersApart ==
  /\ worker = "opened" => manifest = "" /\ dog \in {"none", "missing", "asleep", "checking"}
  /\ dog = "opened" => manifest = "" /\ worker = "running"
  /\ manifest \in Terminal => worker \in {"wrote", "gone"} \/ dog \in {"wrote", "gone"}
  /\ worker = "wrote" \/ result => manifest = goal

SubInv == SubTypes /\ (~spoiled => WritersApart)

LEMMA SubInitially == SubInit => SubInv
<1> SUFFICES ASSUME SubInit PROVE SubInv
  OBVIOUS
<1>1. SubTypeOK
  BY SubAgentAssumption DEF SubInit, SubTypeOK, Terminal
<1>2. WritersApart
  BY DEF SubInit, WritersApart, Terminal
<1>3. ~result /\ ~exc /\ worker = "none"
  BY DEF SubInit
<1> QED
  BY <1>1, <1>2, <1>3 DEF SubInv, SubTypes

LEMMA SubTypesStay == SubTypes /\ [SubNext]_subVars => SubTypes'
<1> SUFFICES ASSUME SubTypes, [SubNext]_subVars PROVE SubTypes'
  OBVIOUS
<1> DEFINE Clocks == idle \in 0 .. IdleBudget /\ age \in 0 .. TotalBudget
           States == /\ manifest \in {"none", "", "running", "garbled"} \cup Terminal
                     /\ worker \in {"none", "running", "opened", "wrote", "gone"}
                     /\ dog \in {"none", "missing", "asleep", "checking", "opened", "wrote", "gone"}
                     /\ worker \in {"opened", "wrote"} => goal \in Terminal
                     /\ manifest = "none" => worker = "none"
           Results == result => goal = "completed" /\ worker = "gone"
           Strikes == exc => dog = "gone"
<1>0. Clocks /\ States /\ Results /\ Strikes
  BY DEF SubTypes, SubTypeOK
<1>1. Clocks'
  <2>0. idle \in 0 .. IdleBudget /\ age \in 0 .. TotalBudget
    BY <1>0
  <2>1. idle' = 0 \/ idle' = idle \/ (idle < IdleBudget /\ idle' = idle + 1)
    BY DEF SubNext, subVars, SpawnAgent, StartWatchdog, Progress, WorkerOpens, WorkerWrites,
      WorkerWriteFails, WorkerEnds, Interrupted, Wakes, Checks, WatchdogWrites, Interrupts,
      WatchdogWriteFails, Tick
  <2>2. age' = 0 \/ age' = age \/ (age < TotalBudget /\ age' = age + 1)
    BY DEF SubNext, subVars, SpawnAgent, StartWatchdog, Progress, WorkerOpens, WorkerWrites,
      WorkerWriteFails, WorkerEnds, Interrupted, Wakes, Checks, WatchdogWrites, Interrupts,
      WatchdogWriteFails, Tick
  <2>3. IdleBudget \in Nat /\ TotalBudget \in Nat
    BY SubAgentAssumption
  <2>4. idle' \in 0 .. IdleBudget
    BY <2>0, <2>1, <2>3
  <2>5. age' \in 0 .. TotalBudget
    BY <2>0, <2>2, <2>3
  <2> QED
    BY <2>4, <2>5
<1>2. States'
  <2> USE <1>0 DEF Terminal
  <2>1. CASE SpawnAgent
    BY <2>1 DEF SpawnAgent
  <2>2. CASE StartWatchdog \/ Progress \/ Tick
    BY <2>2 DEF StartWatchdog, Progress, Tick
  <2>3. CASE WorkerOpens
    BY <2>3 DEF WorkerOpens
  <2>4. CASE WorkerWrites
    BY <2>4 DEF WorkerWrites, Written
  <2>5. CASE WorkerWriteFails
    BY <2>5 DEF WorkerWriteFails
  <2>6. CASE WorkerEnds \/ Interrupted
    BY <2>6 DEF WorkerEnds, Interrupted
  <2>7. CASE Wakes
    BY <2>7 DEF Wakes, NotYetDone
  <2>8. CASE Checks
    BY <2>8 DEF Checks
  <2>9. CASE WatchdogWrites
    BY <2>9 DEF WatchdogWrites, Written
  <2>10. CASE Interrupts \/ WatchdogWriteFails \/ UNCHANGED subVars
    BY <2>10 DEF Interrupts, WatchdogWriteFails, subVars
  <2> QED
    BY <2>1, <2>2, <2>3, <2>4, <2>5, <2>6, <2>7, <2>8, <2>9, <2>10 DEF SubNext
<1>3. Results'
  <2>1. CASE SpawnAgent
    <3>1. worker = "none" /\ result' = result
      BY <1>0, <2>1 DEF SpawnAgent
    <3> QED
      BY <1>0, <3>1
  <2>2. CASE WorkerOpens \/ WorkerWrites \/ WorkerWriteFails
    <3>1. worker # "gone" /\ result' = result
      BY <2>2 DEF WorkerOpens, WorkerWrites, WorkerWriteFails
    <3> QED
      BY <1>0, <3>1
  <2>3. CASE WorkerEnds
    BY <2>3 DEF WorkerEnds
  <2>4. CASE Interrupted
    BY <1>0, <2>4 DEF Interrupted
  <2>5. CASE UNCHANGED <<worker, goal, result>>
    BY <1>0, <2>5
  <2>6. \/ SpawnAgent \/ WorkerOpens \/ WorkerWrites \/ WorkerWriteFails \/ Interrupted
        \/ WorkerEnds \/ UNCHANGED <<worker, goal, result>>
    BY DEF SubNext, subVars, StartWatchdog, Progress, Wakes, Checks, WatchdogWrites, Interrupts,
      WatchdogWriteFails, Tick
  <2> QED
    BY <2>1, <2>2, <2>3, <2>4, <2>5, <2>6
<1>4. Strikes'
  <2>1. CASE Interrupts
    BY <2>1 DEF Interrupts
  <2>2. CASE dog # "gone" /\ exc' = exc
    BY <1>0, <2>2
  <2>3. CASE UNCHANGED <<dog, exc>>
    BY <1>0, <2>3
  <2>4. Interrupts \/ (dog # "gone" /\ exc' = exc) \/ UNCHANGED <<dog, exc>>
    BY DEF SubNext, subVars, SpawnAgent, StartWatchdog, Progress, WorkerOpens, WorkerWrites,
      WorkerWriteFails, WorkerEnds, Interrupted, Wakes, Checks, WatchdogWrites,
      WatchdogWriteFails, Tick
  <2> QED
    BY <2>1, <2>2, <2>3, <2>4
<1> QED
  BY <1>1, <1>2, <1>3, <1>4 DEF SubTypes, SubTypeOK

LEMMA SubStays == SubInv /\ [SubNext]_subVars => SubInv'
<1> SUFFICES ASSUME SubInv, [SubNext]_subVars PROVE SubInv'
  OBVIOUS
<1>1. SubTypes /\ SubTypes'
  BY SubTypesStay DEF SubInv
<1>2. ASSUME ~spoiled' PROVE WritersApart'
  <2>0. WritersApart
    <3>1. ~spoiled
      BY <1>2 DEF SubNext, subVars, SpawnAgent, StartWatchdog, Progress, WorkerOpens,
        WorkerWrites, WorkerWriteFails, WorkerEnds, Interrupted, Wakes, Checks, WatchdogWrites,
        Interrupts, WatchdogWriteFails, Tick
    <3> QED
      BY <3>1 DEF SubInv
  <2>a. worker \in {"opened", "wrote"} => goal \in Terminal
    BY <1>1 DEF SubTypes
  <2>b. /\ worker \in {"none", "running", "opened", "wrote", "gone"}
        /\ dog \in {"none", "missing", "asleep", "checking", "opened", "wrote", "gone"}
        /\ result => goal = "completed" /\ worker = "gone"
    BY <1>1 DEF SubTypes, SubTypeOK
  <2>c. exc => dog = "gone"
    BY <1>1 DEF SubTypes
  <2> USE <2>0, <2>a, <2>b DEF WritersApart, Terminal
  <2>1. CASE SpawnAgent
    BY <2>1 DEF SpawnAgent
  <2>2. CASE StartWatchdog
    BY <2>2 DEF StartWatchdog
  <2>3. CASE WorkerOpens
    <3>1. dog \notin {"opened", "wrote", "gone"}
      BY <1>2, <2>3 DEF WorkerOpens
    <3> QED
      BY <2>3, <3>1 DEF WorkerOpens
  <2>4. CASE WorkerWrites
    BY <2>4 DEF WorkerWrites, Written
  <2>5. CASE WorkerWriteFails
    BY <1>2, <2>5 DEF WorkerWriteFails
  <2>6. CASE WorkerEnds
    BY <2>6 DEF WorkerEnds
  <2>7. CASE Interrupted
    <3>1. worker # "opened"
      BY <1>2, <2>7 DEF Interrupted
    <3>2. dog # "opened"
      BY <2>7, <2>c DEF Interrupted
    <3> QED
      BY <2>7, <3>1, <3>2 DEF Interrupted
  <2>8. CASE Wakes
    BY <2>8 DEF Wakes, NotYetDone
  <2>9. CASE Checks
    <3>1. CASE Tripped
      <4>1. worker = "running"
        BY <1>2, <2>9, <3>1 DEF Checks
      <4> QED
        BY <2>9, <3>1, <4>1 DEF Checks
    <3>2. CASE ~Tripped
      BY <2>9, <3>2 DEF Checks
    <3> QED
      BY <3>1, <3>2
  <2>10. CASE WatchdogWrites
    BY <2>10 DEF WatchdogWrites, Written
  <2>11. CASE Interrupts
    BY <2>11 DEF Interrupts
  <2>12. CASE WatchdogWriteFails
    BY <1>2, <2>12 DEF WatchdogWriteFails
  <2>13. CASE Progress \/ Tick \/ UNCHANGED subVars
    <3>1. UNCHANGED <<manifest, worker, goal, result, dog>>
      BY <2>13 DEF Progress, Tick, subVars
    <3> QED
      BY <3>1
  <2> QED
    BY <2>1, <2>2, <2>3, <2>4, <2>5, <2>6, <2>7, <2>8, <2>9, <2>10, <2>11, <2>12, <2>13
      DEF SubNext
<1> QED
  BY <1>1, <1>2 DEF SubInv

\* The invariant of a sub-agent's threads.
THEOREM SubInvariant == SubSpec => []SubInv
BY SubInitially, SubStays, PTL DEF SubSpec

\* A status that is final stays final, whichever thread goes on, unless a write failed, was
\* interrupted, or both threads wrote: the half of SubAgentSettles that is no liveness.
SettledStays ==
  [][(manifest \in Terminal) => (manifest' \in Terminal \/ spoiled')]_subVars

THEOREM SettledStaysHolds == SubSpec => SettledStays
<1>1. SubInv /\ SubInv' /\ [SubNext]_subVars
        => [(manifest \in Terminal) => (manifest' \in Terminal \/ spoiled')]_subVars
  <2> SUFFICES ASSUME SubInv, SubInv', SubNext, manifest \in Terminal, ~spoiled'
               PROVE  manifest' \in Terminal
    OBVIOUS
  <2>1. WritersApart
    <3>1. ~spoiled
      BY DEF SubNext, SpawnAgent, StartWatchdog, Progress, WorkerOpens, WorkerWrites,
        WorkerWriteFails, WorkerEnds, Interrupted, Wakes, Checks, WatchdogWrites, Interrupts,
        WatchdogWriteFails, Tick
    <3> QED
      BY <3>1 DEF SubInv
  <2>2. manifest \notin {"", "none"}
    BY DEF Terminal
  <2>3. worker # "opened" /\ dog # "opened"
    BY <2>1, <2>2 DEF WritersApart
  <2>4. worker \in {"wrote", "gone"} \/ dog \in {"wrote", "gone"}
    BY <2>1 DEF WritersApart
  <2>5. ~WorkerOpens
    <3>1. WorkerOpens => worker = "running" /\ ~(dog \in {"opened", "wrote", "gone"})
      BY DEF WorkerOpens
    <3> QED
      BY <2>4, <3>1
  <2>6. ASSUME Checks, Tripped PROVE FALSE
    <3>1. worker = "running" /\ dog = "checking"
      BY <2>6 DEF Checks
    <3> QED
      BY <2>4, <3>1
  <2>7. manifest' = manifest
    BY <2>2, <2>3, <2>5, <2>6 DEF SubNext, SpawnAgent, StartWatchdog, Progress, WorkerWrites,
      WorkerWriteFails, WorkerEnds, Interrupted, Wakes, Checks, WatchdogWrites, Interrupts,
      WatchdogWriteFails, Tick
  <2> QED
    BY <2>7
<1> QED
  BY <1>1, SubInvariant, PTL DEF SubSpec, SettledStays

\* A result in outputFile is of a sub-agent whose manifest, which get_agent_status reads,
\* says "completed", with the same exceptions.
ResultTold == result => manifest = "completed" \/ spoiled

THEOREM ResultToldHolds == SubSpec => []ResultTold
<1>1. SubInv => ResultTold
  BY DEF SubInv, SubTypes, SubTypeOK, WritersApart, ResultTold
<1> QED
  BY <1>1, SubInvariant, PTL

-----------------------------------------------------------------------------
(***************************************************************************)
(* Inline reasoning.  However a text is cut into chunks, the panes show it as   *)
(* reading it at once would.  Two facts carry it: a tag is made of the same       *)
(* symbols wherever it stands and no two tags have a place in common, so that the   *)
(* tags of the buffer are the tags of the text that lie in it; and a tag that has     *)
(* begun is held back whole, from its angle on.                                         *)
(***************************************************************************)
\* The word of a tag: at least one letter, no angle, slash or blank.
LEMMA Letters ==
  /\ Len(Word) \in Nat /\ Len(Word) >= 1 /\ DOMAIN Word = 1 .. Len(Word)
  /\ \A n \in 1 .. Len(Word) : Word[n] \notin {"<", "/", ">", Blank}
BY TextAssumption

\* A tag is a pair of places of the text.
LEMMA TagIs ==
  ASSUME NEW s \in Seq(STRING), NEW t \in Tags(s)
  PROVE  /\ t = <<t[1], t[2]>> /\ t[1] \in 1 .. Len(s) /\ t[2] \in 1 .. Len(s) /\ t[1] < t[2]
         /\ IsTag(s, t[1], t[2])
BY DEF Tags

\* Between the angles of a tag there is no angle.
LEMMA NoAngleWithin ==
  ASSUME NEW s \in Seq(STRING), NEW i \in 1 .. Len(s), NEW j \in 1 .. Len(s), IsTag(s, i, j)
  PROVE  /\ s[i] = "<" /\ s[j] = ">"
         /\ \A m \in i + 1 .. j - 1 : s[m] \notin {"<", ">"}
<1>1. s[i] = "<" /\ s[j] = ">"
  BY DEF IsTag
<1>2. PICK k \in i + 1 .. j - Len(Word) :
        /\ \A n \in DOMAIN Word : s[k + n - 1] = Word[n]
        /\ Blanks(s, k + Len(Word), j - 1)
        /\ \/ Blanks(s, i + 1, k - 1)
           \/ \E m \in i + 1 .. k - 1 : s[m] = "/" /\ Blanks(s, i + 1, m - 1) /\ Blanks(s, m + 1, k - 1)
  BY DEF IsTag
<1>3. ASSUME NEW m \in i + 1 .. j - 1 PROVE s[m] \notin {"<", ">"}
  <2>0. Blank \notin {"<", ">"}
    BY DEF Blank
  <2>1. CASE m < k
    <3>1. s[m] = Blank \/ s[m] = "/"
      BY <1>2, <2>1, Letters DEF Blanks
    <3> QED
      BY <2>0, <3>1
  <2>2. CASE k <= m /\ m < k + Len(Word)
    <3>1. m - k + 1 \in 1 .. Len(Word) /\ k + (m - k + 1) - 1 = m
      BY <2>2, Letters
    <3>2. s[m] = Word[m - k + 1]
      BY <1>2, <3>1, Letters
    <3> QED
      BY <3>1, <3>2, Letters
  <2>3. CASE k + Len(Word) <= m
    <3>1. s[m] = Blank
      BY <1>2, <2>3, Letters DEF Blanks
    <3> QED
      BY <2>0, <3>1
  <2> QED
    BY <2>1, <2>2, <2>3, Letters
<1> QED
  BY <1>1, <1>3

\* Two tags have no place in common.
LEMMA TagsApart ==
  ASSUME NEW s \in Seq(STRING), NEW t \in Tags(s), NEW u \in Tags(s)
  PROVE  t = u \/ t[2] < u[1] \/ u[2] < t[1]
<1>1. ASSUME NEW a \in Tags(s), NEW b \in Tags(s), a[1] <= b[1], ~(a[2] < b[1])
      PROVE  a = b
  <2>1. /\ a = <<a[1], a[2]>> /\ a[1] \in 1 .. Len(s) /\ a[2] \in 1 .. Len(s) /\ a[1] < a[2]
        /\ b = <<b[1], b[2]>> /\ b[1] \in 1 .. Len(s) /\ b[2] \in 1 .. Len(s) /\ b[1] < b[2]
        /\ IsTag(s, a[1], a[2]) /\ IsTag(s, b[1], b[2])
    BY TagIs
  <2>2. /\ s[a[1]] = "<" /\ s[a[2]] = ">" /\ \A m \in a[1] + 1 .. a[2] - 1 : s[m] \notin {"<", ">"}
    BY <2>1, NoAngleWithin
  <2>3. /\ s[b[1]] = "<" /\ s[b[2]] = ">" /\ \A m \in b[1] + 1 .. b[2] - 1 : s[m] \notin {"<", ">"}
    BY <2>1, NoAngleWithin
  <2>4. b[1] # a[2]
    BY <2>2, <2>3
  <2>5. a[1] = b[1]
    <3>1. b[1] \notin a[1] + 1 .. a[2] - 1
      BY <2>2, <2>3
    <3> QED
      BY <1>1, <2>1, <2>4, <3>1
  <2>6. a[2] = b[2]
    <3>1. a[2] \notin b[1] + 1 .. b[2] - 1
      BY <2>2, <2>3
    <3>2. b[2] \notin a[1] + 1 .. a[2] - 1
      BY <2>2, <2>3
    <3> QED
      BY <2>1, <2>5, <3>1, <3>2
  <2> QED
    BY <2>1, <2>5, <2>6
<1>2. t[1] \in Int /\ u[1] \in Int
  BY TagIs
<1>3. CASE t[1] <= u[1]
  BY <1>1, <1>3
<1>4. CASE u[1] <= t[1]
  BY <1>1, <1>4
<1> QED
  BY <1>2, <1>3, <1>4

\* A tag is a tag wherever its symbols stand.
LEMMA TagMoves ==
  ASSUME NEW r, NEW s, NEW a \in Int, NEW i \in Int, NEW j \in Int,
         \A m \in i .. j : s[a + m] = r[m], i < j, IsTag(r, i, j)
  PROVE  IsTag(s, a + i, a + j)
<1>1. s[a + i] = "<" /\ s[a + j] = ">"
  BY DEF IsTag
<1>2. PICK k \in i + 1 .. j - Len(Word) :
        /\ \A n \in DOMAIN Word : r[k + n - 1] = Word[n]
        /\ Blanks(r, k + Len(Word), j - 1)
        /\ \/ Blanks(r, i + 1, k - 1)
           \/ \E m \in i + 1 .. k - 1 : r[m] = "/" /\ Blanks(r, i + 1, m - 1) /\ Blanks(r, m + 1, k - 1)
  BY DEF IsTag
<1>3. ASSUME NEW x \in Int, NEW y \in Int, i <= x, y <= j, Blanks(r, x, y)
      PROVE  Blanks(s, a + x, a + y)
  <2>1. SUFFICES ASSUME NEW m \in a + x .. a + y PROVE s[m] = Blank
    BY DEF Blanks
  <2>2. m - a \in x .. y /\ m - a \in i .. j /\ a + (m - a) = m
    BY <1>3
  <2> QED
    BY <1>3, <2>2 DEF Blanks
<1>4. \A n \in DOMAIN Word : s[(a + k) + n - 1] = Word[n]
  <2>1. SUFFICES ASSUME NEW n \in DOMAIN Word PROVE s[a + k + n - 1] = Word[n]
    OBVIOUS
  <2>2. k + n - 1 \in i .. j /\ a + (k + n - 1) = a + k + n - 1
    BY Letters
  <2> QED
    BY <1>2, <2>2
<1>5. Blanks(s, a + k + Len(Word), a + j - 1)
  <2>1. Blanks(s, a + (k + Len(Word)), a + (j - 1))
    BY <1>2, <1>3, Letters
  <2>2. a + (k + Len(Word)) = a + k + Len(Word) /\ a + (j - 1) = a + j - 1
    BY Letters
  <2> QED
    BY <2>1, <2>2
<1>6. \/ Blanks(s, a + i + 1, a + k - 1)
      \/ \E m \in a + i + 1 .. a + k - 1 :
           s[m] = "/" /\ Blanks(s, a + i + 1, m - 1) /\ Blanks(s, m + 1, a + k - 1)
  <2>0. a + (i + 1) = a + i + 1 /\ a + (k - 1) = a + k - 1 /\ k - 1 <= j
    BY Letters
  <2>1. CASE Blanks(r, i + 1, k - 1)
    <3>1. Blanks(s, a + (i + 1), a + (k - 1))
      BY <1>3, <2>0, <2>1
    <3> QED
      BY <2>0, <3>1
  <2>2. ASSUME NEW m \in i + 1 .. k - 1, r[m] = "/", Blanks(r, i + 1, m - 1), Blanks(r, m + 1, k - 1)
        PROVE  \E e \in a + i + 1 .. a + k - 1 :
                 s[e] = "/" /\ Blanks(s, a + i + 1, e - 1) /\ Blanks(s, e + 1, a + k - 1)
    <3>1. Blanks(s, a + (i + 1), a + (m - 1)) /\ Blanks(s, a + (m + 1), a + (k - 1))
      BY <1>3, <2>0, <2>2, Letters
    <3>2. a + (m - 1) = (a + m) - 1 /\ a + (m + 1) = (a + m) + 1 /\ a + m \in a + i + 1 .. a + k - 1
      OBVIOUS
    <3>3. m \in i .. j
      BY <2>0
    <3> QED
      BY <2>0, <2>2, <3>1, <3>2, <3>3
  <2> QED
    BY <1>2, <2>1, <2>2
<1>7. a + k \in a + i + 1 .. a + j - Len(Word)
  BY Letters
<1>8. \E e \in a + i + 1 .. a + j - Len(Word) :
        /\ \A n \in DOMAIN Word : s[e + n - 1] = Word[n]
        /\ Blanks(s, e + Len(Word), a + j - 1)
        /\ \/ Blanks(s, a + i + 1, e - 1)
           \/ \E m \in a + i + 1 .. e - 1 :
                s[m] = "/" /\ Blanks(s, a + i + 1, m - 1) /\ Blanks(s, m + 1, e - 1)
  <2>1. PICK e \in a + i + 1 .. a + j - Len(Word) : e = a + k
    BY <1>7
  <2>2. \A n \in DOMAIN Word : s[e + n - 1] = Word[n]
    BY <1>4, <2>1
  <2>3. Blanks(s, e + Len(Word), a + j - 1)
    BY <1>5, <2>1
  <2>4. \/ Blanks(s, a + i + 1, e - 1)
        \/ \E m \in a + i + 1 .. e - 1 :
             s[m] = "/" /\ Blanks(s, a + i + 1, m - 1) /\ Blanks(s, m + 1, e - 1)
    BY <1>6, <2>1
  <2> QED
    BY <2>2, <2>3, <2>4, Zenon
<1> QED
  <2>1. \A x, y : x = a + i /\ y = a + j => IsTag(s, x, y)
    <3> SUFFICES ASSUME NEW x, NEW y, x = a + i, y = a + j PROVE IsTag(s, x, y)
      OBVIOUS
    <3>1. s[x] = "<" /\ s[y] = ">"
      BY <1>1
    <3>2. \E e \in x + 1 .. y - Len(Word) :
             /\ \A n \in DOMAIN Word : s[e + n - 1] = Word[n]
             /\ Blanks(s, e + Len(Word), y - 1)
             /\ \/ Blanks(s, x + 1, e - 1)
                \/ \E m \in x + 1 .. e - 1 :
                     s[m] = "/" /\ Blanks(s, x + 1, m - 1) /\ Blanks(s, m + 1, e - 1)
      BY <1>8
    <3> QED
      BY <3>1, <3>2, Zenon DEF IsTag
  <2> QED
    BY <2>1

\* The tags of a part are the tags of the whole that lie in it.
LEMMA TagsOfPart ==
  ASSUME NEW s \in Seq(STRING), NEW r \in Seq(STRING), NEW a \in Nat,
         a + Len(r) <= Len(s), \A m \in 1 .. Len(r) : r[m] = s[a + m],
         NEW i \in 1 .. Len(r), NEW j \in 1 .. Len(r)
  PROVE  /\ <<i, j>> \in Tags(r) <=> <<a + i, a + j>> \in Tags(s)
         /\ i < j => (Shuts(r, <<i, j>>) <=> Shuts(s, <<a + i, a + j>>))
<1>0. Len(s) \in Nat /\ Len(r) \in Nat /\ DOMAIN s = 1 .. Len(s) /\ DOMAIN r = 1 .. Len(r)
  OBVIOUS
<1>1. a + i \in 1 .. Len(s) /\ a + j \in 1 .. Len(s) /\ (i < j <=> a + i < a + j)
  BY <1>0
<1>2. ASSUME i < j, IsTag(r, i, j) PROVE IsTag(s, a + i, a + j)
  <2>1. \A m \in i .. j : s[a + m] = r[m]
    OBVIOUS
  <2>2. a \in Int /\ i \in Int /\ j \in Int
    BY <1>0
  <2> QED
    BY <1>2, <2>1, <2>2, TagMoves
<1>3. ASSUME i < j, IsTag(s, a + i, a + j) PROVE IsTag(r, i, j)
  <2>1. \A m \in a + i .. a + j : r[-a + m] = s[m]
    <3>1. SUFFICES ASSUME NEW m \in a + i .. a + j PROVE r[-a + m] = s[m]
      OBVIOUS
    <3>2. -a + m \in 1 .. Len(r) /\ a + (-a + m) = m
      BY <1>0
    <3> QED
      BY <3>2
  <2>2. -a \in Int /\ a + i \in Int /\ a + j \in Int /\ a + i < a + j
    BY <1>3
  <2>3. IsTag(r, -a + (a + i), -a + (a + j))
    BY <1>3, <2>1, <2>2, TagMoves
  <2>4. -a + (a + i) = i /\ -a + (a + j) = j
    OBVIOUS
  <2> QED
    BY <2>3, <2>4
<1>4. <<i, j>> \in Tags(r) <=> i < j /\ IsTag(r, i, j)
  BY <1>0 DEF Tags
<1>5. <<a + i, a + j>> \in Tags(s) <=> i < j /\ IsTag(s, a + i, a + j)
  BY <1>1 DEF Tags
<1>6. ASSUME i < j PROVE Shuts(r, <<i, j>>) <=> Shuts(s, <<a + i, a + j>>)
  <2>1. ASSUME NEW m \in i .. j, r[m] = "/" PROVE \E e \in a + i .. a + j : s[e] = "/"
    <3>1. a + m \in a + i .. a + j /\ m \in 1 .. Len(r)
      BY <1>0
    <3> QED
      BY <2>1, <3>1
  <2>2. ASSUME NEW m \in a + i .. a + j, s[m] = "/" PROVE \E e \in i .. j : r[e] = "/"
    <3>1. m - a \in i .. j /\ m - a \in 1 .. Len(r) /\ a + (m - a) = m
      BY <1>0
    <3> QED
      BY <2>2, <3>1
  <2>3. Shuts(r, <<i, j>>) <=> \E m \in i .. j : r[m] = "/"
    BY DEF Shuts
  <2>4. Shuts(s, <<a + i, a + j>>) <=> \E m \in a + i .. a + j : s[m] = "/"
    BY DEF Shuts
  <2> QED
    BY <2>1, <2>2, <2>3, <2>4
<1> QED
  BY <1>2, <1>3, <1>4, <1>5, <1>6

\* The beginning of a tag, cut off anywhere: its angle, its slash if it has one (x) and the
\* first letters of its word, which starts at k.
LEMMA Begun ==
  ASSUME NEW s \in Seq(STRING), NEW w, NEW h \in 1 .. 2, NEW n \in 0 .. Len(Word),
         NEW x \in Int, NEW k \in Int, Len(s) >= 1,
         s[1] = "<", w[1] = "<",
         h = 2 => x \in 2 .. Len(s) /\ s[x] = "/" /\ w[2] = "/" /\ x < k,
         1 < k, n = 0 \/ k + n - 1 <= Len(s),
         \A m \in 1 .. n : s[k + m - 1] = Word[m] /\ w[h + m] = Word[m],
         \A m \in 1 .. Len(s) : m = 1 \/ (h = 2 /\ m = x) \/ m \in k .. k + n - 1 \/ s[m] = Blank
  PROVE  Begins(s, w, h + n)
<1> DEFINE solid == {m \in DOMAIN s : s[m] # Blank}
<1>0. DOMAIN s = 1 .. Len(s) /\ Len(s) \in Nat /\ n \in Nat /\ n <= Len(Word) /\ h \in {1, 2}
  BY Letters
<1>b. "<" # Blank /\ "/" # Blank
  BY DEF Blank
<1>f. PICK f \in [1 .. h + n -> Int] :
        \A i \in 1 .. h + n :
          /\ i = 1 => f[i] = 1
          /\ i # 1 /\ i <= h => f[i] = x
          /\ i > h => f[i] = k + (i - h) - 1
  <2> DEFINE g == [i \in 1 .. h + n |-> IF i = 1 THEN 1 ELSE IF i <= h THEN x ELSE k + (i - h) - 1]
  <2>1. g \in [1 .. h + n -> Int]
    BY <1>0
  <2>2. \A i \in 1 .. h + n :
          /\ i = 1 => g[i] = 1
          /\ i # 1 /\ i <= h => g[i] = x
          /\ i > h => g[i] = k + (i - h) - 1
    BY <1>0
  <2> QED
    BY <2>1, <2>2
<1>1. ASSUME NEW i \in 1 .. h + n PROVE f[i] \in solid /\ s[f[i]] = w[i]
  <2>1. CASE i = 1
    BY <1>0, <1>b, <1>f, <2>1
  <2>2. CASE i # 1 /\ i <= h
    <3>1. h = 2 /\ i = 2
      BY <1>0, <2>2
    <3>2. f[i] = x
      BY <1>f, <2>2
    <3> QED
      BY <1>0, <1>b, <3>1, <3>2
  <2>3. CASE i > h
    <3>1. i - h \in 1 .. n /\ h + (i - h) = i
      BY <1>0, <2>3
    <3>2. f[i] = k + (i - h) - 1
      BY <1>0, <1>f, <2>3
    <3>3. s[f[i]] = Word[i - h] /\ w[i] = Word[i - h]
      BY <3>1, <3>2
    <3>4. Word[i - h] # Blank
      BY <1>0, <3>1, Letters
    <3>5. f[i] \in DOMAIN s
      BY <1>0, <3>1, <3>2
    <3> QED
      BY <3>3, <3>4, <3>5
  <2> QED
    BY <1>0, <2>1, <2>2, <2>3
<1>2. ASSUME NEW i \in 1 .. h + n, NEW g \in 1 .. i - 1 PROVE f[g] < f[i]
  <2>0. g \in 1 .. h + n /\ g < i /\ i \in Nat /\ g \in Nat
    BY <1>0
  <2>1. CASE i <= h
    <3>1. g = 1 /\ i = 2 /\ h = 2
      BY <1>0, <2>0, <2>1
    <3>2. f[g] = 1 /\ f[i] = x
      BY <1>f, <2>0, <3>1
    <3> QED
      BY <3>1, <3>2
  <2>2. CASE i > h
    <3>1. f[i] = k + (i - h) - 1 /\ f[i] >= k
      BY <1>0, <1>f, <2>0, <2>2
    <3>2. CASE g = 1
      BY <1>f, <2>0, <3>1, <3>2
    <3>3. CASE g # 1 /\ g <= h
      <4>1. f[g] = x /\ h = 2
        BY <1>0, <1>f, <2>0, <3>3
      <4> QED
        BY <3>1, <4>1
    <3>4. CASE g > h
      BY <1>0, <1>f, <2>0, <3>1, <3>4
    <3> QED
      BY <1>0, <2>0, <3>2, <3>3, <3>4
  <2> QED
    BY <1>0, <2>0, <2>1, <2>2
<1>3. ASSUME NEW m \in solid PROVE \E i \in 1 .. h + n : f[i] = m
  <2>1. m \in 1 .. Len(s) /\ s[m] # Blank
    BY <1>0
  <2>2. CASE m = 1
    <3>1. 1 \in 1 .. h + n /\ f[1] = 1
      BY <1>0, <1>f
    <3> QED
      BY <2>2, <3>1
  <2>3. CASE h = 2 /\ m = x
    <3>1. 2 \in 1 .. h + n /\ f[2] = x
      BY <1>0, <1>f, <2>3
    <3> QED
      BY <2>3, <3>1
  <2>4. CASE m \in k .. k + n - 1
    <3>0. m \in Int /\ k <= m /\ m <= k + n - 1 /\ h \in Int
      BY <1>0, <2>1, <2>4
    <3>1. PICK i \in 1 .. h + n : i = h + (m - k + 1)
      BY <1>0, <3>0
    <3>2. i > h /\ k + (i - h) - 1 = m
      BY <3>0, <3>1
    <3>3. f[i] = k + (i - h) - 1
      BY <1>f, <3>2
    <3> QED
      BY <3>2, <3>3
  <2> QED
    BY <2>1, <2>2, <2>3, <2>4
<1>4. f \in [1 .. h + n -> solid]
  BY <1>1, <1>f
<1> QED
  BY <1>1, <1>2, <1>3, <1>4 DEF Begins

\* r stands in s after place a.
Part(r, s, a) == \A m \in 1 .. Len(r) : r[m] = s[a + m]

\* One symbol of a part.
LEMMA PartAt ==
  ASSUME NEW r, NEW s, NEW a, Part(r, s, a), NEW m \in 1 .. Len(r), NEW i, i = a + m
  PROVE  r[m] = s[i]
BY DEF Part

\* What has arrived of a tag, its angle at least, is the beginning of a tag.
LEMMA TagBegun ==
  ASSUME NEW s \in Seq(STRING), NEW p \in Int, NEW q \in Int, IsTag(s, p, q),
         NEW v \in Seq(STRING), Len(v) >= 1, p + Len(v) - 1 < q, Part(v, s, p - 1)
  PROVE  \/ \E n \in DOMAIN Opener : Begins(v, Opener, n)
         \/ \E n \in DOMAIN Closer : Begins(v, Closer, n)
<1>15. PICK L \in Nat : L = Len(v)
  OBVIOUS
<1>16. PICK W \in Nat : W = Len(Word)
  BY Letters
<1>0. /\ L = Len(v) /\ L >= 1 /\ p + L - 1 < q /\ DOMAIN v = 1 .. L
      /\ W = Len(Word) /\ W >= 1 /\ DOMAIN Word = 1 .. W
  BY <1>15, <1>16, Letters
<1>1. PICK k \in p + 1 .. q - W :
        /\ \A n \in DOMAIN Word : s[k + n - 1] = Word[n]
        /\ Blanks(s, k + W, q - 1)
        /\ \/ Blanks(s, p + 1, k - 1)
           \/ \E m \in p + 1 .. k - 1 :
                s[m] = "/" /\ Blanks(s, p + 1, m - 1) /\ Blanks(s, m + 1, k - 1)
  BY <1>0 DEF IsTag
<1>2. PICK b \in Int : b = k - p + 1
  BY <1>0
<1>3. /\ L \in Nat /\ L >= 1 /\ p + L - 1 < q /\ b > 1 /\ k \in Int
  BY <1>2, <1>0
<1>4. PICK n \in 0 .. W :
        \/ b > L /\ n = 0
        \/ b <= L /\ n <= L - b + 1 /\ (n = L - b + 1 \/ n = W)
  <2>1. CASE b > L
    <3>1. PICK n \in 0 .. W : n = 0
      BY <1>0
    <3> QED
      BY <2>1, <3>1
  <2>2. CASE b <= L /\ L - b + 1 <= W
    <3>1. PICK n \in Int : n = L - b + 1
      BY <1>3
    <3>2. n \in 0 .. W
      BY <1>3, <2>2, <3>1
    <3>3. b <= L /\ n <= L - b + 1 /\ (n = L - b + 1 \/ n = W)
      BY <1>3, <2>2, <3>1
    <3> QED
      BY <3>2, <3>3
  <2>3. CASE b <= L /\ L - b + 1 > W
    <3>1. PICK n \in 0 .. W : n = W
      BY <1>0
    <3> QED
      BY <1>3, <2>3, <3>1
  <2> QED
    BY <1>0, <1>3, <2>1, <2>2, <2>3
<1>5. n = 0 \/ b + n - 1 <= L
  BY <1>3, <1>4
<1>6. \A m \in 1 .. n : v[b + m - 1] = Word[m]
  <2>1. SUFFICES ASSUME NEW m \in 1 .. n PROVE v[b + m - 1] = Word[m]
    OBVIOUS
  <2>2. PICK i \in Int, e \in Int : i = b + m - 1 /\ e = k + m - 1
    BY <1>3
  <2>3. i \in 1 .. L /\ m \in 1 .. W /\ e = p - 1 + i
    BY <1>2, <1>3, <1>4, <1>0, <2>2
  <2>4. v[i] = s[e]
    BY <1>0, <2>3, PartAt
  <2>5. s[e] = Word[m]
    BY <1>0, <1>1, <2>2, <2>3
  <2> QED
    BY <2>2, <2>4, <2>5
<1>7. \A m \in 1 .. L : m < b \/ m \in b .. b + n - 1 \/ v[m] = Blank
  <2>1. SUFFICES ASSUME NEW m \in 1 .. L, b <= m, b + n - 1 < m PROVE v[m] = Blank
    BY <1>3, <1>0
  <2>2. n = W
    BY <1>3, <1>4, <2>1, <1>0
  <2>3. PICK e \in Int : e = p - 1 + m
    OBVIOUS
  <2>4. e \in k + W .. q - 1
    BY <1>0, <1>2, <1>3, <2>1, <2>2, <2>3
  <2>5. v[m] = s[e]
    BY <1>0, <2>3, PartAt
  <2> QED
    BY <1>1, <2>4, <2>5 DEF Blanks
<1>8. /\ DOMAIN Opener = 1 .. W + 1 /\ Opener[1] = "<"
      /\ \A m \in 1 .. W : Opener[1 + m] = Word[m]
  BY <1>0, TextAssumption DEF Opener
<1>9. /\ DOMAIN Closer = 1 .. W + 2 /\ Closer[1] = "<" /\ Closer[2] = "/"
      /\ \A m \in 1 .. W : Closer[2 + m] = Word[m]
  BY <1>0, TextAssumption DEF Closer
<1>10. v[1] = "<"
  <2>1. 1 \in 1 .. L /\ p = p - 1 + 1
    BY <1>0
  <2>2. v[1] = s[p]
    BY <1>0, <2>1, PartAt
  <2> QED
    BY <2>2 DEF IsTag
<1>11. ASSUME \A m \in 2 .. L : m < b => v[m] = Blank
       PROVE  \E h \in DOMAIN Opener : Begins(v, Opener, h)
  <2>1. \A m \in 1 .. n : Opener[1 + m] = Word[m]
    <3>1. SUFFICES ASSUME NEW m \in 1 .. n PROVE Opener[1 + m] = Word[m]
      OBVIOUS
    <3>2. m \in 1 .. W
      BY <1>0, <1>4
    <3> QED
      BY <1>8, <3>2
  <2>2. \A m \in 1 .. L : m = 1 \/ (1 = 2 /\ m = 0) \/ m \in b .. b + n - 1 \/ v[m] = Blank
    BY <1>7, <1>11
  <2>3. 1 \in 1 .. 2 /\ 0 \in Int /\ 1 # 2
    OBVIOUS
  <2>4. Begins(v, Opener, 1 + n)
    BY <1>0, <1>3, <1>5, <1>6, <1>8, <1>10, <2>1, <2>2, <2>3, Begun
  <2>5. 1 + n \in DOMAIN Opener
    BY <1>8, <1>0
  <2> QED
    BY <2>4, <2>5
<1>12. CASE Blanks(s, p + 1, k - 1)
  <2>1. \A m \in 2 .. L : m < b => v[m] = Blank
    <3>1. SUFFICES ASSUME NEW m \in 2 .. L, m < b PROVE v[m] = Blank
      OBVIOUS
    <3>2. PICK i \in Int : i = p - 1 + m
      OBVIOUS
    <3>3. m \in 1 .. L /\ i \in p + 1 .. k - 1
      BY <1>2, <1>3, <3>1, <3>2
    <3>4. v[m] = s[i]
      BY <1>0, <3>2, <3>3, PartAt
    <3> QED
      BY <1>12, <3>3, <3>4 DEF Blanks
  <2> QED
    BY <1>11, <2>1
<1>13. ASSUME NEW e \in p + 1 .. k - 1,
              s[e] = "/", Blanks(s, p + 1, e - 1), Blanks(s, e + 1, k - 1)
       PROVE  \/ \E h \in DOMAIN Opener : Begins(v, Opener, h)
              \/ \E h \in DOMAIN Closer : Begins(v, Closer, h)
  <2>1. PICK x \in Int : x = e - p + 1
    BY <1>3
  <2>2. \A m \in 2 .. L : m < b => m = x \/ v[m] = Blank
    <3>1. SUFFICES ASSUME NEW m \in 2 .. L, m < b, m # x PROVE v[m] = Blank
      OBVIOUS
    <3>2. PICK i \in Int : i = p - 1 + m
      OBVIOUS
    <3>3. m \in 1 .. L /\ (i \in p + 1 .. e - 1 \/ i \in e + 1 .. k - 1)
      BY <1>2, <1>3, <2>1, <3>1, <3>2
    <3>4. v[m] = s[i]
      BY <1>0, <3>2, <3>3, PartAt
    <3> QED
      BY <1>13, <3>3, <3>4 DEF Blanks
  <2>3. CASE x > L
    BY <1>3, <1>11, <2>2, <2>3
  <2>4. CASE x <= L
    <3>1. x \in 2 .. L /\ x \in 1 .. L /\ x < b /\ e = p - 1 + x
      BY <1>2, <1>3, <2>1, <2>4
    <3>2. v[x] = "/"
      BY <1>0, <1>13, <3>1, PartAt
    <3>3. \A m \in 1 .. n : Closer[2 + m] = Word[m]
      <4>1. SUFFICES ASSUME NEW m \in 1 .. n PROVE Closer[2 + m] = Word[m]
        OBVIOUS
      <4>2. m \in 1 .. W
        BY <1>0, <1>4
      <4> QED
        BY <1>9, <4>2
    <3>4. \A m \in 1 .. L : m = 1 \/ (2 = 2 /\ m = x) \/ m \in b .. b + n - 1 \/ v[m] = Blank
      BY <1>7, <2>2
    <3>5. 2 \in 1 .. 2
      OBVIOUS
    <3>6. Begins(v, Closer, 2 + n)
      BY <1>0, <1>3, <1>5, <1>6, <1>9, <1>10, <3>1, <3>2, <3>3, <3>4, <3>5, Begun
    <3>7. 2 + n \in DOMAIN Closer
      BY <1>9, <1>0
    <3> QED
      BY <3>6, <3>7
  <2> QED
    BY <1>3, <2>3, <2>4
<1> QED
  BY <1>1, <1>12, <1>13

\* A buffer in which a tag of the text has begun and not ended holds back all from its
\* angle on.
LEMMA TagHeld ==
  ASSUME NEW s \in Seq(STRING), NEW r \in Seq(STRING), NEW a \in Nat,
         a + Len(r) <= Len(s), Part(r, s, a),
         NEW t \in Tags(s), a < t[1], t[1] <= a + Len(r), a + Len(r) < t[2]
  PROVE  Hold(r) \in Int /\ Len(r) - Hold(r) = t[1] - a - 1
<1>1. PICK p \in Int, q \in Int : p = t[1] /\ q = t[2]
  BY TagIs
<1>2. PICK L \in Nat : L = Len(r)
  OBVIOUS
<1>3. PICK z \in Int : z = p - a
  BY <1>1
<1>4. /\ DOMAIN r = 1 .. L /\ z \in 1 .. L /\ p = a + z /\ p < q /\ a + L < q
      /\ IsTag(s, p, q) /\ p \in 1 .. Len(s) /\ q \in 1 .. Len(s)
  BY <1>1, <1>2, <1>3, TagIs
<1>5. s[p] = "<" /\ \A m \in p + 1 .. q - 1 : s[m] \notin {"<", ">"}
  BY <1>4, NoAngleWithin
<1>6. LastAngle(r) = z
  <2>1. z \in Angles(r)
    <3>1. r[z] = s[p]
      BY <1>2, <1>4, PartAt
    <3> QED
      BY <1>4, <1>5, <3>1 DEF Angles
  <2>2. ASSUME NEW j \in Angles(r), j > z PROVE FALSE
    <3>1. j \in 1 .. L /\ r[j] = "<"
      BY <1>4 DEF Angles
    <3>2. PICK i \in Int : i = a + j
      BY <3>1
    <3>3. i \in p + 1 .. q - 1
      BY <1>4, <2>2, <3>1, <3>2
    <3>4. r[j] = s[i]
      BY <1>2, <3>1, <3>2, PartAt
    <3> QED
      BY <1>5, <3>1, <3>3, <3>4
  <2>3. \A j \in Angles(r) : j <= z
    <3>1. \A j \in Angles(r) : j \in Int
      BY <1>4 DEF Angles
    <3> QED
      BY <1>4, <2>2, <3>1
  <2>4. ASSUME NEW j \in {0} \cup Angles(r), \A i \in Angles(r) : i <= j PROVE j = z
    <3>1. z <= j
      BY <2>1, <2>4
    <3>2. j # 0 /\ j \in Int
      BY <1>4, <2>4, <3>1 DEF Angles
    <3>3. j <= z
      BY <2>3, <2>4, <3>2
    <3> QED
      BY <1>4, <3>1, <3>2, <3>3
  <2>5. z \in {0} \cup Angles(r) /\ \A i \in Angles(r) : i <= z
    BY <2>1, <2>3
  <2> QED
    BY <2>4, <2>5 DEF LastAngle
<1>7. PICK v : v = SubSeq(r, z, L)
  OBVIOUS
<1>8. PICK M \in Nat : M = L - z + 1 /\ M >= 1
  <2>1. PICK M \in Int : M = L - z + 1
    BY <1>4
  <2> QED
    BY <1>4, <2>1
<1>9. /\ v \in Seq(STRING) /\ Len(v) = M /\ DOMAIN v = 1 .. M
      /\ \A m \in 1 .. M : v[m] = r[z + m - 1]
  <2>1. z \in Int /\ L \in Int /\ z <= L /\ z >= 1
    BY <1>4
  <2>2. \A m \in 1 .. M : SubSeq(r, z, L)[m] = r[z + m - 1]
    BY <1>8, <2>1
  <2>3. SubSeq(r, z, L) \in Seq(STRING)
    BY <1>2, <1>4
  <2>4. Len(SubSeq(r, z, L)) = M
    BY <1>8, <2>1
  <2> QED
    BY <1>7, <2>2, <2>3, <2>4
<1>10. Part(v, s, p - 1)
  <2>1. SUFFICES ASSUME NEW m \in 1 .. M PROVE v[m] = s[p - 1 + m]
    BY <1>9 DEF Part
  <2>2. PICK i \in Int, e \in Int : i = z + m - 1 /\ e = p - 1 + m
    BY <1>4
  <2>3. i \in 1 .. L /\ e = a + i
    BY <1>4, <1>8, <2>2
  <2>4. r[i] = s[e]
    BY <1>2, <2>3, PartAt
  <2> QED
    BY <1>9, <2>2, <2>4
<1>11. \A m \in DOMAIN v : v[m] # ">"
  <2>1. SUFFICES ASSUME NEW m \in 1 .. M PROVE v[m] # ">"
    BY <1>9
  <2>2. PICK e \in Int : e = p - 1 + m
    BY <1>4
  <2>5. m \in 1 .. Len(v)
    BY <1>9
  <2>3. v[m] = s[e]
    BY <1>10, <2>2, <2>5, PartAt
  <2>4. e = p \/ e \in p + 1 .. q - 1
    BY <1>4, <1>8, <2>2
  <2> QED
    BY <1>5, <2>3, <2>4
<1>12. \/ \E n \in DOMAIN Opener : Begins(v, Opener, n)
       \/ \E n \in DOMAIN Closer : Begins(v, Closer, n)
  <2>1. Len(v) >= 1 /\ p + Len(v) - 1 < q
    BY <1>4, <1>8, <1>9
  <2> QED
    BY <1>4, <1>9, <1>10, <2>1, TagBegun
<1>13. Hold(r) = M
  <2>1. LastAngle(r) # 0
    BY <1>4, <1>6
  <2>2. v = SubSeq(r, LastAngle(r), Len(r))
    BY <1>2, <1>6, <1>7
  <2> QED
    BY <1>9, <1>11, <1>12, <2>1, <2>2 DEF Hold
<1> QED
  BY <1>1, <1>2, <1>4, <1>8, <1>13

Pane == [in : {"thinking", "assistant"}, at : Nat]

TagTypes ==
  /\ text \in Texts /\ fed \in 0 .. Len(text)
  /\ buf \in Seq(STRING) /\ Len(buf) <= fed
  /\ thinking \in BOOLEAN /\ feeding \in {"no", "yes", "over"}
  /\ panes \in Seq(Pane)

\* What the panes show of s up to place c.
Upto(s, c) ==
  {[in |-> Channel(InsideThinking(s, k)), at |-> k] : k \in {k \in 1 .. c : Outside(s, k)}}

\* The buffer holds what has arrived and is not done; no tag is cut by the place where it
\* begins; the channel is the one of that place; the panes show all that is before it.
TagInv ==
  /\ TagTypes
  /\ Part(buf, text, Done)
  /\ \A t \in Tags(text) : t[2] <= Done \/ Done < t[1]
  /\ thinking <=> InsideThinking(text, Done + 1)
  /\ InOrder(panes) /\ Pieces(panes) = Upto(text, Done)
  /\ feeding # "yes" => Tags(buf) = {}
  /\ feeding = "over" => fed = Len(text) /\ buf = <<>>

\* Two sequences joined.
LEMMA Joined ==
  ASSUME NEW S, NEW r \in Seq(S), NEW s \in Seq(S)
  PROVE  /\ r \o s \in Seq(S) /\ Len(r \o s) = Len(r) + Len(s)
         /\ \A i \in 1 .. Len(r) : (r \o s)[i] = r[i]
         /\ \A i \in Len(r) + 1 .. Len(r) + Len(s) : (r \o s)[i] = s[i - Len(r)]
OBVIOUS

\* The channel does not change where no tag ends.
LEMMA SameInside ==
  ASSUME NEW s, NEW k, NEW l, \A t \in Tags(s) : t[2] < k <=> t[2] < l
  PROVE  InsideThinking(s, k) <=> InsideThinking(s, l)
BY DEF InsideThinking

Lot(m, on, c) == [i \in 1 .. m |-> [in |-> Channel(on), at |-> c + i]]

\* Showing m more places, in none of which there is a tag.
LEMMA Emitted ==
  ASSUME NEW s \in Seq(STRING), NEW c \in Nat, NEW m \in Nat, NEW p \in Seq(Pane), NEW e,
         NEW on \in BOOLEAN, on <=> InsideThinking(s, c + 1),
         e = Lot(m, on, c),
         \A t \in Tags(s) : t[2] <= c \/ c + m < t[1],
         InOrder(p), Pieces(p) = Upto(s, c)
  PROVE  /\ p \o e \in Seq(Pane)
         /\ InOrder(p \o e) /\ Pieces(p \o e) = Upto(s, c + m)
<1>1. PICK N \in Nat : N = Len(p)
  OBVIOUS
<1>2. e \in [1 .. m -> Pane] /\ Len(e) = m /\ e \in Seq(Pane)
  <2>1. \A i \in 1 .. m : [in |-> Channel(on), at |-> c + i] \in Pane
    BY DEF Pane, Channel
  <2>2. e \in [1 .. m -> Pane]
    BY <2>1 DEF Lot
  <2> QED
    BY <2>2
<1>3. PICK P : P = p \o e
  OBVIOUS
<1>4. P \in Seq(Pane) /\ Len(P) = N + m /\ DOMAIN P = 1 .. N + m /\ DOMAIN p = 1 .. N
  <2>1. P \in Seq(Pane) /\ Len(P) = Len(p) + Len(e)
    BY <1>2, <1>3, Joined
  <2> QED
    BY <1>1, <1>2, <2>1
<1>5. \A i \in 1 .. N : P[i] = p[i]
  BY <1>1, <1>2, <1>3
<1>6. \A i \in 1 .. m : P[N + i] = [in |-> Channel(on), at |-> c + i]
  <2>1. SUFFICES ASSUME NEW i \in 1 .. m PROVE P[N + i] = [in |-> Channel(on), at |-> c + i]
    OBVIOUS
  <2>2. PICK j \in Int : j = N + i
    OBVIOUS
  <2>3. j \in N + 1 .. N + m /\ j - N = i
    BY <2>2
  <2>4. P[j] = e[j - N]
    BY <1>1, <1>2, <1>3, <2>3
  <2>5. e[i] = [in |-> Channel(on), at |-> c + i]
    BY DEF Lot
  <2> QED
    BY <2>2, <2>3, <2>4, <2>5
<1>13. ASSUME NEW g \in 1 .. m, NEW j, j = N + g PROVE P[j].at = c + g
  <2>1. P[N + g] = [in |-> Channel(on), at |-> c + g]
    BY <1>6
  <2>2. P[N + g].at = c + g
    BY <2>1
  <2> QED
    BY <1>13, <2>2
<1>7. \A i \in 1 .. N : p[i].at \in 1 .. c
  <2>1. SUFFICES ASSUME NEW i \in 1 .. N PROVE p[i].at \in 1 .. c
    OBVIOUS
  <2>2. p[i] \in Upto(s, c)
    BY <1>4 DEF Pieces
  <2> QED
    BY <2>2 DEF Upto
<1>8. ASSUME NEW k \in c + 1 .. c + m
      PROVE  Outside(s, k) /\ (InsideThinking(s, k) <=> on)
  <2>1. \A t \in Tags(s) : t[1] \in Int /\ t[2] \in Int /\ t[1] < t[2]
    BY TagIs
  <2>2. Outside(s, k)
    BY <2>1 DEF Outside
  <2>3. \A t \in Tags(s) : t[2] < k <=> t[2] < c + 1
    <3>1. SUFFICES ASSUME NEW t \in Tags(s) PROVE t[2] < k <=> t[2] < c + 1
      OBVIOUS
    <3>2. t[1] \in Int /\ t[2] \in Int /\ t[1] < t[2] /\ (t[2] <= c \/ c + m < t[1])
      BY <2>1
    <3>3. c < k /\ k <= c + m /\ k \in Int
      OBVIOUS
    <3> QED
      BY <3>2, <3>3
  <2> QED
    BY <2>2, <2>3, SameInside
<1>9. InOrder(P)
  <2>1. SUFFICES ASSUME NEW i \in 1 .. N + m, NEW j \in 1 .. N + m, i < j
                 PROVE  P[i].at < P[j].at
    BY <1>4 DEF InOrder
  <2>2. CASE j <= N
    <3>1. i \in 1 .. N /\ j \in 1 .. N
      BY <2>1, <2>2
    <3>2. p[i].at < p[j].at
      BY <1>4, <2>1, <3>1 DEF InOrder
    <3> QED
      BY <1>5, <3>1, <3>2
  <2>3. CASE j > N
    <3>1. PICK g \in 1 .. m : j = N + g
      <4>1. PICK g \in Int : g = j - N
        OBVIOUS
      <4> QED
        BY <2>3, <4>1
    <3>2. P[j].at = c + g
      BY <1>13, <3>1
    <3>3. CASE i <= N
      <4>1. P[i].at = p[i].at /\ p[i].at \in 1 .. c
        BY <1>5, <1>7, <3>3
      <4> QED
        BY <3>2, <4>1
    <3>4. CASE i > N
      <4>1. PICK h \in 1 .. m : i = N + h
        <5>1. PICK h \in Int : h = i - N
          OBVIOUS
        <5> QED
          BY <3>4, <5>1
      <4>2. P[i].at = c + h
        BY <1>13, <4>1
      <4> QED
        BY <2>1, <3>1, <3>2, <4>1, <4>2
    <3> QED
      BY <3>3, <3>4
  <2> QED
    BY <2>2, <2>3
<1>10. ASSUME NEW i \in 1 .. N + m PROVE P[i] \in Upto(s, c + m)
  <2>1. CASE i <= N
    <3>0. i \in DOMAIN p /\ P[i] = p[i]
      BY <1>4, <1>5, <2>1
    <3>1. P[i] \in Upto(s, c)
      BY <3>0 DEF Pieces
    <3>2. PICK k \in 1 .. c : Outside(s, k) /\ P[i] = [in |-> Channel(InsideThinking(s, k)), at |-> k]
      BY <3>1 DEF Upto
    <3>3. k \in 1 .. c + m
      OBVIOUS
    <3> QED
      BY <3>2, <3>3 DEF Upto
  <2>2. CASE i > N
    <3>1. PICK g \in 1 .. m : i = N + g
      <4>1. PICK g \in Int : g = i - N
        OBVIOUS
      <4> QED
        BY <2>2, <4>1
    <3>2. PICK k \in Int : k = c + g
      OBVIOUS
    <3>3. k \in c + 1 .. c + m /\ k \in 1 .. c + m
      BY <3>2
    <3>4. P[i] = [in |-> Channel(on), at |-> k]
      BY <1>6, <3>1, <3>2
    <3>5. Channel(on) = Channel(InsideThinking(s, k))
      BY <1>8, <3>3 DEF Channel
    <3> QED
      BY <1>8, <3>3, <3>4, <3>5 DEF Upto
  <2> QED
    BY <2>1, <2>2
<1>11. ASSUME NEW k \in 1 .. c + m, Outside(s, k)
       PROVE  [in |-> Channel(InsideThinking(s, k)), at |-> k] \in Pieces(P)
  <2>1. CASE k <= c
    <3>1. [in |-> Channel(InsideThinking(s, k)), at |-> k] \in Pieces(p)
      BY <1>11, <2>1 DEF Upto
    <3>2. PICK i \in 1 .. N : [in |-> Channel(InsideThinking(s, k)), at |-> k] = p[i]
      BY <1>4, <3>1 DEF Pieces
    <3>4. i \in 1 .. N + m /\ i \in 1 .. N
      OBVIOUS
    <3>3. i \in DOMAIN P /\ P[i] = p[i]
      BY <1>4, <1>5, <3>4
    <3> QED
      BY <3>2, <3>3 DEF Pieces
  <2>2. CASE k > c
    <3>1. PICK g \in Int : g = k - c
      OBVIOUS
    <3>2. g \in 1 .. m /\ c + g = k /\ k \in c + 1 .. c + m
      BY <2>2, <3>1
    <3>3. PICK i \in Int : i = N + g
      BY <3>2
    <3>4. i \in DOMAIN P
      BY <1>4, <3>2, <3>3
    <3>5. P[i] = [in |-> Channel(on), at |-> k]
      BY <1>6, <3>2, <3>3
    <3>6. Channel(on) = Channel(InsideThinking(s, k))
      BY <1>8, <3>2 DEF Channel
    <3> QED
      BY <3>4, <3>5, <3>6 DEF Pieces
  <2> QED
    BY <2>1, <2>2
<1>12. Pieces(P) = Upto(s, c + m)
  <2>1. Pieces(P) \subseteq Upto(s, c + m)
    BY <1>4, <1>10 DEF Pieces
  <2>2. Upto(s, c + m) \subseteq Pieces(P)
    BY <1>11 DEF Upto
  <2> QED
    BY <2>1, <2>2
<1> QED
  BY <1>3, <1>4, <1>9, <1>12

\* The same of tags as pairs: from the part to the whole, and back.
LEMMA TagInPart ==
  ASSUME NEW s \in Seq(STRING), NEW r \in Seq(STRING), NEW a \in Nat,
         a + Len(r) <= Len(s), Part(r, s, a)
  PROVE  /\ \A u \in Tags(r) : /\ <<a + u[1], a + u[2]>> \in Tags(s)
                               /\ Shuts(r, u) <=> Shuts(s, <<a + u[1], a + u[2]>>)
         /\ \A w \in Tags(s) : a < w[1] /\ w[2] <= a + Len(r) =>
              /\ <<w[1] - a, w[2] - a>> \in Tags(r)
              /\ Shuts(r, <<w[1] - a, w[2] - a>>) <=> Shuts(s, w)
<1>0. \A m \in 1 .. Len(r) : r[m] = s[a + m]
  BY DEF Part
<1>1. ASSUME NEW u \in Tags(r)
      PROVE  /\ <<a + u[1], a + u[2]>> \in Tags(s)
             /\ Shuts(r, u) <=> Shuts(s, <<a + u[1], a + u[2]>>)
  <2>1. PICK i \in 1 .. Len(r), j \in 1 .. Len(r) : u = <<i, j>> /\ i < j /\ i = u[1] /\ j = u[2]
    BY TagIs
  <2>2. /\ <<i, j>> \in Tags(r) <=> <<a + i, a + j>> \in Tags(s)
        /\ Shuts(r, <<i, j>>) <=> Shuts(s, <<a + i, a + j>>)
    BY <1>0, <2>1, TagsOfPart
  <2> QED
    BY <2>1, <2>2
<1>2. ASSUME NEW w \in Tags(s), a < w[1], w[2] <= a + Len(r)
      PROVE  /\ <<w[1] - a, w[2] - a>> \in Tags(r)
             /\ Shuts(r, <<w[1] - a, w[2] - a>>) <=> Shuts(s, w)
  <2>1. PICK x \in Int, y \in Int : w = <<x, y>> /\ x < y /\ x = w[1] /\ y = w[2]
    BY TagIs
  <2>2. PICK i \in Int, j \in Int : i = x - a /\ j = y - a
    OBVIOUS
  <2>3. i \in 1 .. Len(r) /\ j \in 1 .. Len(r) /\ i < j /\ x = a + i /\ y = a + j
    BY <1>2, <2>1, <2>2
  <2>4. /\ <<i, j>> \in Tags(r) <=> <<a + i, a + j>> \in Tags(s)
        /\ Shuts(r, <<i, j>>) <=> Shuts(s, <<a + i, a + j>>)
    BY <1>0, <2>3, TagsOfPart
  <2>5. w = <<a + i, a + j>> /\ <<w[1] - a, w[2] - a>> = <<i, j>>
    BY <2>1, <2>2, <2>3
  <2> QED
    BY <2>4, <2>5
<1> QED
  BY <1>1, <1>2

\* What the invariant says of the lengths.
LEMMA TagFacts ==
  ASSUME TagInv
  PROVE  /\ text \in Seq(STRING) /\ Len(text) \in Nat
         /\ buf \in Seq(STRING) /\ Len(buf) \in Nat
         /\ fed \in Nat /\ fed <= Len(text) /\ Done \in Nat /\ fed = Done + Len(buf)
         /\ panes \in Seq(Pane) /\ thinking \in BOOLEAN
BY TextAssumption DEF TagInv, TagTypes, Done

\* The first m symbols of the buffer are shown, none of them in a tag.
LEMMA ShowMore ==
  ASSUME TagInv, NEW m \in Nat, \A t \in Tags(text) : t[2] <= Done \/ Done + m < t[1]
  PROVE  /\ panes \o Shown(m) \in Seq(Pane)
         /\ InOrder(panes \o Shown(m)) /\ Pieces(panes \o Shown(m)) = Upto(text, Done + m)
<1>1. Shown(m) = Lot(m, thinking, Done)
  BY DEF Shown, Lot
<1>2. (thinking <=> InsideThinking(text, Done + 1)) /\ InOrder(panes) /\ Pieces(panes) = Upto(text, Done)
  BY DEF TagInv
<1>3. text \in Seq(STRING) /\ Done \in Nat /\ panes \in Seq(Pane) /\ thinking \in BOOLEAN
  BY TagFacts
<1>4. PICK c : c = Done
  OBVIOUS
<1>5. PICK e : e = Shown(m)
  OBVIOUS
<1>6. /\ c \in Nat /\ e = Lot(m, thinking, c) /\ (thinking <=> InsideThinking(text, c + 1))
      /\ InOrder(panes) /\ Pieces(panes) = Upto(text, c)
      /\ \A t \in Tags(text) : t[2] <= c \/ c + m < t[1]
  BY <1>1, <1>2, <1>3, <1>4, <1>5
<1>7. /\ panes \o e \in Seq(Pane) /\ InOrder(panes \o e)
      /\ Pieces(panes \o e) = Upto(text, c + m)
  BY <1>3, <1>6, Emitted
<1> QED
  BY <1>4, <1>5, <1>7

\* Of some tags there is a first one.
LEMMA FirstOf ==
  ASSUME NEW s \in Seq(STRING), NEW T \in SUBSET Tags(s), T # {}
  PROVE  \E t \in T : \A u \in T : t[1] <= u[1]
<1> DEFINE Starts == {t[1] : t \in T}
<1>1. Starts \subseteq Nat /\ Starts # {}
  BY TagIs
<1>2. PICK n \in Starts : \A m \in Starts : n <= m
  BY <1>1, LeastNumber
<1> QED
  BY <1>2

\* Of some tags there is a last one.
LEMMA LastOf ==
  ASSUME NEW s \in Seq(STRING), NEW T \in SUBSET Tags(s), T # {}
  PROVE  \E t \in T : \A u \in T : u[1] <= t[1]
<1> DEFINE Ends == {Len(s) - t[1] : t \in T}
<1>0. \A t \in T : t[1] \in Int /\ Len(s) - t[1] \in Nat /\ Len(s) \in Nat
  BY TagIs
<1>1. Ends \subseteq Nat /\ Ends # {}
  BY <1>0
<1>2. PICK n \in Ends : \A m \in Ends : n <= m
  BY <1>1, LeastNumber
<1>3. PICK t \in T : n = Len(s) - t[1]
  BY <1>2
<1>4. ASSUME NEW u \in T PROVE u[1] <= t[1]
  <2>1. Len(s) - t[1] <= Len(s) - u[1]
    BY <1>2, <1>3
  <2> QED
    BY <1>0, <2>1
<1> QED
  BY <1>4

\* The tag that the splitter's search finds is the first.
LEMMA FirstTag ==
  ASSUME NEW s \in Seq(STRING), Tags(s) # {}
  PROVE  LET t == CHOOSE t \in Tags(s) : \A u \in Tags(s) : t[1] <= u[1] IN
           t \in Tags(s) /\ \A u \in Tags(s) : t[1] <= u[1]
<1>1. \E t \in Tags(s) : \A u \in Tags(s) : t[1] <= u[1]
  BY FirstOf
<1> QED
  BY <1>1

\* What is held back is in the buffer.
LEMMA HeldBack ==
  ASSUME NEW s \in Seq(STRING)
  PROVE  Hold(s) \in 0 .. Len(s)
<1> DEFINE A == {0} \cup Angles(s)
           Rest == {Len(s) - i : i \in A}
<1>1. A \subseteq 0 .. Len(s) /\ Len(s) \in Nat
  BY DEF Angles
<1>2. Rest \subseteq Nat /\ Rest # {}
  BY <1>1
<1>3. PICK n \in Rest : \A m \in Rest : n <= m
  BY <1>2, LeastNumber
<1>4. PICK i \in A : n = Len(s) - i
  BY <1>3
<1>5. \A j \in Angles(s) : j <= i
  <2>1. TAKE j \in Angles(s)
  <2>2. j \in A /\ Len(s) - j \in Rest
    OBVIOUS
  <2>3. Len(s) - i <= Len(s) - j
    BY <2>2, <1>3, <1>4
  <2> QED
    BY <2>2, <2>3, <1>1
<1>6. LastAngle(s) \in A
  BY <1>5 DEF LastAngle
<1> DEFINE k == LastAngle(s)
           tail == SubSeq(s, k, Len(s))
<1>7. k \in 0 .. Len(s)
  BY <1>1, <1>6
<1>8. CASE k # 0
  <2>1. Len(tail) = Len(s) - k + 1
    BY <1>1, <1>7, <1>8
  <2>2. Hold(s) \in {0, Len(tail)}
    BY DEF Hold
  <2> QED
    BY <1>1, <1>7, <1>8, <2>1, <2>2
<1>9. CASE k = 0
  BY <1>1, <1>9 DEF Hold
<1> QED
  BY <1>8, <1>9

\* A buffer of which the first n symbols are gone.
LEMMA Shorter ==
  ASSUME TagInv, NEW n \in 0 .. Len(buf), NEW b, b = SubSeq(buf, n + 1, Len(buf))
  PROVE  b \in Seq(STRING) /\ Len(b) = Len(buf) - n /\ Part(b, text, Done + n)
<1>0. buf \in Seq(STRING) /\ Len(buf) \in Nat /\ Done \in Nat /\ Part(buf, text, Done)
  BY TagFacts DEF TagInv
<1>1. PICK L \in Nat : L = Len(buf)
  BY <1>0
<1>2. n \in Nat /\ n <= L
  BY <1>1
<1>3. b \in Seq(STRING)
  BY <1>0, <1>1, <1>2
<1>4. Len(b) = L - n /\ L - n \in Nat
  BY <1>0, <1>1, <1>2
<1>5. \A m \in 1 .. L - n : b[m] = buf[n + m]
  BY <1>0, <1>1, <1>2
<1>6. ASSUME NEW m \in 1 .. L - n PROVE b[m] = text[Done + n + m]
  <2>1. PICK i \in Int : i = n + m
    BY <1>2
  <2>2. PICK e \in Int : e = Done + n + m
    BY <1>0, <1>2
  <2>4. i \in 1 .. Len(buf) /\ e = Done + i
    BY <1>0, <1>1, <1>2, <2>1, <2>2
  <2>5. buf[i] = text[e]
    BY <1>0, <2>4, PartAt
  <2>3. buf[i] = text[Done + n + m]
    BY <2>2, <2>5
  <2> QED
    BY <1>5, <2>1, <2>3
<1> QED
  BY <1>1, <1>3, <1>4, <1>6 DEF Part

\* Before anything has arrived.
LEMMA TagInvInit == TagInit => TagInv
<1> SUFFICES ASSUME TagInit PROVE TagInv
  OBVIOUS
<1>1. /\ text \in Texts /\ text \in Seq(STRING) /\ Len(text) \in Nat
      /\ fed = 0 /\ buf = <<>> /\ thinking = FALSE /\ panes = <<>> /\ feeding = "no"
  BY TextAssumption DEF TagInit
<1>2. Len(buf) = 0 /\ Done = 0 /\ buf \in Seq(STRING) /\ panes \in Seq(Pane) /\ DOMAIN panes = {}
      /\ DOMAIN buf = {}
  <2>1. fed = 0 /\ buf = <<>> /\ panes = <<>>
    BY <1>1
  <2>2. Len(buf) = 0 /\ buf \in Seq(STRING) /\ DOMAIN buf = {}
    BY <2>1
  <2>3. panes \in Seq(Pane) /\ DOMAIN panes = {}
    BY <2>1
  <2>4. fed = 0 /\ Len(buf) = 0
    BY <2>1, <2>2
  <2>5. Done = 0
    BY <2>4 DEF Done
  <2> QED
    BY <2>2, <2>3, <2>5
<1>3. TagTypes
  <2>1. text \in Texts /\ fed \in 0 .. Len(text) /\ Len(buf) <= fed
    BY <1>1, <1>2
  <2>2. thinking \in BOOLEAN
    BY <1>1, Zenon
  <2>3. feeding \in {"no", "yes", "over"}
    BY <1>1
  <2> QED
    BY <1>2, <2>1, <2>2, <2>3 DEF TagTypes
<1>4. Part(buf, text, Done)
  BY <1>2 DEF Part
<1>5. \A t \in Tags(text) : Done < t[1] /\ ~(t[2] < Done + 1)
  <2>1. SUFFICES ASSUME NEW t \in Tags(text) PROVE Done < t[1] /\ ~(t[2] < Done + 1)
    OBVIOUS
  <2>2. t[1] \in 1 .. Len(text) /\ t[2] \in 1 .. Len(text)
    BY <1>1, TagIs
  <2> QED
    BY <1>2, <2>2
<1>6. ~InsideThinking(text, Done + 1)
  BY <1>5 DEF InsideThinking
<1>7. InOrder(panes) /\ Pieces(panes) = {} /\ Upto(text, Done) = {} /\ Tags(buf) = {}
  BY <1>2 DEF InOrder, Pieces, Upto, Tags
<1> QED
  BY <1>1, <1>3, <1>4, <1>5, <1>6, <1>7 DEF TagInv

\* A chunk lengthens the buffer, and no place is done by it.
LEMMA FeedKeeps == TagInv /\ Feed => TagInv'
<1> SUFFICES ASSUME TagInv, Feed PROVE TagInv'
  OBVIOUS
<1>0. /\ text \in Seq(STRING) /\ Len(text) \in Nat /\ buf \in Seq(STRING) /\ Len(buf) \in Nat
      /\ fed \in Nat /\ fed <= Len(text) /\ Done \in Nat /\ fed = Done + Len(buf)
  BY TagFacts
<1>1. PICK n \in fed + 1 .. Len(text) : fed' = n /\ buf' = buf \o SubSeq(text, fed + 1, n)
  BY DEF Feed
<1>2. text' = text /\ thinking' = thinking /\ panes' = panes /\ feeding' = "yes" /\ n \in Nat
  BY <1>0, <1>1 DEF Feed
<1>3. PICK r : r = SubSeq(text, fed + 1, n)
  OBVIOUS
<1>4. /\ r \in Seq(STRING) /\ Len(r) = n - fed /\ n - fed \in Nat
      /\ \A m \in 1 .. n - fed : r[m] = text[fed + m]
  BY <1>0, <1>1, <1>2, <1>3
<1>5. buf' = buf \o r
  BY <1>1, <1>3
<1>6. buf' \in Seq(STRING) /\ Len(buf') = Len(buf) + (n - fed)
  <2>1. buf \o r \in Seq(STRING) /\ Len(buf \o r) = Len(buf) + Len(r)
    BY <1>0, <1>4, Joined
  <2> QED
    BY <1>4, <1>5, <2>1
<1>7. Done' = Done
  BY <1>0, <1>1, <1>2, <1>6 DEF Done
<1>8. Part(buf', text, Done)
  <2>1. SUFFICES ASSUME NEW m \in 1 .. Len(buf') PROVE buf'[m] = text[Done + m]
    BY DEF Part
  <2>2. m \in Int /\ m <= Len(buf) + (n - fed)
    BY <1>0, <1>2, <1>6
  <2>3. CASE m <= Len(buf)
    <3>1. m \in 1 .. Len(buf)
      BY <2>2, <2>3
    <3>2. buf'[m] = buf[m]
      BY <1>0, <1>4, <1>5, <3>1, Joined
    <3>3. Part(buf, text, Done)
      BY DEF TagInv
    <3> QED
      BY <3>1, <3>2, <3>3, PartAt
  <2>4. CASE m > Len(buf)
    <3>1. PICK i \in Int : i = m - Len(buf)
      BY <1>0, <2>2
    <3>2. i \in 1 .. n - fed /\ m \in Len(buf) + 1 .. Len(buf) + Len(r) /\ fed + i = Done + m
      BY <1>0, <1>2, <1>4, <2>2, <2>4, <3>1
    <3>3. buf'[m] = r[i]
      BY <1>0, <1>4, <1>5, <3>1, <3>2, Joined
    <3> QED
      BY <1>4, <3>2, <3>3
  <2> QED
    BY <1>0, <2>2, <2>3, <2>4
<1>9. TagTypes'
  BY <1>0, <1>1, <1>2, <1>6 DEF TagInv, TagTypes
<1> QED
  BY <1>2, <1>7, <1>8, <1>9 DEF TagInv

\* Tags of the text that end in what has arrived are in the buffer, or over.
LEMMA TagArrived ==
  ASSUME TagInv, NEW w \in Tags(text), Done < w[1], w[2] <= fed
  PROVE  \E u \in Tags(buf) : /\ w = <<Done + u[1], Done + u[2]>>
                              /\ Shuts(buf, u) <=> Shuts(text, w)
<1>0. /\ text \in Seq(STRING) /\ Len(text) \in Nat /\ buf \in Seq(STRING) /\ Len(buf) \in Nat
      /\ fed \in Nat /\ fed <= Len(text) /\ Done \in Nat /\ fed = Done + Len(buf)
      /\ Part(buf, text, Done)
  BY TagFacts DEF TagInv
<1>1. PICK u : u = <<w[1] - Done, w[2] - Done>>
  OBVIOUS
<1>2. u \in Tags(buf) /\ (Shuts(buf, u) <=> Shuts(text, w))
  BY <1>0, <1>1, TagInPart
<1>3. w = <<w[1], w[2]>> /\ w[1] \in Int /\ w[2] \in Int
  BY <1>0, TagIs
<1>4. u[1] = w[1] - Done /\ u[2] = w[2] - Done
  BY <1>1
<1>5. Done + u[1] = w[1] /\ Done + u[2] = w[2]
  BY <1>0, <1>3, <1>4
<1> QED
  BY <1>2, <1>3, <1>5

\* The first tag of the buffer is the next one of the text.
LEMMA TakeTagKeeps == TagInv /\ TakeTag => TagInv'
<1> SUFFICES ASSUME TagInv, TakeTag PROVE TagInv'
  OBVIOUS
<1>0. /\ text \in Seq(STRING) /\ Len(text) \in Nat /\ buf \in Seq(STRING) /\ Len(buf) \in Nat
      /\ fed \in Nat /\ fed <= Len(text) /\ Done \in Nat /\ fed = Done + Len(buf)
      /\ Part(buf, text, Done) /\ \A t \in Tags(text) : t[2] <= Done \/ Done < t[1]
      /\ Done + Len(buf) <= Len(text)
  BY TagFacts DEF TagInv
<1>1. PICK tag : tag = CHOOSE t \in Tags(buf) : \A u \in Tags(buf) : t[1] <= u[1]
  OBVIOUS
<1>2. tag \in Tags(buf) /\ \A u \in Tags(buf) : tag[1] <= u[1]
  BY <1>0, <1>1, FirstTag DEF TakeTag
<1>3. /\ panes' = panes \o Shown(tag[1] - 1) /\ thinking' = ~Shuts(buf, tag)
      /\ buf' = SubSeq(buf, tag[2] + 1, Len(buf))
      /\ text' = text /\ fed' = fed /\ feeding' = feeding /\ feeding = "yes"
  BY <1>1 DEF TakeTag
<1>4. PICK i \in Int, j \in Int : i = tag[1] /\ j = tag[2]
  BY <1>0, <1>2, TagIs
<1>5. i \in 1 .. Len(buf) /\ j \in 1 .. Len(buf) /\ i < j
  BY <1>0, <1>2, <1>4, TagIs
<1>6. PICK x \in Int : x = Done + i
  BY <1>0
<1>19. PICK y \in Int : y = Done + j
  BY <1>0
<1>20. PICK w : w = <<x, y>>
  OBVIOUS
<1>7. w \in Tags(text) /\ (Shuts(buf, tag) <=> Shuts(text, w)) /\ w[1] = x /\ w[2] = y
  BY <1>0, <1>2, <1>4, <1>6, <1>19, <1>20, TagInPart
<1>8. buf' \in Seq(STRING) /\ Len(buf') = Len(buf) - j /\ Part(buf', text, Done + j)
  <2>1. PICK b : b = SubSeq(buf, j + 1, Len(buf))
    OBVIOUS
  <2>2. j \in 0 .. Len(buf)
    BY <1>5
  <2>3. b \in Seq(STRING) /\ Len(b) = Len(buf) - j /\ Part(b, text, Done + j)
    BY <2>1, <2>2, Shorter
  <2>4. buf' = b
    BY <1>3, <1>4, <2>1
  <2> QED
    BY <2>3, <2>4
<1>9. Done' = y
  <2>1. Done' = fed - (Len(buf) - j)
    BY <1>3, <1>8 DEF Done
  <2> QED
    BY <1>0, <1>5, <1>19, <2>1
<1>10. \A t \in Tags(text) : /\ t[1] \in Int /\ t[2] \in Int /\ t[1] < t[2]
                             /\ t = w \/ t[2] < x \/ y < t[1]
  BY <1>0, <1>7, TagIs, TagsApart
<1>11. \A t \in Tags(text) : t[2] <= Done \/ Done + (i - 1) < t[1]
  <2>1. SUFFICES ASSUME NEW t \in Tags(text), Done < t[1], t[1] <= Done + (i - 1) PROVE FALSE
    BY <1>0, <1>5, <1>10
  <2>2. t[2] < x
    BY <1>0, <1>5, <1>6, <1>19, <1>7, <1>10, <2>1
  <2>3. t[2] <= fed
    BY <1>0, <1>5, <1>6, <1>19, <1>10, <2>2
  <2>4. PICK u \in Tags(buf) : t = <<Done + u[1], Done + u[2]>>
    BY <2>1, <2>3, TagArrived
  <2>5. u[1] \in Int /\ i <= u[1] /\ t[1] = Done + u[1]
    BY <1>0, <1>2, <1>4, <2>4, TagIs
  <2> QED
    BY <1>0, <1>5, <2>1, <2>5
<1>12. /\ panes' \in Seq(Pane) /\ InOrder(panes') /\ Pieces(panes') = Upto(text, Done + (i - 1))
  <2>1. i - 1 \in Nat /\ panes' = panes \o Shown(i - 1)
    BY <1>3, <1>4, <1>5
  <2> QED
    BY <1>11, <2>1, ShowMore
<1>13. Upto(text, Done + (i - 1)) = Upto(text, y)
  <2>1. ASSUME NEW k \in 1 .. y, Outside(text, k) PROVE k \in 1 .. Done + (i - 1)
    <3>1. k \notin x .. y
      BY <1>7, <2>1 DEF Outside
    <3> QED
      BY <1>0, <1>5, <1>6, <1>19, <3>1
  <2>2. \A k \in 1 .. Done + (i - 1) : k \in 1 .. y
    BY <1>0, <1>5, <1>6, <1>19
  <2>3. {k \in 1 .. y : Outside(text, k)} = {k \in 1 .. Done + (i - 1) : Outside(text, k)}
    BY <2>1, <2>2
  <2> QED
    BY <2>3 DEF Upto
<1>14. thinking' <=> InsideThinking(text, y + 1)
  <2>1. \A t \in Tags(text) : t[2] < y + 1 => t[1] <= w[1]
    BY <1>6, <1>19, <1>7, <1>10
  <2>2. w[2] < y + 1
    BY <1>7
  <2>3. InsideThinking(text, y + 1) <=> ~Shuts(text, w)
    <3>1. CASE ~Shuts(text, w)
      BY <1>7, <2>1, <2>2, <3>1 DEF InsideThinking
    <3>2. ASSUME InsideThinking(text, y + 1) PROVE ~Shuts(text, w)
      <4>1. PICK t \in Tags(text) : /\ t[2] < y + 1 /\ ~Shuts(text, t)
                                    /\ \A u \in Tags(text) : u[2] < y + 1 => u[1] <= t[1]
        BY <3>2 DEF InsideThinking
      <4>2. x <= t[1]
        BY <1>7, <2>2, <4>1
      <4>3. t = w
        BY <1>5, <1>6, <1>19, <1>10, <4>1, <4>2
      <4> QED
        BY <4>1, <4>3
    <3> QED
      BY <3>1, <3>2
  <2> QED
    BY <1>3, <1>7, <2>3
<1>15. \A t \in Tags(text) : t[2] <= y \/ y < t[1]
  BY <1>6, <1>19, <1>7, <1>10
<1>16. thinking' \in BOOLEAN
  BY <1>3
<1>17. TagTypes'
  <2>1. Len(buf') <= fed
    BY <1>0, <1>5, <1>8
  <2>2. text \in Texts /\ fed \in 0 .. Len(text) /\ feeding \in {"no", "yes", "over"}
    BY DEF TagInv, TagTypes
  <2>3. text' \in Texts /\ fed' \in 0 .. Len(text') /\ Len(buf') <= fed'
    BY <1>3, <2>1, <2>2
  <2>4. feeding' \in {"no", "yes", "over"}
    BY <1>3
  <2> QED
    BY <1>8, <1>12, <1>16, <2>3, <2>4 DEF TagTypes
<1>18. Part(buf', text', Done')
  BY <1>3, <1>6, <1>19, <1>8, <1>9
<1> QED
  BY <1>3, <1>9, <1>12, <1>13, <1>14, <1>15, <1>17, <1>18 DEF TagInv

\* What is shown without a tag in the buffer is in no tag of the text either, as a tag that
\* has begun is held back.
LEMMA ShowSafeKeeps == TagInv /\ ShowSafe => TagInv'
<1> SUFFICES ASSUME TagInv, ShowSafe PROVE TagInv'
  OBVIOUS
<1>0. /\ text \in Seq(STRING) /\ Len(text) \in Nat /\ buf \in Seq(STRING) /\ Len(buf) \in Nat
      /\ fed \in Nat /\ fed <= Len(text) /\ Done \in Nat /\ fed = Done + Len(buf)
      /\ Part(buf, text, Done) /\ \A t \in Tags(text) : t[2] <= Done \/ Done < t[1]
      /\ Done + Len(buf) <= Len(text) /\ thinking \in BOOLEAN
  BY TagFacts DEF TagInv
<1>1. PICK m : m = Len(buf) - Hold(buf)
  OBVIOUS
<1>2. m \in 0 .. Len(buf) /\ m \in Nat
  BY <1>0, <1>1, HeldBack
<1>3. /\ panes' = panes \o Shown(m) /\ buf' = SubSeq(buf, m + 1, Len(buf)) /\ feeding' = "no"
      /\ text' = text /\ fed' = fed /\ thinking' = thinking /\ Tags(buf) = {}
  BY <1>1 DEF ShowSafe
<1>4. buf' \in Seq(STRING) /\ Len(buf') = Len(buf) - m /\ Part(buf', text, Done + m)
  <2>1. PICK b : b = SubSeq(buf, m + 1, Len(buf))
    OBVIOUS
  <2>2. b \in Seq(STRING) /\ Len(b) = Len(buf) - m /\ Part(b, text, Done + m)
    BY <1>2, <2>1, Shorter
  <2> QED
    BY <1>3, <2>1, <2>2
<1>5. Done' = Done + m
  <2>1. Done' = fed - (Len(buf) - m)
    BY <1>3, <1>4 DEF Done
  <2> QED
    BY <1>0, <1>2, <2>1
<1>6. ASSUME NEW t \in Tags(text), Done < t[1] PROVE fed < t[2]
  <2>1. t[2] \in Int
    BY <1>0, TagIs
  <2>2. SUFFICES ASSUME t[2] <= fed PROVE FALSE
    BY <1>0, <2>1
  <2> QED
    BY <1>3, <1>6, <2>2, TagArrived
<1>7. \A t \in Tags(text) : /\ t[1] \in Int /\ t[2] \in Int /\ t[1] < t[2]
                            /\ t[2] <= Done \/ Done + m < t[1]
  <2>1. SUFFICES ASSUME NEW t \in Tags(text)
                 PROVE  /\ t[1] \in Int /\ t[2] \in Int /\ t[1] < t[2]
                        /\ t[2] <= Done \/ Done + m < t[1]
    OBVIOUS
  <2>2. t[1] \in Int /\ t[2] \in Int /\ t[1] < t[2] /\ (t[2] <= Done \/ Done < t[1])
    BY <1>0, TagIs
  <2>3. ASSUME Done < t[1], t[1] <= Done + m PROVE FALSE
    <3>1. fed < t[2]
      BY <1>6, <2>3
    <3>2. Done + Len(buf) < t[2] /\ t[1] <= Done + Len(buf)
      BY <1>0, <1>2, <2>2, <2>3, <3>1
    <3>3. Len(buf) - Hold(buf) = t[1] - Done - 1
      BY <1>0, <2>3, <3>2, TagHeld
    <3>4. m = t[1] - Done - 1
      BY <1>1, <3>3
    <3> QED
      BY <1>0, <1>2, <2>2, <2>3, <3>4
  <2> QED
    BY <1>0, <1>2, <2>2, <2>3
<1>8. panes' \in Seq(Pane) /\ InOrder(panes') /\ Pieces(panes') = Upto(text, Done + m)
  BY <1>2, <1>3, <1>7, ShowMore
<1>9. InsideThinking(text, Done + 1) <=> InsideThinking(text, Done + m + 1)
  <2>1. \A t \in Tags(text) : t[2] < Done + 1 <=> t[2] < Done + m + 1
    <3>1. SUFFICES ASSUME NEW t \in Tags(text) PROVE t[2] < Done + 1 <=> t[2] < Done + m + 1
      OBVIOUS
    <3>2. t[1] \in Int /\ t[2] \in Int /\ t[1] < t[2] /\ (t[2] <= Done \/ Done + m < t[1])
      BY <1>7
    <3> QED
      BY <1>0, <1>2, <3>2
  <2> QED
    BY <2>1, SameInside
<1>10. thinking' <=> InsideThinking(text, Done + m + 1)
  <2>1. thinking <=> InsideThinking(text, Done + 1)
    BY DEF TagInv
  <2> QED
    BY <1>3, <1>9, <2>1
<1>11. \A t \in Tags(text) : t[2] <= Done + m \/ Done + m < t[1]
  BY <1>0, <1>2, <1>7
<1>12. Tags(buf') = {}
  <2>1. SUFFICES ASSUME NEW u \in Tags(buf') PROVE FALSE
    OBVIOUS
  <2>2. PICK b : b = buf'
    OBVIOUS
  <2>3. PICK c \in Nat : c = Done + m
    BY <1>0, <1>2
  <2>4. /\ b \in Seq(STRING) /\ Len(b) = Len(buf) - m /\ Part(b, text, c) /\ u \in Tags(b)
        /\ c + Len(b) <= Len(text) /\ c + Len(b) = fed
    BY <1>0, <1>2, <1>4, <2>2, <2>3
  <2>5. PICK i \in Int, j \in Int : i = c + u[1] /\ j = c + u[2] /\ c < i /\ j <= fed
    <3>1. u[1] \in 1 .. Len(b) /\ u[2] \in 1 .. Len(b)
      BY <2>4, TagIs
    <3>2. PICK i \in Int : i = c + u[1]
      BY <3>1
    <3>3. PICK j \in Int : j = c + u[2]
      BY <3>1
    <3>4. c < i /\ j <= fed
      BY <2>4, <3>1, <3>2, <3>3
    <3> QED
      BY <3>2, <3>3, <3>4
  <2>6. <<i, j>> \in Tags(text)
    BY <1>0, <2>4, <2>5, TagInPart
  <2>7. Done < i
    BY <1>0, <1>2, <2>3, <2>5
  <2>8. fed < j
    BY <1>6, <2>6, <2>7
  <2> QED
    BY <1>0, <2>5, <2>8
<1>13. TagTypes'
  <2>1. Len(buf') <= fed
    BY <1>0, <1>2, <1>4
  <2>2. text \in Texts /\ fed \in 0 .. Len(text)
    BY DEF TagInv, TagTypes
  <2>3. text' \in Texts /\ fed' \in 0 .. Len(text') /\ Len(buf') <= fed'
    BY <1>3, <2>1, <2>2
  <2>4. feeding' \in {"no", "yes", "over"}
    BY <1>3
  <2>5. thinking' \in BOOLEAN
    BY <1>0, <1>3
  <2> QED
    BY <1>4, <1>8, <2>3, <2>4, <2>5 DEF TagTypes
<1>14. /\ Part(buf', text', Done') /\ \A t \in Tags(text') : t[2] <= Done' \/ Done' < t[1]
       /\ Pieces(panes') = Upto(text', Done') /\ feeding' # "over"
  BY <1>3, <1>4, <1>5, <1>8, <1>11
<1>15. thinking' <=> InsideThinking(text', Done' + 1)
  BY <1>3, <1>5, <1>10
<1> QED
  BY <1>8, <1>12, <1>13, <1>14, <1>15 DEF TagInv

\* At the end no tag is left, and all is shown.
LEMMA FlushKeeps == TagInv /\ Flush => TagInv'
<1> SUFFICES ASSUME TagInv, Flush PROVE TagInv'
  OBVIOUS
<1>0. /\ text \in Seq(STRING) /\ Len(text) \in Nat /\ buf \in Seq(STRING) /\ Len(buf) \in Nat
      /\ fed \in Nat /\ fed <= Len(text) /\ Done \in Nat /\ fed = Done + Len(buf)
      /\ \A t \in Tags(text) : t[2] <= Done \/ Done < t[1]
      /\ thinking \in BOOLEAN
  BY TagFacts DEF TagInv
<1>1. /\ panes' = panes \o Shown(Len(buf)) /\ buf' = <<>> /\ feeding' = "over" /\ fed = Len(text)
      /\ text' = text /\ fed' = fed /\ thinking' = thinking /\ feeding = "no"
  BY DEF Flush
<1>2. Len(buf') = 0 /\ buf' \in Seq(STRING) /\ Tags(buf') = {}
  <2>1. PICK b : b = <<>>
    OBVIOUS
  <2>2. Len(b) = 0 /\ b \in Seq(STRING) /\ DOMAIN b = {}
    BY <2>1
  <2>3. Tags(b) = {}
    BY <2>2 DEF Tags
  <2> QED
    BY <1>1, <2>1, <2>2, <2>3
<1>3. Done' = fed
  <2>1. Done' = fed - 0
    BY <1>1, <1>2 DEF Done
  <2> QED
    BY <1>0, <2>1
<1>4. \A t \in Tags(text) : t[2] \in Int /\ t[2] <= Done
  <2>1. SUFFICES ASSUME NEW t \in Tags(text) PROVE t[2] \in Int /\ t[2] <= Done
    OBVIOUS
  <2>2. t[1] \in Int /\ t[2] \in Int /\ t[2] <= fed
    BY <1>0, <1>1, TagIs
  <2>3. ~(Done < t[1])
    <3>1. Tags(buf) = {}
      BY <1>1 DEF TagInv
    <3> QED
      BY <2>2, <3>1, TagArrived
  <2> QED
    BY <1>0, <2>2, <2>3
<1>5. panes' \in Seq(Pane) /\ InOrder(panes') /\ Pieces(panes') = Upto(text, fed)
  BY <1>0, <1>1, <1>4, ShowMore
<1>6. InsideThinking(text, Done + 1) <=> InsideThinking(text, fed + 1)
  <2>1. \A t \in Tags(text) : t[2] < Done + 1 <=> t[2] < fed + 1
    BY <1>0, <1>4
  <2> QED
    BY <2>1, SameInside
<1>7. thinking' <=> InsideThinking(text, fed + 1)
  <2>1. thinking <=> InsideThinking(text, Done + 1)
    BY DEF TagInv
  <2> QED
    BY <1>1, <1>6, <2>1
<1>8. \A t \in Tags(text) : t[2] <= fed
  BY <1>0, <1>4
<1>9. TagTypes'
  <2>1. text \in Texts /\ fed \in 0 .. Len(text)
    BY DEF TagInv, TagTypes
  <2>2. text' \in Texts /\ fed' \in 0 .. Len(text') /\ Len(buf') <= fed'
    BY <1>0, <1>1, <1>2, <2>1
  <2>3. feeding' \in {"no", "yes", "over"}
    BY <1>1
  <2>4. thinking' \in BOOLEAN
    BY <1>0, <1>1
  <2> QED
    BY <1>2, <1>5, <2>2, <2>3, <2>4 DEF TagTypes
<1>10. Part(buf', text', Done')
  BY <1>2 DEF Part
<1>11. /\ \A t \in Tags(text') : t[2] <= Done' \/ Done' < t[1]
       /\ Pieces(panes') = Upto(text', Done')
       /\ fed' = Len(text') /\ buf' = <<>>
  BY <1>1, <1>3, <1>5, <1>8
<1>12. thinking' <=> InsideThinking(text', Done' + 1)
  BY <1>1, <1>3, <1>7
<1> QED
  BY <1>2, <1>5, <1>9, <1>10, <1>11, <1>12 DEF TagInv

\* Every step of the splitter keeps the invariant.
LEMMA TagInvStays == TagInv /\ [TagNext]_tagVars => TagInv'
<1>1. TagInv /\ UNCHANGED tagVars => TagInv'
  <2> SUFFICES ASSUME TagInv, UNCHANGED tagVars PROVE TagInv'
    OBVIOUS
  <2>1. /\ text' = text /\ fed' = fed /\ buf' = buf /\ panes' = panes /\ feeding' = feeding
        /\ thinking' = thinking
    BY DEF tagVars
  <2>2. Done' = Done
    BY <2>1 DEF Done
  <2>3. TagTypes' <=> TagTypes
    BY <2>1 DEF TagTypes
  <2>4. (thinking' <=> InsideThinking(text', Done' + 1)) <=> (thinking <=> InsideThinking(text, Done + 1))
    BY <2>1, <2>2
  <2> QED
    BY <2>1, <2>2, <2>3, <2>4 DEF TagInv
<1> QED
  BY <1>1, FeedKeeps, TakeTagKeeps, ShowSafeKeeps, FlushKeeps DEF TagNext

\* The inductive invariant of the splitter.
THEOREM TagInvariant == TagSpec => []TagInv
BY TagInvInit, TagInvStays, PTL DEF TagSpec

\* What the panes should show of a part that is read up to a place where no tag is cut is
\* what they should show of the whole.
LEMMA UptoOfPrefix ==
  ASSUME NEW s \in Seq(STRING), NEW n \in 0 .. Len(s), NEW r, r = SubSeq(s, 1, n),
         NEW c \in 0 .. n, \A t \in Tags(s) : t[2] <= c \/ c < t[1]
  PROVE  /\ r \in Seq(STRING) /\ Len(r) = n
         /\ Upto(r, c) = Upto(s, c)
         /\ InsideThinking(r, c + 1) <=> InsideThinking(s, c + 1)
         /\ Tags(r) = {t \in Tags(s) : t[2] <= n}
<1>0. Len(s) \in Nat /\ n \in Nat /\ n <= Len(s) /\ c \in Nat /\ c <= n
  OBVIOUS
<1>1. r \in Seq(STRING) /\ Len(r) = n /\ \A m \in 1 .. n : r[m] = s[m]
  BY <1>0
<1>2. Part(r, s, 0) /\ 0 + Len(r) <= Len(s)
  BY <1>0, <1>1 DEF Part
<1>3. ASSUME NEW t \in Tags(r)
      PROVE  t \in Tags(s) /\ t[2] <= n /\ (Shuts(r, t) <=> Shuts(s, t))
  <2>1. t = <<t[1], t[2]>> /\ t[1] \in 1 .. n /\ t[2] \in 1 .. n
    BY <1>1, TagIs
  <2>4. PICK u : u = <<0 + t[1], 0 + t[2]>>
    OBVIOUS
  <2>2. u \in Tags(s) /\ (Shuts(r, t) <=> Shuts(s, u))
    BY <1>1, <1>2, <2>4, TagInPart
  <2>3. u = t
    BY <2>1, <2>4
  <2> QED
    BY <2>1, <2>2, <2>3
<1>4. ASSUME NEW t \in Tags(s), t[2] <= n PROVE t \in Tags(r)
  <2>1. t = <<t[1], t[2]>> /\ t[1] \in 1 .. Len(s) /\ t[2] \in 1 .. Len(s)
    BY TagIs
  <2>2. 0 < t[1] /\ t[2] <= 0 + Len(r)
    BY <1>1, <1>4, <2>1
  <2>3. <<t[1] - 0, t[2] - 0>> \in Tags(r)
    BY <1>1, <1>2, <2>2, TagInPart
  <2>4. <<t[1] - 0, t[2] - 0>> = t
    BY <2>1
  <2> QED
    BY <2>3, <2>4
<1>5. Tags(r) = {t \in Tags(s) : t[2] <= n}
  BY <1>3, <1>4
<1>6. \A t \in Tags(s) : t[1] \in Int /\ t[2] \in Int /\ t[1] < t[2]
  BY TagIs
<1>7. ASSUME NEW k \in 1 .. c + 1 PROVE InsideThinking(r, k) <=> InsideThinking(s, k)
  <2>1. \A t \in Tags(s) : t[2] < k => t \in Tags(r)
    <3>1. SUFFICES ASSUME NEW t \in Tags(s), t[2] < k PROVE t[2] <= n
      BY <1>4
    <3> QED
      BY <1>0, <1>6, <3>1
  <2>2. ASSUME InsideThinking(r, k) PROVE InsideThinking(s, k)
    <3>1. PICK t \in Tags(r) : /\ t[2] < k /\ ~Shuts(r, t)
                               /\ \A u \in Tags(r) : u[2] < k => u[1] <= t[1]
      BY <2>2 DEF InsideThinking
    <3>2. t \in Tags(s) /\ ~Shuts(s, t)
      BY <1>3, <3>1
    <3>3. \A u \in Tags(s) : u[2] < k => u[1] <= t[1]
      BY <2>1, <3>1
    <3> QED
      BY <3>1, <3>2, <3>3 DEF InsideThinking
  <2>3. ASSUME InsideThinking(s, k) PROVE InsideThinking(r, k)
    <3>1. PICK t \in Tags(s) : /\ t[2] < k /\ ~Shuts(s, t)
                               /\ \A u \in Tags(s) : u[2] < k => u[1] <= t[1]
      BY <2>3 DEF InsideThinking
    <3>2. t \in Tags(r) /\ ~Shuts(r, t)
      BY <1>3, <2>1, <3>1
    <3>3. \A u \in Tags(r) : u[2] < k => u[1] <= t[1]
      BY <1>3, <3>1
    <3> QED
      BY <3>1, <3>2, <3>3 DEF InsideThinking
  <2> QED
    BY <2>2, <2>3
<1>8. ASSUME NEW k \in 1 .. c PROVE Outside(r, k) <=> Outside(s, k)
  <2>1. ASSUME Outside(s, k) PROVE Outside(r, k)
    BY <1>3, <2>1 DEF Outside
  <2>2. ASSUME Outside(r, k) PROVE Outside(s, k)
    <3>1. SUFFICES ASSUME NEW t \in Tags(s), k \in t[1] .. t[2] PROVE FALSE
      BY DEF Outside
    <3>2. t[2] <= n
      BY <1>0, <1>6, <3>1
    <3>3. t \in Tags(r)
      BY <1>4, <3>2
    <3> QED
      BY <2>2, <3>1, <3>3 DEF Outside
  <2> QED
    BY <2>1, <2>2
<1>9. Upto(r, c) = Upto(s, c)
  <2>1. {k \in 1 .. c : Outside(r, k)} = {k \in 1 .. c : Outside(s, k)}
    BY <1>8
  <2>2. \A k \in 1 .. c : Channel(InsideThinking(r, k)) = Channel(InsideThinking(s, k))
    <3>1. SUFFICES ASSUME NEW k \in 1 .. c
                   PROVE  Channel(InsideThinking(r, k)) = Channel(InsideThinking(s, k))
      OBVIOUS
    <3>2. k \in 1 .. c + 1
      BY <1>0
    <3>3. InsideThinking(r, k) <=> InsideThinking(s, k)
      BY <1>7, <3>2
    <3> QED
      BY <3>3 DEF Channel
  <2> QED
    BY <2>1, <2>2 DEF Upto
<1>10. c + 1 \in 1 .. c + 1
  BY <1>0
<1> QED
  BY <1>1, <1>5, <1>7, <1>9, <1>10

\* What the panes should show of all of s is what reading s at once gives.
LEMMA UptoAll ==
  ASSUME NEW s \in Seq(STRING)
  PROVE  Upto(s, Len(s)) = Read(s)
<1>1. DOMAIN s = 1 .. Len(s)
  OBVIOUS
<1> QED
  BY <1>1 DEF Upto, Read

\* With paired tags, what is stripped is what is in a tag or shown as reasoning.
LEMMA StrippedIs ==
  ASSUME NEW s \in Seq(STRING), Paired(s), NEW k \in 1 .. Len(s)
  PROVE  Stripped(s, k) <=> ~Outside(s, k) \/ InsideThinking(s, k)
<1>0. \A t \in Tags(s) : t[1] \in Int /\ t[2] \in Int /\ t[1] < t[2]
  BY TagIs
<1>1. \A t \in Tags(s), u \in Tags(s) : t = u \/ t[2] < u[1] \/ u[2] < t[1]
  BY TagsApart
<1>2. ASSUME NEW o \in Tags(s), ~Shuts(s, o)
      PROVE  \E c \in Tags(s) : /\ Shuts(s, c) /\ o[1] < c[1]
                                /\ \A d \in Tags(s) : Shuts(s, d) /\ o[1] < d[1] => c[1] <= d[1]
  <2>1. PICK l \in Tags(s) : Shuts(s, l) /\ \A u \in Tags(s) : u[1] <= l[1]
    BY DEF Paired
  <2>2. o[1] < l[1]
    <3>1. o # l /\ o[1] <= l[1]
      BY <1>2, <2>1
    <3> QED
      BY <1>0, <1>1, <3>1
  <2> DEFINE T == {d \in Tags(s) : Shuts(s, d) /\ o[1] < d[1]}
  <2>3. T \in SUBSET Tags(s) /\ T # {}
    BY <2>1, <2>2
  <2>4. PICK c \in T : \A d \in T : c[1] <= d[1]
    BY <2>3, FirstOf
  <2> QED
    BY <2>4
<1>3. ASSUME ~Outside(s, k) PROVE Stripped(s, k)
  <2>1. PICK t \in Tags(s) : t[1] <= k /\ k <= t[2]
    BY <1>0, <1>3 DEF Outside
  <2>2. CASE ~Shuts(s, t)
    <3>1. PICK c \in Tags(s) : /\ Shuts(s, c) /\ t[1] < c[1]
                               /\ \A d \in Tags(s) : Shuts(s, d) /\ t[1] < d[1] => c[1] <= d[1]
      BY <1>2, <2>2
    <3>2. k <= c[2]
      BY <1>0, <1>1, <2>1, <3>1
    <3> QED
      BY <2>1, <2>2, <3>1, <3>2 DEF Stripped
  <2>3. CASE Shuts(s, t)
    <3>1. InsideThinking(s, t[1])
      BY <2>3 DEF Paired
    <3>2. PICK o \in Tags(s) : /\ o[2] < t[1] /\ ~Shuts(s, o)
                               /\ \A u \in Tags(s) : u[2] < t[1] => u[1] <= o[1]
      BY <3>1 DEF InsideThinking
    <3>3. o[1] < t[1] /\ o[1] <= k
      BY <1>0, <2>1, <3>2
    <3>4. ASSUME NEW d \in Tags(s), o[1] < d[1] PROVE t[1] <= d[1]
      <4>1. ~(d[2] < t[1])
        BY <1>0, <3>2, <3>4
      <4> QED
        BY <1>0, <1>1, <4>1
    <3> QED
      BY <2>1, <2>3, <3>2, <3>3, <3>4 DEF Stripped
  <2> QED
    BY <2>2, <2>3
<1>4. ASSUME InsideThinking(s, k) PROVE Stripped(s, k)
  <2>1. PICK o \in Tags(s) : /\ o[2] < k /\ ~Shuts(s, o)
                             /\ \A u \in Tags(s) : u[2] < k => u[1] <= o[1]
    BY <1>4 DEF InsideThinking
  <2>2. PICK c \in Tags(s) : /\ Shuts(s, c) /\ o[1] < c[1]
                             /\ \A d \in Tags(s) : Shuts(s, d) /\ o[1] < d[1] => c[1] <= d[1]
    BY <1>2, <2>1
  <2>3. ~(c[2] < k)
    BY <1>0, <2>1, <2>2
  <2>4. o[1] <= k /\ k <= c[2]
    BY <1>0, <2>1, <2>3
  <2> QED
    BY <2>1, <2>2, <2>4 DEF Stripped
<1>5. ASSUME Stripped(s, k), Outside(s, k) PROVE InsideThinking(s, k)
  <2>1. PICK o \in Tags(s), c \in Tags(s) :
          /\ ~Shuts(s, o) /\ Shuts(s, c) /\ o[1] <= k /\ k <= c[2] /\ o[1] < c[1]
          /\ \A d \in Tags(s) : Shuts(s, d) /\ o[1] < d[1] => c[1] <= d[1]
    BY <1>5 DEF Stripped
  <2>2. k \notin o[1] .. o[2] /\ k \notin c[1] .. c[2]
    BY <1>5, <2>1 DEF Outside
  <2>3. o[2] < k /\ k < c[1]
    BY <1>0, <2>1, <2>2
  <2> DEFINE T == {t \in Tags(s) : t[2] < k}
  <2>4. T \in SUBSET Tags(s) /\ T # {}
    BY <2>1, <2>3
  <2>5. PICK t \in T : \A u \in T : u[1] <= t[1]
    BY <2>4, LastOf
  <2>6. t \in Tags(s) /\ t[2] < k /\ \A u \in Tags(s) : u[2] < k => u[1] <= t[1]
    BY <2>5
  <2>7. ~Shuts(s, t)
    <3>1. SUFFICES ASSUME Shuts(s, t) PROVE FALSE
      OBVIOUS
    <3>2. o # t /\ o[1] <= t[1]
      BY <2>1, <2>3, <2>6, <3>1
    <3>3. o[1] < t[1]
      BY <1>0, <1>1, <2>6, <3>2
    <3>4. c[1] <= t[1]
      BY <2>1, <2>6, <3>1, <3>3
    <3> QED
      BY <1>0, <2>3, <2>6, <3>4
  <2> QED
    BY <2>6, <2>7 DEF InsideThinking
<1> QED
  BY <1>3, <1>4, <1>5

\* What a pane shows in the answer.
LEMMA AnswerOf ==
  ASSUME NEW s \in Seq(STRING), NEW p, Pieces(p) = Read(s)
  PROVE  Answer(p) = {k \in 1 .. Len(s) : Outside(s, k) /\ ~InsideThinking(s, k)}
<1>0. DOMAIN s = 1 .. Len(s)
  OBVIOUS
<1>1. ASSUME NEW k \in Answer(p) PROVE k \in 1 .. Len(s) /\ Outside(s, k) /\ ~InsideThinking(s, k)
  <2>1. PICK i \in DOMAIN p : p[i].in = "assistant" /\ k = p[i].at
    BY DEF Answer
  <2>2. p[i] \in Read(s)
    BY DEF Pieces
  <2>3. PICK h \in 1 .. Len(s) :
          Outside(s, h) /\ p[i] = [in |-> Channel(InsideThinking(s, h)), at |-> h]
    BY <1>0, <2>2 DEF Read
  <2>4. h = k /\ Channel(InsideThinking(s, h)) = "assistant"
    BY <2>1, <2>3
  <2>5. ~InsideThinking(s, h)
    BY <2>4 DEF Channel
  <2> QED
    BY <2>3, <2>4, <2>5
<1>2. ASSUME NEW k \in 1 .. Len(s), Outside(s, k), ~InsideThinking(s, k) PROVE k \in Answer(p)
  <2>1. [in |-> Channel(InsideThinking(s, k)), at |-> k] \in Pieces(p)
    BY <1>0, <1>2 DEF Read
  <2>2. PICK i \in DOMAIN p : p[i] = [in |-> Channel(InsideThinking(s, k)), at |-> k]
    BY <2>1 DEF Pieces
  <2>3. Channel(InsideThinking(s, k)) = "assistant"
    BY <1>2 DEF Channel
  <2>4. p[i].in = "assistant" /\ p[i].at = k
    BY <2>2, <2>3
  <2> QED
    BY <2>4 DEF Answer
<1> QED
  BY <1>1, <1>2

\* The cut of a text into chunks is not seen (nodes.py 270, 893), and what is stored of a
\* text with paired tags is what was shown as the answer (session_runner.py 519): for
\* every text, every word and every cut.
THEOREM SplitsAlikeHolds == TagSpec => []SplitsAlike
<1>1. TagInv => SplitsAlike
  <2> SUFFICES ASSUME TagInv PROVE SplitsAlike
    OBVIOUS
  <2>0. /\ text \in Seq(STRING) /\ Len(text) \in Nat /\ buf \in Seq(STRING) /\ Len(buf) \in Nat
        /\ fed \in Nat /\ fed <= Len(text) /\ Done \in Nat /\ fed = Done + Len(buf)
        /\ panes \in Seq(Pane) /\ thinking \in BOOLEAN
        /\ \A t \in Tags(text) : t[2] <= Done \/ Done < t[1]
        /\ InOrder(panes) /\ Pieces(panes) = Upto(text, Done)
    BY TagFacts DEF TagInv
  <2>1. ASSUME feeding = "no"
        PROVE  Pieces(panes \o Shown(Len(buf))) = Read(SubSeq(text, 1, fed))
    <3>1. PICK r : r = SubSeq(text, 1, fed)
      OBVIOUS
    <3>2. PICK c \in Nat : c = Done
      BY <2>0
    <3>3. /\ text \in Seq(STRING) /\ fed \in 0 .. Len(text) /\ c \in 0 .. fed
          /\ \A t \in Tags(text) : t[2] <= c \/ c < t[1]
      BY <2>0, <3>2
    <3>4. /\ r \in Seq(STRING) /\ Len(r) = fed /\ Upto(r, c) = Upto(text, c)
          /\ InsideThinking(r, c + 1) <=> InsideThinking(text, c + 1)
          /\ Tags(r) = {t \in Tags(text) : t[2] <= fed}
      BY <3>1, <3>3, UptoOfPrefix
    <3>5. ASSUME NEW t \in Tags(r) PROVE t[2] <= c
      <4>1. t \in Tags(text) /\ t[2] <= fed
        BY <3>4
      <4>2. Tags(buf) = {}
        BY <2>1 DEF TagInv
      <4>3. ~(Done < t[1])
        BY <4>1, <4>2, TagArrived
      <4> QED
        BY <2>0, <3>2, <4>1, <4>3
    <3>6. PICK e : e = Shown(Len(buf))
      OBVIOUS
    <3>7. e = Lot(Len(buf), thinking, c)
      BY <3>2, <3>6 DEF Shown, Lot
    <3>8. (thinking <=> InsideThinking(r, c + 1)) /\ Pieces(panes) = Upto(r, c)
      <4>1. thinking <=> InsideThinking(text, Done + 1)
        BY DEF TagInv
      <4> QED
        BY <2>0, <3>2, <3>4, <4>1
    <3>9. Pieces(panes \o e) = Upto(r, c + Len(buf))
      BY <2>0, <3>4, <3>5, <3>7, <3>8, Emitted
    <3>10. c + Len(buf) = Len(r)
      BY <2>0, <3>2, <3>4
    <3> QED
      BY <3>1, <3>4, <3>6, <3>9, <3>10, UptoAll
  <2>2. ASSUME feeding = "over" PROVE Pieces(panes) = Read(text)
    <3>1. fed = Len(text) /\ buf = <<>>
      BY <2>2 DEF TagInv
    <3>2. Len(buf) = 0
      BY <3>1
    <3>3. Done = Len(text)
      BY <2>0, <3>1, <3>2
    <3> QED
      BY <2>0, <3>3, UptoAll
  <2>3. ASSUME feeding = "over", Paired(text) PROVE Stored(text) = Answer(panes)
    <3>1. Answer(panes) = {k \in 1 .. Len(text) : Outside(text, k) /\ ~InsideThinking(text, k)}
      BY <2>0, <2>2, <2>3, AnswerOf
    <3>2. \A k \in 1 .. Len(text) : Stripped(text, k) <=> ~Outside(text, k) \/ InsideThinking(text, k)
      BY <2>0, <2>3, StrippedIs
    <3>3. Stored(text) = {k \in 1 .. Len(text) : ~Stripped(text, k)}
      BY <2>0 DEF Stored
    <3> QED
      BY <3>1, <3>2, <3>3
  <2> QED
    BY <2>0, <2>1, <2>2, <2>3 DEF SplitsAlike
<1> QED
  BY <1>1, TagInvariant, PTL

\* Types of the splitter and of what it shows.
THEOREM TagTypesHold == TagSpec => []TagTypeOK
<1>1. TagInv => TagTypeOK
  <2> SUFFICES ASSUME TagInv PROVE TagTypeOK
    OBVIOUS
  <2>0. /\ Len(text) \in Nat /\ fed \in Nat /\ Done \in Nat /\ Len(buf) \in Nat
        /\ fed = Done + Len(buf) /\ panes \in Seq(Pane) /\ Pieces(panes) = Upto(text, Done)
    BY TagFacts DEF TagInv
  <2>1. ASSUME NEW i \in DOMAIN panes
        PROVE  panes[i].in \in {"thinking", "assistant"} /\ panes[i].at \in 1 .. fed
    <3>1. panes[i] \in Upto(text, Done)
      BY <2>0 DEF Pieces
    <3>2. PICK k \in 1 .. Done :
            panes[i] = [in |-> Channel(InsideThinking(text, k)), at |-> k]
      BY <3>1 DEF Upto
    <3>3. panes[i].at = k /\ panes[i].in = Channel(InsideThinking(text, k))
      BY <3>2
    <3>4. k \in 1 .. fed
      BY <2>0
    <3> QED
      BY <3>3, <3>4 DEF Channel
  <2>2. /\ fed \in 0 .. Len(text) /\ Len(buf) <= fed /\ thinking \in BOOLEAN
        /\ feeding \in {"no", "yes", "over"}
    BY DEF TagInv, TagTypes
  <2> QED
    BY <2>1, <2>2 DEF TagTypeOK
<1> QED
  BY <1>1, TagInvariant, PTL

-----------------------------------------------------------------------------
(***************************************************************************)
(* All services.                                                              *)
(***************************************************************************)
\* Types of the settings, from the invariants of the choice and of the bills.
THEOREM SettingsTypesHold == SettingsSpec => []SettingsTypeOK
<1>1. ChoiceInv /\ BillInv => SettingsTypeOK
  <2> SUFFICES ASSUME ChoiceInv, BillInv PROVE SettingsTypeOK
    OBVIOUS
  <2>1. ChoiceTypes /\ PriceTypes /\ UsageTypes
    BY DEF ChoiceInv, BillInv
  <2>2. /\ active \in (Providers \cup {Unset}) \X (Models \cup {Unset})
        /\ globals \in Providers \X Models
    BY <2>1 DEF ChoiceTypes
  <2>3. \A p \in Providers : {keys[p], urls[p]} \subseteq Requests \cup {Unset}
    BY <2>1 DEF ChoiceTypes
  <2>4. \A m \in Models : price[m] \in Requests \cup {Unset}
    BY <2>1 DEF PriceTypes
  <2>5. \A t \in Chats : turn[t].used + turn[t].others <= MaxUses
    BY <2>1, SettingsAssumption DEF UsageTypes, Uses, Modest
  <2> QED
    BY <2>2, <2>3, <2>4, <2>5 DEF SettingsTypeOK
<1> QED
  BY <1>1, ChoiceInvariant, BillInvariant, PTL

\* Types of all services, for any number of everything.
THEOREM ServicesTypesHold == ServicesSpec => []ServicesTypeOK
<1>1. SubInv => SubTypeOK
  BY DEF SubInv, SubTypes
<1> QED
  BY <1>1, SubInvariant, StreamTypesHold, TagTypesHold, SettingsTypesHold, AccountTypesHold,
    NameTypesHold, PTL DEF ServicesSpec, ServicesTypeOK
=============================================================================
