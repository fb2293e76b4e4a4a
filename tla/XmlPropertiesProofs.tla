------------------------ MODULE XmlPropertiesProofs ------------------------
(***************************************************************************)
(* Proofs about XmlProperties for lists of any length, over any names, as  *)
(* the generators pass them: a first list that is not empty, and no name   *)
(* twice in one of the two.                                                *)
(*                                                                         *)
(* The code remembers where a name is in the concatenation and uses the    *)
(* index in the result.  That is right as long as the two agree, which     *)
(* they do for the first list; IInv shows that no other index is used.     *)
(***************************************************************************)
EXTENDS XmlProperties, TLAPS

(* The lists are as the generators pass them. *)
InputInv ==
  /\ origin \in Seq(Names) /\ props \in Seq(Names)
  /\ origin # <<>> /\ HasNoDuplicates(origin) /\ HasNoDuplicates(props)

(* There is no panic, and the merge ends at the end of the lists. *)
ControlInv ==
  /\ pc \in {"start", "loop", "done"}
  /\ idx \in 0 .. Len(collect)
  /\ pc = "done" => idx = Len(collect)

(* The map has the names met so far, at an index where they are. *)
KeysInv ==
  /\ keys \in [Names -> Int]
  /\ \A k \in 0 .. idx - 1 : keys[NameOf(k)] # -1
  /\ \A x \in Names : keys[x] # -1 => keys[x] \in 0 .. idx - 1 /\ NameOf(keys[x]) = x

(* The result has indices met so far; it grows with the first list. *)
LengthInv ==
  /\ distinct \in Seq(Int)
  /\ idx <= Len(origin) => Len(distinct) = idx
  /\ idx >= Len(origin) => Len(distinct) >= Len(origin)

EntryInv == \A i \in DOMAIN distinct : distinct[i] \in 0 .. idx - 1

(* The names of the first list are at their places. *)
FrontInv == \A i \in DOMAIN distinct : i <= Len(origin) => NameOf(distinct[i]) = origin[i]

(* Each name is there once, with its last value so far. *)
OnceInv == \A i, j \in DOMAIN distinct : NameOf(distinct[i]) = NameOf(distinct[j]) => i = j
LastInv ==
  \A k \in 0 .. idx - 1 :
    \E i \in DOMAIN distinct : NameOf(distinct[i]) = NameOf(k) /\ distinct[i] >= k

IInv ==
  InputInv /\ ControlInv /\ KeysInv /\ LengthInv /\ EntryInv /\ FrontInv /\ OnceInv /\ LastInv

-----------------------------------------------------------------------------
(* Sequences of numbers that get one more, or another one in a place. *)
LEMMA AppendFacts ==
  ASSUME NEW s \in Seq(Int), NEW x \in Int
  PROVE  /\ Append(s, x) \in Seq(Int) /\ Len(s) \in Nat
         /\ Len(Append(s, x)) = Len(s) + 1
         /\ DOMAIN s = 1 .. Len(s) /\ DOMAIN Append(s, x) = 1 .. Len(s) + 1
         /\ \A i \in 1 .. Len(s) : Append(s, x)[i] = s[i]
         /\ Append(s, x)[Len(s) + 1] = x
OBVIOUS

LEMMA ExceptFacts ==
  ASSUME NEW s \in Seq(Int), NEW x \in Int, NEW d \in 1 .. Len(s)
  PROVE  /\ [s EXCEPT ![d] = x] \in Seq(Int) /\ Len(s) \in Nat
         /\ Len([s EXCEPT ![d] = x]) = Len(s)
         /\ DOMAIN s = 1 .. Len(s) /\ DOMAIN [s EXCEPT ![d] = x] = 1 .. Len(s)
         /\ \A i \in 1 .. Len(s) : i # d => [s EXCEPT ![d] = x][i] = s[i]
         /\ [s EXCEPT ![d] = x][d] = x
OBVIOUS

(* The concatenation, by index. *)
LEMMA Concatenation ==
  ASSUME InputInv
  PROVE  /\ Len(collect) = Len(origin) + Len(props)
         /\ \A k \in 0 .. Len(collect) - 1 :
              /\ NameOf(k) \in Names
              /\ k < Len(origin) => NameOf(k) = origin[k + 1]
              /\ k >= Len(origin) => NameOf(k) = props[k + 1 - Len(origin)]
BY DEF InputInv, collect, NameOf

(* A name that is met a second time was met in the first list. *)
LEMMA Repetition ==
  ASSUME InputInv, NEW k \in 0 .. Len(collect) - 1, NEW j \in 0 .. Len(collect) - 1,
         k < j, NameOf(k) = NameOf(j)
  PROVE  k < Len(origin) /\ j >= Len(origin)
<1>1. Len(origin) \in Nat /\ Len(props) \in Nat
  BY DEF InputInv
<1>2. ASSUME j < Len(origin) PROVE FALSE
  <2>1. k + 1 \in DOMAIN origin /\ j + 1 \in DOMAIN origin
    BY <1>1, <1>2 DEF InputInv
  <2>2. origin[k + 1] = origin[j + 1]
    BY <1>1, <1>2, Concatenation, SMTT(60)
  <2> QED
    BY <2>1, <2>2 DEF InputInv, HasNoDuplicates
<1>3. ASSUME k >= Len(origin) PROVE FALSE
  <2>1. k + 1 - Len(origin) \in DOMAIN props /\ j + 1 - Len(origin) \in DOMAIN props
    BY <1>1, <1>3, Concatenation, SMTT(60) DEF InputInv
  <2>2. /\ NameOf(k) = props[k + 1 - Len(origin)]
        /\ NameOf(j) = props[j + 1 - Len(origin)]
    <3>1. k \in Nat /\ j \in Nat /\ j >= Len(origin)
      BY <1>1, <1>3, Concatenation
    <3> QED
      BY <1>3, <3>1, Concatenation, SMTT(60)
  <2>3. k + 1 - Len(origin) = j + 1 - Len(origin)
    BY <2>1, <2>2, ZenonT(60) DEF InputInv, HasNoDuplicates
  <2> QED
    BY <1>1, <2>3
<1> QED
  BY <1>1, <1>2, <1>3

LEMMA IInvInit == ASSUME CallersInputs PROVE Init => IInv
<1> SUFFICES ASSUME Init PROVE IInv
  OBVIOUS
<1>1. InputInv
  BY SMTT(60) DEF Init, Lists, InputInv
<1>2. Len(collect) \in Nat /\ Len(origin) \in Nat /\ Len(origin) > 0
  BY <1>1, Concatenation DEF InputInv
<1>3. ControlInv /\ KeysInv
  BY <1>2 DEF Init, ControlInv, KeysInv
<1>4. LengthInv /\ EntryInv /\ FrontInv /\ OnceInv /\ LastInv
  BY <1>2 DEF Init, LengthInv, EntryInv, FrontInv, OnceInv, LastInv
<1> QED
  BY <1>1, <1>3, <1>4 DEF IInv

(* A name that is new. *)
LEMMA AppendNewStep == ASSUME IInv, AppendNew PROVE IInv'
<1>1. UNCHANGED <<origin, props, collect>>
  BY DEF AppendNew, collect, NameOf
<1>2. InputInv' /\ InputInv
  BY DEF IInv, AppendNew, InputInv, HasNoDuplicates
<1>3. /\ idx \in Nat /\ idx' = idx + 1 /\ idx < Len(collect)
      /\ Len(collect) \in Nat /\ Len(origin) \in Nat
      /\ NameOf(idx) \in Names
  BY <1>2, Concatenation DEF IInv, ControlInv, AppendNew, InputInv
<1>4. ControlInv'
  BY <1>1, <1>3 DEF IInv, ControlInv, AppendNew
<1>5. KeysInv'
  BY <1>1, <1>3, SMTT(60) DEF IInv, KeysInv, AppendNew, NameOf
<1>6. /\ distinct \in Seq(Int) /\ Len(distinct) \in Nat
      /\ distinct' \in Seq(Int) /\ Len(distinct') = Len(distinct) + 1
      /\ DOMAIN distinct = 1 .. Len(distinct) /\ DOMAIN distinct' = 1 .. Len(distinct) + 1
      /\ \A i \in 1 .. Len(distinct) : distinct'[i] = distinct[i]
      /\ distinct'[Len(distinct) + 1] = idx
  BY <1>3, AppendFacts DEF IInv, LengthInv, AppendNew
<1>7. LengthInv'
  <2>1. /\ idx <= Len(origin) => Len(distinct) = idx
        /\ idx >= Len(origin) => Len(distinct) >= Len(origin)
    BY DEF IInv, LengthInv
  <2>2. /\ idx + 1 <= Len(origin) => Len(distinct) + 1 = idx + 1
        /\ idx + 1 >= Len(origin) => Len(distinct) + 1 >= Len(origin)
    <3>1. Len(distinct) \in Nat /\ Len(origin) \in Nat /\ idx \in Nat
      BY <1>3, <1>6
    <3> QED
      BY <2>1, <3>1
  <2>3. Len(origin') = Len(origin) /\ Len(distinct') = Len(distinct) + 1 /\ idx' = idx + 1
    BY <1>1, <1>3, <1>6
  <2> QED
    BY <1>6, <2>2, <2>3 DEF LengthInv
<1>8. \A i \in 1 .. Len(distinct) : distinct[i] \in 0 .. idx - 1
  BY <1>6, SMTT(60) DEF IInv, EntryInv
<1>9. EntryInv'
  BY <1>3, <1>6, <1>8, SMTT(60) DEF EntryInv
<1>10. FrontInv'
  <2> SUFFICES ASSUME NEW i \in 1 .. Len(distinct) + 1, i <= Len(origin)
               PROVE  NameOf(distinct'[i]) = origin[i]
    BY <1>1, <1>6 DEF FrontInv, NameOf
  <2>1. CASE i \in 1 .. Len(distinct)
    BY <1>6, <2>1, SMTT(60) DEF IInv, FrontInv
  <2>2. CASE i = Len(distinct) + 1
    <3>1. Len(distinct) = idx /\ idx < Len(origin)
      <4>1. /\ idx <= Len(origin) => Len(distinct) = idx
            /\ idx >= Len(origin) => Len(distinct) >= Len(origin)
        BY DEF IInv, LengthInv
      <4>2. /\ Len(distinct) \in Nat /\ Len(origin) \in Nat /\ idx \in Nat
            /\ Len(distinct) + 1 <= Len(origin)
        BY <1>3, <1>6, <2>2
      <4> QED
        BY <4>1, <4>2
    <3>2. NameOf(idx) = origin[idx + 1]
      BY <1>2, <1>3, <3>1, Concatenation
    <3> QED
      BY <1>6, <2>2, <3>1, <3>2
  <2> QED
    BY <1>6, <2>1, <2>2
<1>11. OnceInv'
  <2>1. ASSUME NEW i \in 1 .. Len(distinct) PROVE NameOf(distinct[i]) # NameOf(idx)
    <3>1. keys[NameOf(distinct[i])] # -1
      BY <1>8 DEF IInv, KeysInv
    <3> QED
      BY <3>1 DEF AppendNew
  <2> SUFFICES ASSUME NEW i \in 1 .. Len(distinct) + 1, NEW j \in 1 .. Len(distinct) + 1,
                      NameOf(distinct'[i]) = NameOf(distinct'[j])
               PROVE  i = j
    BY <1>1, <1>6, SMTT(60) DEF OnceInv, NameOf
  <2>2. CASE i \in 1 .. Len(distinct) /\ j \in 1 .. Len(distinct)
    BY <1>6, <2>2, ZenonT(60) DEF IInv, OnceInv
  <2>3. CASE i = Len(distinct) + 1 /\ j \in 1 .. Len(distinct)
    BY <1>6, <2>1, <2>3
  <2>4. CASE j = Len(distinct) + 1 /\ i \in 1 .. Len(distinct)
    BY <1>6, <2>1, <2>4
  <2> QED
    BY <1>6, <2>2, <2>3, <2>4, SMTT(60)
<1>12. LastInv'
  <2> SUFFICES ASSUME NEW k \in 0 .. idx
               PROVE  \E i \in 1 .. Len(distinct) + 1 :
                        NameOf(distinct'[i]) = NameOf(k) /\ distinct'[i] >= k
    <3>1. 0 .. idx' - 1 = 0 .. idx
      BY <1>3
    <3> QED
      BY <1>1, <1>6, <3>1, ZenonT(60) DEF LastInv, NameOf
  <2>1. CASE k = idx
    BY <1>3, <1>6, <2>1
  <2>2. CASE k \in 0 .. idx - 1
    <3>1. PICK i \in 1 .. Len(distinct) : NameOf(distinct[i]) = NameOf(k) /\ distinct[i] >= k
      BY <1>6, <2>2 DEF IInv, LastInv
    <3> QED
      BY <1>6, <3>1
  <2> QED
    BY <1>3, <2>1, <2>2
<1> QED
  BY <1>2, <1>4, <1>5, <1>7, <1>9, <1>10, <1>11, <1>12 DEF IInv

(* A name that is known is one of the first list, whose place is the       *)
(* remembered index: the entry that is overwritten is the name's.          *)
LEMMA OverrideExistingStep == ASSUME IInv, OverrideExisting PROVE IInv'
<1> DEFINE e == keys[NameOf(idx)]
<1>1. UNCHANGED <<origin, props, collect>>
  BY DEF OverrideExisting, collect, NameOf
<1>2. InputInv' /\ InputInv
  BY DEF IInv, OverrideExisting, InputInv, HasNoDuplicates
<1>3. /\ idx \in Nat /\ idx' = idx + 1 /\ idx < Len(collect)
      /\ Len(collect) \in Nat /\ Len(origin) \in Nat
      /\ NameOf(idx) \in Names
  BY <1>2, Concatenation DEF IInv, ControlInv, OverrideExisting, InputInv
<1>4. e \in 0 .. idx - 1 /\ NameOf(e) = NameOf(idx)
  BY <1>3 DEF IInv, KeysInv, OverrideExisting
<1>5. e < Len(origin) /\ idx >= Len(origin)
  BY <1>2, <1>3, <1>4, Repetition
<1>6. Len(distinct) >= Len(origin) /\ distinct \in Seq(Int) /\ Len(distinct) \in Nat
  BY <1>5 DEF IInv, LengthInv
<1>7. distinct' = [distinct EXCEPT ![e + 1] = idx] /\ UNCHANGED pc
  BY <1>3, <1>4, <1>5, <1>6, SMTT(60) DEF OverrideExisting
<1>8. ControlInv'
  BY <1>1, <1>3, <1>7 DEF IInv, ControlInv, OverrideExisting
<1>9. KeysInv'
  BY <1>1, <1>3, SMTT(60) DEF IInv, KeysInv, OverrideExisting, NameOf
<1>10. e + 1 \in 1 .. Len(distinct)
  BY <1>3, <1>4, <1>5, <1>6, SMTT(60)
<1>11. /\ distinct' \in Seq(Int) /\ Len(distinct') = Len(distinct)
       /\ DOMAIN distinct = 1 .. Len(distinct) /\ DOMAIN distinct' = 1 .. Len(distinct)
       /\ \A i \in 1 .. Len(distinct) : i # e + 1 => distinct'[i] = distinct[i]
       /\ distinct'[e + 1] = idx
  <2> HIDE DEF e
  <2> QED
    BY <1>3, <1>6, <1>7, <1>10, ExceptFacts
<1>12. LengthInv'
  <2>1. ~(idx + 1 <= Len(origin))
    BY <1>3, <1>5
  <2>2. Len(origin') = Len(origin) /\ Len(distinct') = Len(distinct) /\ idx' = idx + 1
    BY <1>1, <1>3, <1>11
  <2> QED
    BY <1>6, <1>11, <2>1, <2>2 DEF LengthInv
<1>13. \A i \in 1 .. Len(distinct) : distinct[i] \in 0 .. idx - 1
  BY <1>11 DEF IInv, EntryInv
<1>14. EntryInv'
  <2> HIDE DEF e
  <2> QED
    BY <1>3, <1>11, <1>13, SMTT(60) DEF EntryInv
<1>15. NameOf(distinct[e + 1]) = NameOf(idx)
  <2>1. e + 1 <= Len(origin) /\ e + 1 \in DOMAIN distinct
    BY <1>3, <1>4, <1>5, <1>10, <1>11, SMTT(60)
  <2>2. NameOf(distinct[e + 1]) = origin[e + 1]
    BY <2>1 DEF IInv, FrontInv
  <2>3. NameOf(e) = origin[e + 1]
    BY <1>2, <1>3, <1>4, <1>5, Concatenation
  <2> QED
    BY <1>4, <2>2, <2>3
<1>16. \A i \in 1 .. Len(distinct) : NameOf(distinct'[i]) = NameOf(distinct[i])
  <2> HIDE DEF e
  <2> QED
    BY <1>11, <1>15
<1>17. FrontInv'
  BY <1>1, <1>11, <1>16, ZenonT(60) DEF IInv, FrontInv, NameOf
<1>18. OnceInv'
  BY <1>1, <1>11, <1>16, SMTT(60) DEF IInv, OnceInv, NameOf
<1>19. LastInv'
  <2> SUFFICES ASSUME NEW k \in 0 .. idx
               PROVE  \E i \in 1 .. Len(distinct) :
                        NameOf(distinct'[i]) = NameOf(k) /\ distinct'[i] >= k
    <3>1. 0 .. idx' - 1 = 0 .. idx
      BY <1>3
    <3> QED
      BY <1>1, <1>11, <3>1, ZenonT(60) DEF LastInv, NameOf
  <2> HIDE DEF e
  <2>1. CASE k = idx
    BY <1>3, <1>10, <1>11, <1>15, <1>16, <2>1
  <2>2. CASE k \in 0 .. idx - 1
    <3>1. PICK i \in 1 .. Len(distinct) : NameOf(distinct[i]) = NameOf(k) /\ distinct[i] >= k
      BY <1>11, <2>2 DEF IInv, LastInv
    <3>2. distinct'[i] >= k
      <4>1. CASE i = e + 1
        BY <1>3, <1>11, <2>2, <4>1
      <4>2. CASE i # e + 1
        BY <1>11, <3>1, <4>2
      <4> QED
        BY <4>1, <4>2
    <3> QED
      BY <1>16, <3>1, <3>2
  <2> QED
    BY <1>3, <2>1, <2>2
<1> QED
  BY <1>2, <1>8, <1>9, <1>12, <1>14, <1>17, <1>18, <1>19 DEF IInv

LEMMA Inductive == ASSUME CallersInputs PROVE Spec => []IInv
<1>1. IInv /\ [Next]_vars => IInv'
  <2> SUFFICES ASSUME IInv, [Next]_vars PROVE IInv'
    OBVIOUS
  <2>1. CASE String \/ Finish \/ UNCHANGED vars
    <3>1. UNCHANGED <<origin, props, idx, distinct, keys, collect>>
      BY <2>1, SMTT(60) DEF String, Finish, vars, collect, NameOf
    <3>2. InputInv' /\ KeysInv' /\ LengthInv' /\ EntryInv'
      BY <3>1 DEF IInv, InputInv, HasNoDuplicates, KeysInv, LengthInv, EntryInv, NameOf
    <3>3. FrontInv' /\ OnceInv' /\ LastInv'
      BY <3>1 DEF IInv, FrontInv, OnceInv, LastInv, NameOf
    <3>4. ControlInv'
      BY <2>1, <3>1 DEF IInv, InputInv, ControlInv, String, Finish, vars
    <3> QED
      BY <3>2, <3>3, <3>4 DEF IInv
  <2> QED
    BY <2>1, AppendNewStep, OverrideExistingStep DEF Next
<1> QED
  BY <1>1, IInvInit, PTL DEF Spec

-----------------------------------------------------------------------------
(* On lists as the generators pass them, the merge does not panic and      *)
(* gives every name one entry, with the name's last value.                 *)
THEOREM LastValueWinsHolds == ASSUME CallersInputs PROVE Spec => []LastValueWins
<1>1. IInv => LastValueWins
  BY DEF IInv, ControlInv, OnceInv, LastInv, LastValueWins
<1> QED
  BY <1>1, Inductive, PTL

(* On such lists the properties of the configuration keep their places.    *)
THEOREM OriginStaysInFrontHolds == ASSUME CallersInputs PROVE Spec => []OriginStaysInFront
<1>1. IInv => OriginStaysInFront
  <2> SUFFICES ASSUME IInv, pc = "done", NEW i \in DOMAIN origin
               PROVE  i <= Len(distinct) /\ NameOf(distinct[i]) = origin[i]
    BY DEF OriginStaysInFront
  <2>1. idx >= Len(origin) /\ i \in 1 .. Len(origin) /\ Len(origin) \in Nat
    BY Concatenation DEF IInv, InputInv, ControlInv
  <2>2. Len(distinct) >= Len(origin) /\ DOMAIN distinct = 1 .. Len(distinct)
        /\ Len(distinct) \in Nat
    BY <2>1 DEF IInv, LengthInv
  <2> QED
    BY <2>1, <2>2 DEF IInv, FrontInv
<1> QED
  BY <1>1, Inductive, PTL

-----------------------------------------------------------------------------
LEMMA ListsAreSequences == Lists \subseteq Seq(Names)
BY InputsAssumption DEF Lists

(* The loop stays in the lists and refers to pairs it has met, also for    *)
(* lists that no generator passes, where it may panic or repeat a name.    *)
THEOREM MergeTypeCorrect == Spec => []TypeOK
<1> DEFINE Typed == TypeOK /\ distinct \in Seq(Int)
<1>1. Init => Typed
  <2> SUFFICES ASSUME Init PROVE Typed
    OBVIOUS
  <2>1. origin \in Seq(Names) /\ props \in Seq(Names)
    BY SMTT(60) DEF Init, Lists
  <2>2. Len(collect) \in Nat
    BY <2>1 DEF collect
  <2> QED
    BY <2>2 DEF Init, TypeOK
<1>2. ASSUME Typed, [Next]_vars PROVE Typed'
  <2>1. UNCHANGED <<origin, props, collect>>
    BY <1>2, SMTT(60)
    DEF Next, String, AppendNew, OverrideExisting, Finish, vars, collect
  <2>2. /\ origin \in Seq(Names) /\ props \in Seq(Names)
        /\ Len(collect) \in Nat /\ idx \in 0 .. Len(collect)
        /\ Len(distinct) \in Nat /\ Len(distinct) <= idx
        /\ DOMAIN distinct = 1 .. Len(distinct)
        /\ \A i \in 1 .. Len(distinct) : distinct[i] \in 0 .. idx - 1
        /\ keys \in [Names -> -1 .. idx - 1]
    <3>1. origin \in Seq(Names) /\ props \in Seq(Names)
      BY <1>2, ListsAreSequences DEF TypeOK
    <3>2. Len(collect) \in Nat
      BY <3>1 DEF collect
    <3>3. Len(distinct) \in Nat /\ DOMAIN distinct = 1 .. Len(distinct)
      BY <1>2
    <3> QED
      BY <1>2, <3>1, <3>2, <3>3, ZenonT(60) DEF TypeOK
  <2>3. idx < Len(collect) => NameOf(idx) \in Names
    BY <2>2, SMTT(60) DEF collect, NameOf
  <2>4. CASE UNCHANGED <<idx, distinct, keys>> /\ pc' \in {"start", "loop", "done"}
    BY <1>2, <2>1, <2>4 DEF TypeOK
  <2>5. CASE AppendNew
    <3>1. /\ idx \in Int /\ idx' = idx + 1 /\ idx < Len(collect)
          /\ distinct' = Append(distinct, idx) /\ UNCHANGED pc
      BY <2>2, <2>5 DEF AppendNew
    <3>2. /\ distinct' \in Seq(Int) /\ Len(distinct') = Len(distinct) + 1
          /\ DOMAIN distinct' = 1 .. Len(distinct) + 1
          /\ \A i \in 1 .. Len(distinct) : distinct'[i] = distinct[i]
          /\ distinct'[Len(distinct) + 1] = idx
      BY <1>2, <3>1, AppendFacts
    <3>3. \A i \in DOMAIN distinct' : distinct'[i] \in 0 .. idx' - 1
      BY <2>2, <3>1, <3>2, SMTT(60)
    <3>4. keys' \in [Names -> -1 .. idx' - 1]
      BY <2>2, <2>3, <2>5, <3>1, SMTT(60) DEF AppendNew
    <3>5. idx' \in 0 .. Len(collect) /\ Len(distinct') <= idx'
      BY <2>2, <3>1, <3>2
    <3> QED
      BY <1>2, <2>1, <3>1, <3>2, <3>3, <3>4, <3>5 DEF TypeOK
  <2>6. CASE OverrideExisting
    <3> DEFINE e == keys[NameOf(idx)]
    <3>1. /\ idx \in Int /\ idx' = idx + 1 /\ idx < Len(collect) /\ UNCHANGED keys
          /\ e # -1
          /\ \/ e < Len(distinct) /\ distinct' = [distinct EXCEPT ![e + 1] = idx] /\ UNCHANGED pc
             \/ pc' = "panic" /\ UNCHANGED distinct
      BY <2>2, <2>6 DEF OverrideExisting
    <3>2. e \in -1 .. idx - 1
      BY <2>2, <2>3, <3>1
    <3> HIDE DEF e
    <3>3. e < Len(distinct) => e + 1 \in 1 .. Len(distinct)
      BY <2>2, <3>1, <3>2
    <3>4. /\ distinct' \in Seq(Int) /\ Len(distinct') = Len(distinct)
          /\ DOMAIN distinct' = 1 .. Len(distinct)
          /\ \A i \in 1 .. Len(distinct) : distinct'[i] = distinct[i] \/ distinct'[i] = idx
      <4>1. CASE UNCHANGED distinct
        BY <1>2, <2>2, <4>1
      <4>2. CASE e < Len(distinct) /\ distinct' = [distinct EXCEPT ![e + 1] = idx]
        BY <1>2, <3>1, <3>3, <4>2, ExceptFacts
      <4> QED
        BY <3>1, <4>1, <4>2
    <3>5. \A i \in DOMAIN distinct' : distinct'[i] \in 0 .. idx' - 1
      BY <2>2, <3>1, <3>4, SMTT(60)
    <3>6. keys' \in [Names -> -1 .. idx' - 1]
      BY <2>2, <3>1
    <3>7. idx' \in 0 .. Len(collect) /\ Len(distinct') <= idx'
      BY <2>2, <3>1, <3>4
    <3>8. pc' \in {"start", "loop", "done", "panic"}
      BY <1>2, <3>1 DEF TypeOK
    <3> QED
      BY <1>2, <2>1, <3>4, <3>5, <3>6, <3>7, <3>8 DEF TypeOK
  <2>7. CASE UNCHANGED vars
    BY <1>2, <2>1, <2>7 DEF TypeOK, vars
  <2> QED
    BY <1>2, <2>4, <2>5, <2>6, <2>7 DEF Next, String, Finish
<1> QED
  BY <1>1, <1>2, PTL DEF Spec
=============================================================================
