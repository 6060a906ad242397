--------------------------- MODULE NcColors_proofs ---------------------------
(***************************************************************************)
(* Theorems about NcWindows and NcColors, for any places and handles and   *)
(* any number of colours, pairs and bits of an attribute.                  *)
(***************************************************************************)
EXTENDS NcColors, TLAPS

----------------------------------------------------------------------------
(* The windows.                                                            *)

\* The types, which the properties of the windows do not name.
WindowTypeOK ==
    /\ alive \subseteq Objects
    /\ win \in [Objects -> Pointers \cup {Null}]
    /\ save \in [Objects -> Pointers \cup {Null}]
    /\ subwindows \in [Holders -> Seq(Subs)]
    /\ registered \in [Objects -> Nat]
    /\ parent \in [Subs -> Holders \cup {Null}]
    /\ live \subseteq Pointers

\* An element of a vector lives, at a place of its own, and in the vector of an
\* object that lives.
Vectors ==
    /\ \A o \in Holders : Distinct(subwindows[o]) /\ Elements(o) \subseteq alive
    /\ \A o \in Holders \ alive : subwindows[o] = <<>>
    /\ \A o, p \in Holders : o # p => Elements(o) \cap Elements(p) = {}

\* An object has its window in one of its two fields.
OneField == \A x \in Objects : win[x] = Null \/ save[x] = Null

\* The subwindows of an object without a window have none either: assign, which
\* then keeps them, deletes none of theirs.
NoneWithin ==
    \A o \in Holders : Managed(o) = Null => \A s \in Elements(o) : Managed(s) = Null

(***************************************************************************)
(* What the three properties need of each other: that no window is shared  *)
(* is kept by a vector that grows because its elements are apart, and that *)
(* each object is registered once because the elements of a vector are     *)
(* alive and the places they move to are not.                              *)
(***************************************************************************)
WindowInv ==
    /\ WindowTypeOK
    /\ Vectors
    /\ OneField
    /\ NoneWithin
    /\ RegisteredOnce
    /\ ManagedOnce
    /\ ParentIsHolder

LEMMA PlacesApart ==
    /\ Wins \cap Subs = {} /\ Nc \notin Wins /\ Nc \notin Subs
    /\ Holders \subseteq Objects /\ Subs \subseteq Objects /\ Wins \subseteq Holders
    /\ Holders \cap Subs = {}
    /\ Null \notin Pointers /\ Handles \subseteq Pointers
BY PlacesAssumption DEF Objects, Holders, Pointers

LEMMA ElementsLive ==
    ASSUME WindowInv, NEW o \in Holders
    PROVE  Elements(o) \subseteq Subs \cap alive
<1>1. subwindows[o] \in Seq(Subs)
  BY DEF WindowInv, WindowTypeOK
<1>2. Elements(o) \subseteq Subs
  BY <1>1 DEF Elements
<1>3. QED
  BY <1>2 DEF WindowInv, Vectors

LEMMA DeadIsNull ==
    ASSUME WindowInv, NEW x \in Objects
    PROVE  /\ Managed(x) = Null <=> win[x] = Null /\ save[x] = Null
           /\ x \notin alive => win[x] = Null /\ save[x] = Null
           /\ win[x] # Null => Managed(x) = win[x]
           /\ save[x] # Null => Managed(x) = save[x]
           /\ Managed(x) # Null => Managed(x) \in live
BY DEF WindowInv, OneField, ManagedOnce, Managed

\* The windows of the objects that destroy(o) leaves are left.
LEMMA OthersStay ==
    ASSUME WindowInv, NEW o \in Holders, NEW x \in Objects,
           x # o, x \notin Elements(o), Managed(x) # Null
    PROVE  Managed(x) \in LiveAfterDestroy(o)
<1> USE PlacesApart
<1>1. Elements(o) \subseteq Objects /\ o \in Objects
  BY ElementsLive
<1>2. /\ Managed(x) \in live /\ Managed(x) # Managed(o)
      /\ \A s \in Elements(o) : Managed(x) # Managed(s)
  BY <1>1 DEF WindowInv, ManagedOnce
<1>3. QED
  BY <1>2 DEF LiveAfterDestroy

LEMMA LeftAreLive ==
    ASSUME NEW o
    PROVE  LiveAfterDestroy(o) \subseteq live
BY DEF LiveAfterDestroy

\* Windows only pass from object to object, and a new one is nobody else's.
LEMMA NoneShared ==
    ASSUME WindowInv, NEW src \in [Objects -> Objects], NEW new,
           \A x, y \in Objects : src[x] = src[y] => x = y,
           \A x \in Objects : \/ Managed(x)' \in {Null, Managed(src[x])}
                              \/ x = new /\ Managed(x)' \notin live
    PROVE  \A x, y \in Objects : Managed(x)' = Managed(y)' /\ x # y => Managed(x)' = Null
<1> DEFINE m == [x \in Objects |-> Managed(x)]
           n == [x \in Objects |-> Managed(x)']
<1>1. \A x \in Objects : m[x] # Null => m[x] \in live
  BY DEF WindowInv, ManagedOnce
<1>2. \A x, y \in Objects : m[x] = m[y] /\ x # y => m[x] = Null
  BY DEF WindowInv, ManagedOnce
<1>3. \A x \in Objects : \/ n[x] = Null \/ n[x] = m[src[x]]
                         \/ x = new /\ n[x] \notin live
  OBVIOUS
<1> HIDE DEF m, n
<1>4. ASSUME NEW x \in Objects, NEW y \in Objects, n[x] = n[y], x # y
      PROVE  n[x] = Null
  <2>1. src[x] \in Objects /\ src[y] \in Objects /\ src[x] # src[y]
    BY <1>4
  <2>2. QED
    BY <1>1, <1>2, <1>3, <1>4, <2>1
<1>5. QED
  BY <1>4 DEF n
----------------------------------------------------------------------------

\* How the parts of WindowInv are shown for a step: each names the fields that
\* it depends on.
LEMMA VectorsEmptied ==
    ASSUME WindowInv, NEW o \in Wins,
           subwindows' = [subwindows EXCEPT ![o] = <<>>],
           alive \ Elements(o) \subseteq alive' \cup {o}, 
           takenOver' = takenOver \ {o},
           parent' = Nulled(parent, Elements(o)) \/ parent' = Nulled(parent, Elements(o) \cup {o})
    PROVE  subwindows' \in [Holders -> Seq(Subs)] /\ Vectors' /\ ParentIsHolder'
           /\ parent' \in [Subs -> Holders \cup {Null}]
<1> USE PlacesApart
<1>1. /\ subwindows \in [Holders -> Seq(Subs)]
      /\ parent \in [Subs -> Holders \cup {Null}]
  BY DEF WindowInv, WindowTypeOK
<1>2. <<>> \in Seq(Subs) /\ DOMAIN <<>> = {}
  OBVIOUS
<1>3. /\ subwindows' \in [Holders -> Seq(Subs)]
      /\ subwindows'[o] = <<>>
      /\ \A p \in Holders \ {o} : subwindows'[p] = subwindows[p]
  BY <1>1, <1>2
<1>4. /\ Elements(o)' = {} /\ Distinct(subwindows[o])'
      /\ \A p \in Holders \ {o} : Elements(p)' = Elements(p)
  BY <1>2, <1>3 DEF Elements, Distinct
<1>5. Vectors'
  <2>1. \A p \in Holders : Distinct(subwindows[p])'
    BY <1>3, <1>4 DEF WindowInv, Vectors, Distinct
  <2>2. \A p \in Holders \ {o} : Elements(p) \subseteq alive \ Elements(o) /\ o \notin Elements(p)
    BY ElementsLive DEF WindowInv, Vectors
  <2>3. \A p \in Holders : Elements(p)' \subseteq alive'
    BY <1>4, <2>2
  <2>4. \A p, q \in Holders : p # q => Elements(p)' \cap Elements(q)' = {}
    BY <1>4 DEF WindowInv, Vectors
  <2>5. \A p \in Holders \ alive' : subwindows'[p] = <<>>
    BY <1>3, ElementsLive DEF WindowInv, Vectors
  <2>6. QED
    BY <2>1, <2>3, <2>4, <2>5 DEF Vectors
<1>6. /\ parent' \in [Subs -> Holders \cup {Null}]
      /\ \A s \in Subs : s \notin Elements(o) => parent'[s] = parent[s]
  BY <1>1 DEF Nulled
<1>7. ParentIsHolder'
  <2>1. ASSUME NEW p \in Holders \ takenOver', NEW s \in Elements(p)'
        PROVE  parent'[s] = p
    <3>1. p # o /\ s \in Elements(p) /\ p \in Holders \ takenOver
      BY <1>4, <2>1
    <3>2. s \in Subs /\ s \notin Elements(o) /\ parent[s] = p
      BY <3>1, ElementsLive DEF WindowInv, Vectors, ParentIsHolder
    <3>3. QED
      BY <1>6, <3>2
  <2>2. QED
    BY <2>1 DEF ParentIsHolder
<1>8. QED
  BY <1>3, <1>5, <1>6, <1>7

\* After destroy(o), o may have no window, that of mv, or a new one.
LEMMA ManagedReplaced ==
    ASSUME WindowInv, NEW o \in Wins, NEW mv \in Wins,
           \A x \in Objects : x \notin {o, mv} \cup Elements(o)
               => win'[x] = win[x] /\ save'[x] = save[x],
           \A x \in Elements(o) : win'[x] = Null /\ save'[x] = Null,
           mv # o => win'[mv] = Null /\ save'[mv] = Null,
           alive \ ({o} \cup Elements(o)) \subseteq alive',
           LiveAfterDestroy(o) \subseteq live',
           isExit' = isExit,
           \/ win'[o] = Null /\ save'[o] = Null
           \/ /\ o \in alive' /\ mv # o
              /\ win'[o] = win[mv] /\ save'[o] = save[mv]
           \/ o \in alive' /\ win'[o] \in live' \ live /\ save'[o] = Null
    PROVE  OneField' /\ ManagedOnce'
<1> USE PlacesApart
<1>0. /\ o \in Objects /\ mv \in Objects
      /\ o \notin Elements(o) /\ mv \notin Elements(o)
      /\ Elements(o) \subseteq Objects
  BY ElementsLive
<1>1. OneField'
  BY <1>0 DEF WindowInv, OneField
<1> DEFINE src == [x \in Objects |-> IF x = o THEN mv ELSE IF x = mv THEN o ELSE x]
<1>2. /\ src \in [Objects -> Objects]
      /\ \A x, y \in Objects : src[x] = src[y] => x = y
      /\ src[o] = mv
      /\ \A x \in Objects \ {o, mv} : src[x] = x
  BY <1>0
<1> HIDE DEF src
<1>3. ASSUME NEW x \in Objects
      PROVE  \/ Managed(x)' \in {Null, Managed(src[x])}
             \/ x = o /\ Managed(x)' \notin live
  <2>1. CASE x \in Elements(o)
    BY <2>1 DEF Managed
  <2>2. CASE x = o
    <3>1. CASE win'[o] = win[mv] /\ save'[o] = save[mv]
      BY <1>2, <2>2, <3>1 DEF Managed
    <3>2. CASE win'[o] = Null /\ save'[o] = Null
      BY <2>2, <3>2 DEF Managed
    <3>3. CASE win'[o] \in live' \ live /\ save'[o] = Null
      <4>1. Managed(o)' = win'[o] \/ Managed(o)' = Null
        BY <3>3 DEF Managed
      <4>2. QED
        BY <2>2, <3>3, <4>1
    <3>4. QED
      BY <3>1, <3>2, <3>3
  <2>3. CASE x = mv /\ x # o
    BY <2>3 DEF Managed
  <2>4. CASE x \notin {o, mv} \cup Elements(o)
    BY <1>2, <2>4 DEF Managed
  <2>5. QED
    BY <2>1, <2>2, <2>3, <2>4
<1>4. \A x, y \in Objects : Managed(x)' = Managed(y)' /\ x # y => Managed(x)' = Null
  BY <1>2, <1>3, NoneShared
<1>5. ASSUME NEW x \in Objects, Managed(x)' # Null
      PROVE  x \in alive' /\ Managed(x)' \in live'
  <2>1. CASE x \notin {o, mv} \cup Elements(o)
    <3>1. Managed(x)' = Managed(x)
      BY <2>1 DEF Managed
    <3>2. x \in alive
      BY <1>5, <3>1 DEF WindowInv, ManagedOnce
    <3>3. QED
      BY <1>5, <2>1, <3>1, <3>2, OthersStay
  <2>2. CASE x = o
    <3>1. CASE mv # o /\ o \in alive' /\ win'[o] = win[mv] /\ save'[o] = save[mv]
      <4>1. Managed(o)' = Managed(mv)
        BY <3>1 DEF Managed
      <4>2. QED
        BY <1>0, <1>5, <2>2, <3>1, <4>1, OthersStay
    <3>2. CASE o \in alive' /\ win'[o] \in live' \ live /\ save'[o] = Null
      BY <1>5, <2>2, <3>2 DEF Managed
    <3>3. CASE win'[o] = Null /\ save'[o] = Null
      BY <1>5, <2>2, <3>3 DEF Managed
    <3>4. QED
      BY <3>1, <3>2, <3>3
  <2>3. CASE x \in Elements(o) \/ (x = mv /\ x # o)
    BY <1>5, <2>3 DEF Managed
  <2>4. QED
    BY <2>1, <2>2, <2>3
<1>6. ~isExit' => \A x \in Objects : save'[x] = Null
  BY <1>0 DEF WindowInv, ManagedOnce
<1>7. QED
  BY <1>1, <1>4, <1>5, <1>6 DEF ManagedOnce

LEMMA NoneWithinReplaced ==
    ASSUME WindowInv, NEW o \in Wins, NEW mv \in Wins,
           \A x \in Objects : x \notin {o, mv} \cup Elements(o)
               => win'[x] = win[x] /\ save'[x] = save[x],
           \A p \in Holders \ {o, mv} : subwindows'[p] = subwindows[p],
           \/ Managed(o)' # Null
           \/ subwindows'[o] = <<>>
           \/ /\ mv # o /\ subwindows'[o] = subwindows[mv]
              /\ win'[o] = win[mv] /\ save'[o] = save[mv],
           mv # o => subwindows'[mv] = <<>>
    PROVE  NoneWithin'
<1> USE PlacesApart
<1>1. ASSUME NEW p \in Holders, NEW s, p # o, subwindows'[p] = subwindows[p], p # mv,
             Managed(p)' = Null, s \in Elements(p)
      PROVE  Managed(s)' = Null
  <2>1. p \notin Elements(o) /\ s \in Subs /\ s \notin Elements(o) /\ o \in Holders
    BY <1>1, ElementsLive DEF WindowInv, Vectors
  <2>2. Managed(p)' = Managed(p) /\ Managed(s)' = Managed(s)
    BY <1>1, <2>1 DEF Managed
  <2>3. QED
    BY <1>1, <2>2 DEF WindowInv, NoneWithin
<1>2. ASSUME NEW s, mv # o, Managed(o)' = Null, win'[o] = win[mv], save'[o] = save[mv],
             s \in Elements(mv)
      PROVE  Managed(s)' = Null
  <2>1. s \in Subs /\ s \notin Elements(o) /\ mv \in Holders /\ o \in Holders
    BY <1>2, ElementsLive DEF WindowInv, Vectors
  <2>2. Managed(o)' = Managed(mv) /\ Managed(s)' = Managed(s)
    BY <1>2, <2>1 DEF Managed
  <2>3. QED
    BY <1>2, <2>1, <2>2 DEF WindowInv, NoneWithin
<1>3. ASSUME NEW p \in Holders, NEW q \in Holders, subwindows'[p] = subwindows[q]
      PROVE  Elements(p)' = Elements(q)
  BY <1>3 DEF Elements
<1>4. ASSUME NEW p \in Holders, subwindows'[p] = <<>>
      PROVE  Elements(p)' = {}
  BY <1>4 DEF Elements
<1>5. ASSUME NEW p \in Holders, Managed(p)' = Null, NEW s \in Elements(p)'
      PROVE  Managed(s)' = Null
  <2>1. CASE p \notin {o, mv}
    BY <1>1, <1>3, <1>5, <2>1
  <2>2. CASE p = o
    BY <1>2, <1>3, <1>4, <1>5, <2>2
  <2>3. CASE p = mv /\ p # o
    BY <1>4, <1>5, <2>3
  <2>4. QED
    BY <2>1, <2>2, <2>3
<1>6. QED
  BY <1>5 DEF NoneWithin

\* The vector of mv has passed to o.
LEMMA VectorsMoved ==
    ASSUME WindowInv, NEW o \in Wins, NEW mv \in Wins, o # mv,
           subwindows' = [subwindows EXCEPT ![o] = subwindows[mv], ![mv] = <<>>],
           alive \ Elements(o) \subseteq alive', o \in alive',
           TakesOver(o),
           parent' = Nulled(parent, Elements(o))
    PROVE  /\ subwindows' \in [Holders -> Seq(Subs)] /\ Vectors' /\ ParentIsHolder'
           /\ parent' \in [Subs -> Holders \cup {Null}]
<1> USE PlacesApart
<1>1. /\ subwindows \in [Holders -> Seq(Subs)]
      /\ parent \in [Subs -> Holders \cup {Null}]
      /\ \A p \in Holders : subwindows[p] \in Seq(Subs)
  BY DEF WindowInv, WindowTypeOK
<1>2. <<>> \in Seq(Subs) /\ DOMAIN <<>> = {}
  OBVIOUS
<1>3. /\ subwindows' \in [Holders -> Seq(Subs)]
      /\ subwindows'[o] = subwindows[mv]
      /\ subwindows'[mv] = <<>>
      /\ \A p \in Holders \ {o, mv} : subwindows'[p] = subwindows[p]
  BY <1>1, <1>2
<1>4. /\ Elements(mv)' = {} /\ Elements(o)' = Elements(mv)
      /\ \A p \in Holders \ {o, mv} : Elements(p)' = Elements(p)
  BY <1>2, <1>3 DEF Elements
<1>5. Vectors'
  <2>1. \A p \in Holders : Distinct(subwindows[p])'
    BY <1>2, <1>3 DEF WindowInv, Vectors, Distinct
  <2>2. \A p \in Holders \ {o} : Elements(p) \subseteq alive \ Elements(o)
    BY DEF WindowInv, Vectors
  <2>3. \A p \in Holders : Elements(p)' \subseteq alive'
    BY <1>4, <2>2
  <2>4. \A p, q \in Holders : p # q => Elements(p)' \cap Elements(q)' = {}
    BY <1>4 DEF WindowInv, Vectors
  <2>5. \A p \in Holders \ alive' : subwindows'[p] = <<>>
    BY <1>3, ElementsLive DEF WindowInv, Vectors
  <2>6. QED
    BY <2>1, <2>3, <2>4, <2>5 DEF Vectors
<1>6. /\ parent' \in [Subs -> Holders \cup {Null}]
      /\ \A s \in Subs : s \notin Elements(o) => parent'[s] = parent[s]
  BY <1>1 DEF Nulled
<1>7. ParentIsHolder'
  <2>1. ASSUME NEW p \in Holders \ takenOver', NEW s \in Elements(p)'
        PROVE  parent'[s] = p
    <3>1. subwindows'[p] # <<>>
      BY <1>2, <2>1 DEF Elements
    <3>2. p \notin takenOver /\ p # o /\ p # mv
      BY <1>3, <2>1, <3>1 DEF TakesOver
    <3>3. s \in Subs /\ s \notin Elements(o) /\ parent[s] = p
      BY <1>4, <2>1, <3>2, ElementsLive DEF WindowInv, Vectors, ParentIsHolder
    <3>4. QED
      BY <1>6, <3>3
  <2>2. QED
    BY <2>1 DEF ParentIsHolder
<1>8. QED
  BY <1>3, <1>5, <1>6, <1>7

\* Handing handles on keeps the types of the two fields.
LEMMA FieldsTyped ==
    ASSUME WindowInv
    PROVE  /\ win \in [Objects -> Pointers \cup {Null}]
           /\ save \in [Objects -> Pointers \cup {Null}]
           /\ \A S : /\ Nulled(win, S) \in [Objects -> Pointers \cup {Null}]
                    /\ Nulled(save, S) \in [Objects -> Pointers \cup {Null}]
                    /\ \A x \in Objects :
                          /\ Nulled(win, S)[x] = IF x \in S THEN Null ELSE win[x]
                          /\ Nulled(save, S)[x] = IF x \in S THEN Null ELSE save[x]
BY DEF WindowInv, WindowTypeOK, Nulled

\* An object that is made is registered, one that is destroyed no longer.
LEMMA RegistersMade ==
    ASSUME WindowInv, NEW o \in Wins \ alive, alive' = alive \cup {o},
           registered' = Register({o})
    PROVE  RegisteredOnce' /\ registered' \in [Objects -> Nat] /\ alive' \subseteq Objects
<1> USE PlacesApart
<1>1. \A x \in Objects : registered[x] = IF x \in alive \ {Nc} THEN 1 ELSE 0
  BY DEF WindowInv, RegisteredOnce
<1>2. \A x \in Objects : registered'[x] = registered[x] + (IF x = o THEN 1 ELSE 0)
  BY DEF Register
<1>3. \A x \in Objects : registered'[x] = IF x \in alive' \ {Nc} THEN 1 ELSE 0
  BY <1>1, <1>2
<1>4. registered' \in [Objects -> Nat]
  BY <1>1 DEF Register
<1>5. QED
  BY <1>3, <1>4 DEF RegisteredOnce, WindowInv, WindowTypeOK

LEMMA RegistersGone ==
    ASSUME WindowInv, NEW gone \in SUBSET (alive \ {Nc}), alive' = alive \ gone,
           registered' = Unregister(gone)
    PROVE  RegisteredOnce' /\ registered' \in [Objects -> Nat] /\ alive' \subseteq Objects
<1> USE PlacesApart
<1>1. \A x \in Objects : registered[x] = IF x \in alive \ {Nc} THEN 1 ELSE 0
  BY DEF WindowInv, RegisteredOnce
<1>2. \A x \in Objects : registered'[x] = registered[x] - (IF x \in gone THEN 1 ELSE 0)
  BY DEF Unregister
<1>3. \A x \in Objects : registered'[x] = IF x \in alive' \ {Nc} THEN 1 ELSE 0
  BY <1>1, <1>2
<1>4. registered' \in [Objects -> Nat]
  <2>1. \A x \in Objects : x \in gone => registered[x] = 1
    BY <1>1
  <2>2. \A x \in Objects : registered[x] - (IF x \in gone THEN 1 ELSE 0) \in Nat
    BY <1>1, <2>1
  <2>3. QED
    BY <2>2 DEF Unregister
<1>5. QED
  BY <1>3, <1>4 DEF RegisteredOnce, WindowInv, WindowTypeOK

\* Objects that are made, or handles that move, leave the vectors alone.
LEMMA VectorsKept ==
    ASSUME WindowInv, UNCHANGED <<subwindows, parent, takenOver>>, alive \subseteq alive'
    PROVE  Vectors' /\ ParentIsHolder'
<1>1. \A p \in Holders : /\ Elements(p)' = Elements(p)
                         /\ Distinct(subwindows[p])' = Distinct(subwindows[p])
  BY DEF Elements, Distinct
<1>2. QED
  BY <1>1 DEF WindowInv, Vectors, ParentIsHolder

LEMMA ConstructStep == ASSUME WindowInv, NEW o \in Wins, Construct(o) PROVE WindowInv'
<1> USE PlacesApart
<1>1. /\ o \in Wins \ alive /\ alive' = alive \cup {o} /\ registered' = Register({o})
      /\ UNCHANGED <<save, subwindows, parent, takenOver, isExit>>
  BY DEF Construct
<1>2. PICK h \in Handles : NewHandle(h, Null, live) /\ win' = [win EXCEPT ![o] = h]
  BY DEF Construct
<1>3. h \notin live /\ live' = live \cup {h} /\ live' \subseteq Pointers
  BY <1>2 DEF NewHandle, WindowInv, WindowTypeOK
<1>4. /\ win' \in [Objects -> Pointers \cup {Null}] /\ win'[o] = h
      /\ \A x \in Objects \ {o} : win'[x] = win[x]
  BY <1>2, FieldsTyped
<1>5. Elements(o) = {} /\ save[o] = Null
  BY <1>1, DeadIsNull DEF WindowInv, Vectors, Elements
<1>6. OneField' /\ ManagedOnce'
  BY <1>1, <1>3, <1>4, <1>5, ManagedReplaced, LeftAreLive
<1>7. NoneWithin'
  BY <1>1, <1>4, NoneWithinReplaced DEF Managed
<1>8. Vectors' /\ ParentIsHolder'
  BY <1>1, VectorsKept
<1>9. RegisteredOnce' /\ registered' \in [Objects -> Nat] /\ alive' \subseteq Objects
  BY <1>1, RegistersMade
<1>10. QED
  BY <1>1, <1>3, <1>4, <1>6, <1>7, <1>8, <1>9 DEF WindowInv, WindowTypeOK

LEMMA CopyConstructStep ==
    ASSUME WindowInv, NEW o \in Wins, NEW cp \in Wins, CopyConstruct(o, cp)
    PROVE  WindowInv'
<1> USE PlacesApart
<1>1. /\ o \in Wins \ alive /\ alive' = alive \cup {o} /\ registered' = Register({o})
      /\ UNCHANGED <<save, subwindows, parent, takenOver, isExit>>
  BY DEF CopyConstruct
<1> DEFINE Made == /\ live \subseteq live' /\ live' \subseteq Pointers
                   /\ win' \in [Objects -> Pointers \cup {Null}]
                   /\ \A x \in Objects \ {o} : win'[x] = win[x]
                   /\ win'[o] = Null \/ win'[o] \in live' \ live
<1>2. Made
  <2>1. CASE UNCHANGED <<win, cursesVars>>
    BY <1>1, <2>1, FieldsTyped, DeadIsNull DEF cursesVars, WindowInv, WindowTypeOK
  <2>2. ASSUME NEW h \in Handles, NewHandle(h, Null, live), win' = [win EXCEPT ![o] = h]
        PROVE  Made
    BY <2>2, FieldsTyped DEF NewHandle, WindowInv, WindowTypeOK
  <2>3. UNCHANGED <<win, cursesVars>>
        \/ \E h \in Handles : NewHandle(h, Null, live) /\ win' = [win EXCEPT ![o] = h]
    BY DEF CopyConstruct
  <2>4. QED
    BY <2>1, <2>2, <2>3
<1>3. Elements(o) = {} /\ subwindows[o] = <<>> /\ save[o] = Null
  <2>1. subwindows[o] = <<>>
    BY <1>1 DEF WindowInv, Vectors
  <2>2. QED
    BY <1>1, <2>1, DeadIsNull DEF Elements
<1>4. OneField' /\ ManagedOnce'
  BY <1>1, <1>2, <1>3, ManagedReplaced, LeftAreLive
<1>5. NoneWithin'
  BY <1>1, <1>2, <1>3, NoneWithinReplaced
<1>6. Vectors' /\ ParentIsHolder'
  BY <1>1, VectorsKept
<1>7. RegisteredOnce' /\ registered' \in [Objects -> Nat] /\ alive' \subseteq Objects
  BY <1>1, RegistersMade
<1>8. QED
  BY <1>1, <1>2, <1>4, <1>5, <1>6, <1>7 DEF WindowInv, WindowTypeOK

LEMMA MoveConstructStep ==
    ASSUME WindowInv, NEW o \in Wins, NEW mv \in Wins, MoveConstruct(o, mv)
    PROVE  WindowInv'
<1> USE PlacesApart
<1>1. /\ o \in Wins \ alive /\ mv \in alive /\ o # mv
      /\ alive' = alive \cup {o} /\ registered' = Register({o})
      /\ subwindows' = [subwindows EXCEPT ![o] = subwindows[mv], ![mv] = <<>>]
      /\ TakesOver(o) /\ UNCHANGED <<parent, isExit, live>>
      /\ win' = [win EXCEPT ![o] = win[mv], ![mv] = Null]
      /\ save' = [save EXCEPT ![o] = save[mv], ![mv] = Null]
  BY DEF MoveConstruct, cursesVars
<1>2. Elements(o) = {}
  BY <1>1 DEF WindowInv, Vectors, Elements
<1>3. /\ win' \in [Objects -> Pointers \cup {Null}]
      /\ save' \in [Objects -> Pointers \cup {Null}]
      /\ \A x \in Objects \ {o, mv} : win'[x] = win[x] /\ save'[x] = save[x]
      /\ win'[o] = win[mv] /\ save'[o] = save[mv] /\ win'[mv] = Null /\ save'[mv] = Null
  BY <1>1, FieldsTyped
<1>4. OneField' /\ ManagedOnce'
  BY <1>1, <1>2, <1>3, ManagedReplaced, LeftAreLive
<1>5. /\ subwindows'[o] = subwindows[mv] /\ subwindows'[mv] = <<>>
      /\ \A p \in Holders \ {o, mv} : subwindows'[p] = subwindows[p]
  BY <1>1 DEF WindowInv, WindowTypeOK
<1>6. NoneWithin'
  BY <1>1, <1>2, <1>3, <1>5, NoneWithinReplaced
<1>7. parent' = Nulled(parent, Elements(o))
  BY <1>1, <1>2 DEF Nulled, WindowInv, WindowTypeOK
<1>8. /\ subwindows' \in [Holders -> Seq(Subs)] /\ Vectors' /\ ParentIsHolder'
      /\ parent' \in [Subs -> Holders \cup {Null}]
  BY <1>1, <1>2, <1>7, VectorsMoved
<1>9. RegisteredOnce' /\ registered' \in [Objects -> Nat] /\ alive' \subseteq Objects
  BY <1>1, RegistersMade
<1>10. QED
  BY <1>1, <1>3, <1>4, <1>6, <1>8, <1>9 DEF WindowInv, WindowTypeOK

LEMMA MoveAssignStep ==
    ASSUME WindowInv, NEW o \in Wins, NEW mv \in Wins, MoveAssign(o, mv)
    PROVE  WindowInv'
<1> USE PlacesApart
<1>1. /\ o \in alive /\ mv \in alive /\ o # mv
      /\ alive' = alive \ Elements(o) /\ registered' = Unregister(Elements(o))
      /\ parent' = Nulled(parent, Elements(o))
      /\ subwindows' = [subwindows EXCEPT ![o] = subwindows[mv], ![mv] = <<>>]
      /\ TakesOver(o) /\ UNCHANGED isExit /\ live' = LiveAfterDestroy(o)
      /\ win' = [Nulled(win, Elements(o)) EXCEPT ![o] = win[mv], ![mv] = Null]
      /\ save' = [Nulled(save, Elements(o)) EXCEPT ![o] = save[mv], ![mv] = Null]
  BY DEF MoveAssign, ClearSubwindows, Deleted
<1>2. Elements(o) \subseteq Subs \cap alive
  BY ElementsLive
<1>3. /\ win' \in [Objects -> Pointers \cup {Null}]
      /\ save' \in [Objects -> Pointers \cup {Null}]
      /\ \A x \in Objects : x \notin {o, mv} \cup Elements(o)
            => win'[x] = win[x] /\ save'[x] = save[x]
      /\ \A x \in Elements(o) : win'[x] = Null /\ save'[x] = Null
      /\ win'[o] = win[mv] /\ save'[o] = save[mv] /\ win'[mv] = Null /\ save'[mv] = Null
  BY <1>1, <1>2, FieldsTyped
<1>4. OneField' /\ ManagedOnce'
  BY <1>1, <1>2, <1>3, ManagedReplaced
<1>5. /\ subwindows'[o] = subwindows[mv] /\ subwindows'[mv] = <<>>
      /\ \A p \in Holders \ {o, mv} : subwindows'[p] = subwindows[p]
  BY <1>1 DEF WindowInv, WindowTypeOK
<1>6. NoneWithin'
  BY <1>1, <1>3, <1>5, NoneWithinReplaced
<1>7. /\ subwindows' \in [Holders -> Seq(Subs)] /\ Vectors' /\ ParentIsHolder'
      /\ parent' \in [Subs -> Holders \cup {Null}]
  BY <1>1, <1>2, VectorsMoved
<1>8. RegisteredOnce' /\ registered' \in [Objects -> Nat] /\ alive' \subseteq Objects
  BY <1>1, <1>2, RegistersGone
<1>9. live' \subseteq Pointers
  BY <1>1, LeftAreLive DEF WindowInv, WindowTypeOK
<1>10. QED
  BY <1>3, <1>4, <1>6, <1>7, <1>8, <1>9 DEF WindowInv, WindowTypeOK

LEMMA CopyAssignStep ==
    ASSUME WindowInv, NEW o \in Wins, NEW cp \in Wins, CopyAssign(o, cp)
    PROVE  WindowInv'
<1> USE PlacesApart
<1>1. /\ o \in alive
      /\ alive' = alive \ Elements(o) /\ registered' = Unregister(Elements(o))
      /\ parent' = Nulled(parent, Elements(o))
      /\ subwindows' = [subwindows EXCEPT ![o] = <<>>]
      /\ takenOver' = takenOver \ {o} /\ UNCHANGED isExit
      /\ save' = Nulled(save, Elements(o) \cup {o})
  BY DEF CopyAssign, ClearSubwindows
<1>2. Elements(o) \subseteq Subs \cap alive
  BY ElementsLive
<1> DEFINE Made == /\ LiveAfterDestroy(o) \subseteq live' /\ live' \subseteq Pointers
                   /\ win' \in [Objects -> Pointers \cup {Null}]
                   /\ \A x \in Objects \ {o} :
                         win'[x] = IF x \in Elements(o) THEN Null ELSE win[x]
                   /\ win'[o] = Null \/ win'[o] \in live' \ live
<1>3. Made
  <2>1. LiveAfterDestroy(o) \subseteq Pointers
    BY LeftAreLive DEF WindowInv, WindowTypeOK
  <2>2. ASSUME win' = Nulled(win, Elements(o) \cup {o}), Deleted(LiveAfterDestroy(o))
        PROVE  Made
    BY <2>1, <2>2, FieldsTyped DEF Deleted
  <2>3. ASSUME NEW h \in Handles, NewHandle(h, Null, LiveAfterDestroy(o)),
               win' = [Nulled(win, Elements(o)) EXCEPT ![o] = h]
        PROVE  Made
    BY <2>1, <2>3, FieldsTyped DEF NewHandle
  <2>4. QED
    BY <2>2, <2>3 DEF CopyAssign
<1> HIDE DEF Made
<1>4. /\ save' \in [Objects -> Pointers \cup {Null}]
      /\ \A x \in Objects : save'[x] = IF x \in Elements(o) \cup {o} THEN Null ELSE save[x]
  BY <1>1, FieldsTyped
<1>5. OneField' /\ ManagedOnce'
  <2>1. /\ \A x \in Objects : x \notin {o} \cup Elements(o)
              => win'[x] = win[x] /\ save'[x] = save[x]
        /\ \A x \in Elements(o) : win'[x] = Null /\ save'[x] = Null
    BY <1>2, <1>3, <1>4 DEF Made
  <2>2. save'[o] = Null /\ alive \ Elements(o) \subseteq alive' /\ o \in alive'
    BY <1>1, <1>2, <1>4
  <2>3. /\ LiveAfterDestroy(o) \subseteq live' /\ isExit' = isExit
        /\ win'[o] = Null \/ win'[o] \in live' \ live
    BY <1>1, <1>3 DEF Made
  <2>4. QED
    BY <2>1, <2>2, <2>3, ManagedReplaced
<1>6. subwindows'[o] = <<>> /\ \A p \in Holders \ {o} : subwindows'[p] = subwindows[p]
  BY <1>1 DEF WindowInv, WindowTypeOK
<1>7. NoneWithin'
  BY <1>3, <1>4, <1>6, NoneWithinReplaced DEF Made
<1>8. /\ subwindows' \in [Holders -> Seq(Subs)] /\ Vectors' /\ ParentIsHolder'
      /\ parent' \in [Subs -> Holders \cup {Null}]
  BY <1>1, <1>2, VectorsEmptied
<1>9. RegisteredOnce' /\ registered' \in [Objects -> Nat] /\ alive' \subseteq Objects
  BY <1>1, <1>2, RegistersGone
<1>10. QED
  BY <1>3, <1>4, <1>5, <1>7, <1>8, <1>9 DEF Made, WindowInv, WindowTypeOK

LEMMA AssignStep == ASSUME WindowInv, NEW o \in Wins, Assign(o) PROVE WindowInv'
<1> USE PlacesApart
<1>1. o \in alive /\ save[o] = Null /\ UNCHANGED isExit
  BY DEF Assign
<1>2. PICK h \in Handles : /\ NewHandle(h, Null, LiveAfterDestroy(o))
                           /\ win' = [Nulled(win, alive \ alive') EXCEPT ![o] = h]
  BY DEF Assign
<1>3. save' = Nulled(save, alive \ alive')
  BY DEF Assign
<1>4. Elements(o) \subseteq Subs \cap alive
  BY ElementsLive
<1>5. /\ live' = LiveAfterDestroy(o) \cup {h} /\ h \notin live /\ live' \subseteq Pointers
  BY <1>2, LeftAreLive DEF NewHandle, WindowInv, WindowTypeOK
<1>6. /\ alive' \subseteq alive /\ alive \ Elements(o) \subseteq alive'
      /\ \A p \in Holders \ {o} : subwindows'[p] = subwindows[p]
      /\ \A x \in Elements(o) : x \notin alive' \/ (win[x] = Null /\ save[x] = Null)
      /\ subwindows' \in [Holders -> Seq(Subs)] /\ Vectors' /\ ParentIsHolder'
      /\ parent' \in [Subs -> Holders \cup {Null}]
      /\ RegisteredOnce' /\ registered' \in [Objects -> Nat] /\ alive' \subseteq Objects
  <2>1. CASE /\ ClearSubwindows(o)
             /\ subwindows' = [subwindows EXCEPT ![o] = <<>>]
             /\ takenOver' = takenOver \ {o}
    <3>1. /\ alive' = alive \ Elements(o) /\ registered' = Unregister(Elements(o))
          /\ parent' = Nulled(parent, Elements(o))
      BY <2>1 DEF ClearSubwindows
    <3>2. \A p \in Holders \ {o} : subwindows'[p] = subwindows[p]
      BY <2>1 DEF WindowInv, WindowTypeOK
    <3>3. RegisteredOnce' /\ registered' \in [Objects -> Nat] /\ alive' \subseteq Objects
      BY <1>4, <3>1, RegistersGone
    <3>4. /\ subwindows' \in [Holders -> Seq(Subs)] /\ Vectors' /\ ParentIsHolder'
          /\ parent' \in [Subs -> Holders \cup {Null}]
      BY <1>4, <2>1, <3>1, VectorsEmptied
    <3>5. QED
      BY <3>1, <3>2, <3>3, <3>4
  <2>2. CASE win[o] = Null /\ UNCHANGED <<alive, registered, subwindows, parent, takenOver>>
    <3>1. \A x \in Elements(o) : win[x] = Null /\ save[x] = Null
      <4>1. \A x \in Elements(o) : Managed(x) = Null
        BY <1>1, <2>2 DEF WindowInv, NoneWithin, Managed
      <4>2. QED
        BY <1>4, <4>1, DeadIsNull
    <3>2. Vectors' /\ ParentIsHolder'
      BY <2>2, VectorsKept
    <3>3. QED
      BY <2>2, <3>1, <3>2 DEF WindowInv, WindowTypeOK, RegisteredOnce
  <2>3. QED
    BY <2>1, <2>2 DEF Assign
<1>7. /\ win' \in [Objects -> Pointers \cup {Null}] /\ win'[o] = h
      /\ save' \in [Objects -> Pointers \cup {Null}] /\ save'[o] = Null
      /\ \A x \in Objects : x \notin {o} \cup Elements(o)
            => win'[x] = win[x] /\ save'[x] = save[x]
      /\ \A x \in Elements(o) : win'[x] = Null /\ save'[x] = Null
  BY <1>1, <1>2, <1>3, <1>4, <1>6, FieldsTyped, DeadIsNull
<1>8. OneField' /\ ManagedOnce'
  BY <1>1, <1>5, <1>6, <1>7, ManagedReplaced
<1>9. NoneWithin'
  BY <1>6, <1>7, NoneWithinReplaced DEF Managed
<1>10. QED
  BY <1>5, <1>6, <1>7, <1>8, <1>9 DEF WindowInv, WindowTypeOK

\* destroy and ~Window leave o without a window and without elements.
LEMMA Destroyed ==
    ASSUME WindowInv, NEW o \in Wins, NEW gone \in {Elements(o), Elements(o) \cup {o}},
           o \in alive,
           alive' = alive \ gone, registered' = Unregister(gone),
           parent' = Nulled(parent, gone),
           win' = Nulled(win, Elements(o) \cup {o}),
           save' = Nulled(save, Elements(o) \cup {o}),
           subwindows' = [subwindows EXCEPT ![o] = <<>>],
           takenOver' = takenOver \ {o},
           Deleted(LiveAfterDestroy(o)),
           isExit' = isExit
    PROVE  WindowInv'
<1> USE PlacesApart
<1>1. Elements(o) \subseteq Subs \cap alive
  BY ElementsLive
<1>2. /\ win' \in [Objects -> Pointers \cup {Null}]
      /\ save' \in [Objects -> Pointers \cup {Null}]
      /\ \A x \in Objects : x \notin {o} \cup Elements(o)
            => win'[x] = win[x] /\ save'[x] = save[x]
      /\ \A x \in Elements(o) \cup {o} : win'[x] = Null /\ save'[x] = Null
  BY <1>1, FieldsTyped
<1>3. live' = LiveAfterDestroy(o) /\ live' \subseteq Pointers
  BY LeftAreLive DEF Deleted, WindowInv, WindowTypeOK
<1>4. OneField' /\ ManagedOnce'
  BY <1>1, <1>2, <1>3, ManagedReplaced
<1>5. subwindows'[o] = <<>> /\ \A p \in Holders \ {o} : subwindows'[p] = subwindows[p]
  BY DEF WindowInv, WindowTypeOK
<1>6. NoneWithin'
  BY <1>2, <1>5, NoneWithinReplaced
<1>7. /\ subwindows' \in [Holders -> Seq(Subs)] /\ Vectors' /\ ParentIsHolder'
      /\ parent' \in [Subs -> Holders \cup {Null}]
  BY <1>1, VectorsEmptied
<1>8. RegisteredOnce' /\ registered' \in [Objects -> Nat] /\ alive' \subseteq Objects
  BY <1>1, RegistersGone
<1>9. QED
  BY <1>2, <1>3, <1>4, <1>6, <1>7, <1>8 DEF WindowInv, WindowTypeOK

LEMMA DestroyStep ==
    ASSUME WindowInv, NEW o \in Wins, DestroyWindow(o) \/ Destruct(o)
    PROVE  WindowInv'
<1>1. CASE DestroyWindow(o)
  BY <1>1, Destroyed DEF DestroyWindow, ClearSubwindows
<1>2. CASE Destruct(o)
  BY <1>2, Destroyed DEF Destruct
<1>3. QED
  BY <1>1, <1>2

----------------------------------------------------------------------------

\* Where the fields are after the elements of a vector have moved.
LEMMA MovedFields ==
    ASSUME WindowInv, NEW o \in Holders, NEW places \in [1 .. Len(subwindows[o]) + 1 -> Subs],
           Distinct(places), NEW f, Subs \subseteq DOMAIN f, NEW value
    PROVE  \A g : g = Moved(f, o, places, value) =>
               /\ DOMAIN g = DOMAIN f
               /\ \A i \in 1 .. Len(subwindows[o]) : g[places[i]] = f[subwindows[o][i]]
               /\ g[places[Len(subwindows[o]) + 1]] = value
               /\ \A x \in DOMAIN f \ {places[i] : i \in 1 .. Len(subwindows[o]) + 1} :
                     g[x] = IF x \in Elements(o) THEN Null ELSE f[x]
<1> DEFINE n == Len(subwindows[o])
           g == Moved(f, o, places, value)
<1>1. n \in Nat /\ DOMAIN places = 1 .. n + 1
  BY DEF WindowInv, WindowTypeOK
<1>2. ASSUME NEW i \in 1 .. n + 1
      PROVE  /\ places[i] \in DOMAIN f
             /\ (CHOOSE j \in DOMAIN places : places[j] = places[i]) = i
  BY <1>1 DEF Distinct
<1>3. \A i \in 1 .. n + 1 : g[places[i]] = IF i <= n THEN f[subwindows[o][i]] ELSE value
  BY <1>1, <1>2 DEF Moved
<1>4. \A i \in 1 .. n : i \in 1 .. n + 1 /\ i <= n
  BY <1>1
<1>5. n + 1 \in 1 .. n + 1 /\ ~(n + 1 <= n)
  BY <1>1
<1>6. DOMAIN g = DOMAIN f
  BY DEF Moved
<1>7. ASSUME NEW x \in DOMAIN f, \A i \in 1 .. n + 1 : places[i] # x
      PROVE  g[x] = IF x \in Elements(o) THEN Null ELSE f[x]
  BY <1>1, <1>7 DEF Moved
<1> HIDE DEF n, g
<1>8. /\ \A i \in 1 .. n : g[places[i]] = f[subwindows[o][i]]
      /\ g[places[n + 1]] = value
  BY <1>3, <1>4, <1>5
<1>9. \A x \in DOMAIN f \ {places[i] : i \in 1 .. n + 1} :
         g[x] = IF x \in Elements(o) THEN Null ELSE f[x]
  BY <1>7
<1>10. QED
  BY <1>6, <1>8, <1>9 DEF n, g

LEMMA AddSubwindowStep ==
    ASSUME WindowInv, NEW o \in Holders, AddSubwindow(o)
    PROVE  WindowInv'
<1> USE PlacesApart
<1> DEFINE v == subwindows[o]
           n == Len(v)
<1>1. /\ o \in alive /\ win[o] # Null /\ UNCHANGED <<takenOver, isExit>>
      /\ v \in Seq(Subs) /\ n \in Nat /\ Distinct(v)
      /\ Elements(o) = {v[i] : i \in 1 .. n} /\ Elements(o) \subseteq Subs \cap alive
  <2>1. v \in Seq(Subs) /\ DOMAIN v = 1 .. n
    BY DEF WindowInv, WindowTypeOK
  <2>2. QED
    BY <2>1, ElementsLive DEF AddSubwindow, WindowInv, Vectors, Elements
<1>2. PICK h \in Handles, places \in Placements(o) :
        LET range == {places[i] : i \in DOMAIN places}
        IN  /\ NewHandle(h, win[o], live)
            /\ alive' = (alive \ Elements(o)) \cup range
            /\ win' = Moved(win, o, places, h)
            /\ save' = Moved(save, o, places, Null)
            /\ registered' = [x \in Objects |->
                   CASE x \in range \ Elements(o) -> registered[x] + 1
                     [] x \in Elements(o) \ range -> registered[x] - 1
                     [] OTHER -> registered[x]]
            /\ subwindows' = [subwindows EXCEPT ![o] = places]
            /\ parent' = Moved(parent, o, places, o)
  BY DEF AddSubwindow
<1>3. /\ places \in [1 .. n + 1 -> Subs] /\ Distinct(places) /\ places[n + 1] \notin alive
      /\ \/ \A i \in 1 .. n : places[i] = v[i]
         \/ \A i \in 1 .. n : places[i] \notin alive
      /\ places \in Seq(Subs) /\ DOMAIN places = 1 .. n + 1
  BY <1>1 DEF Placements
<1> DEFINE range == {places[i] : i \in 1 .. n + 1}
<1>4. /\ range \subseteq Subs
      /\ \A x \in range : x \in Elements(o) \/ x \notin alive
  BY <1>1, <1>3
<1>5. h \notin live /\ live' = live \cup {h} /\ h # Null /\ live' \subseteq Pointers
  BY <1>2 DEF NewHandle, WindowInv, WindowTypeOK
<1>6. /\ alive' = (alive \ Elements(o)) \cup range
      /\ win' = Moved(win, o, places, h)
      /\ save' = Moved(save, o, places, Null)
      /\ parent' = Moved(parent, o, places, o)
      /\ \A x \in Objects : registered'[x] =
              CASE x \in range \ Elements(o) -> registered[x] + 1
                [] x \in Elements(o) \ range -> registered[x] - 1
                [] OTHER -> registered[x]
      /\ DOMAIN registered' = Objects /\ registered' = [x \in Objects |-> registered'[x]]
      /\ subwindows' = [subwindows EXCEPT ![o] = places]
  BY <1>2, <1>3
<1>7. /\ DOMAIN win = Objects /\ DOMAIN save = Objects /\ DOMAIN parent = Subs
      /\ win \in [Objects -> Pointers \cup {Null}] /\ save \in [Objects -> Pointers \cup {Null}]
      /\ parent \in [Subs -> Holders \cup {Null}]
      /\ subwindows \in [Holders -> Seq(Subs)]
  BY DEF WindowInv, WindowTypeOK
<1> HIDE DEF n, v, range
<1>8. /\ DOMAIN win' = Objects
      /\ \A i \in 1 .. n : win'[places[i]] = win[v[i]]
      /\ win'[places[n + 1]] = h
      /\ \A x \in Objects \ range : win'[x] = IF x \in Elements(o) THEN Null ELSE win[x]
  <2>1. win' = Moved(win, o, places, h) /\ Subs \subseteq DOMAIN win /\ DOMAIN win = Objects
    BY <1>6, <1>7
  <2>2. QED
    BY <1>3, <2>1, MovedFields DEF n, v, range
<1>9. /\ DOMAIN save' = Objects
      /\ \A i \in 1 .. n : save'[places[i]] = save[v[i]]
      /\ save'[places[n + 1]] = Null
      /\ \A x \in Objects \ range : save'[x] = IF x \in Elements(o) THEN Null ELSE save[x]
  <2>1. save' = Moved(save, o, places, Null) /\ Subs \subseteq DOMAIN save /\ DOMAIN save = Objects
    BY <1>6, <1>7
  <2>2. QED
    BY <1>3, <2>1, MovedFields DEF n, v, range
<1>10. /\ DOMAIN parent' = Subs
       /\ \A i \in 1 .. n : parent'[places[i]] = parent[v[i]]
       /\ parent'[places[n + 1]] = o
       /\ \A x \in Subs \ range : parent'[x] = IF x \in Elements(o) THEN Null ELSE parent[x]
  <2>1. parent' = Moved(parent, o, places, o) /\ Subs \subseteq DOMAIN parent /\ DOMAIN parent = Subs
    BY <1>6, <1>7
  <2>2. QED
    BY <1>3, <2>1, MovedFields DEF n, v, range
<1>11. \A x \in range : \/ x = places[n + 1]
                        \/ \E i \in 1 .. n : x = places[i]
  BY <1>1 DEF range, n, v
<1>12. /\ \A i \in 1 .. n : v[i] \in Subs /\ v[i] \in Elements(o) /\ v[i] \in alive
                           /\ places[i] \in Subs
       /\ places[n + 1] \in Subs
       /\ \A i, j \in 1 .. n : v[i] = v[j] => i = j
       /\ n \in Nat
  BY <1>1, <1>3 DEF n, v, Distinct
<1>13. /\ win' \in [Objects -> Pointers \cup {Null}]
       /\ save' \in [Objects -> Pointers \cup {Null}]
       /\ parent' \in [Subs -> Holders \cup {Null}]
       /\ subwindows' \in [Holders -> Seq(Subs)]
       /\ alive' \subseteq Objects
  <2>1. ASSUME NEW x \in Objects
        PROVE  win'[x] \in Pointers \cup {Null} /\ save'[x] \in Pointers \cup {Null}
    <3>1. \A y \in Objects : win[y] \in Pointers \cup {Null} /\ save[y] \in Pointers \cup {Null}
      BY <1>7
    <3>2. CASE x \notin range
      BY <1>8, <1>9, <3>1, <3>2
    <3>3. ASSUME NEW i \in 1 .. n, x = places[i]
          PROVE  win'[x] \in Pointers \cup {Null} /\ save'[x] \in Pointers \cup {Null}
      <4>1. win'[x] = win[v[i]] /\ save'[x] = save[v[i]] /\ v[i] \in Objects
        BY <1>8, <1>9, <1>12, <3>3
      <4>2. QED
        BY <3>1, <4>1
    <3>4. CASE x = places[n + 1]
      BY <1>5, <1>8, <1>9, <3>4
    <3>5. QED
      BY <1>11, <3>2, <3>3, <3>4
  <2>2. ASSUME NEW x \in Subs
        PROVE  parent'[x] \in Holders \cup {Null}
    <3>1. \A y \in Subs : parent[y] \in Holders \cup {Null}
      BY <1>7
    <3>2. CASE x \notin range
      BY <1>10, <3>1, <3>2
    <3>3. ASSUME NEW i \in 1 .. n, x = places[i]
          PROVE  parent'[x] \in Holders \cup {Null}
      BY <1>10, <1>12, <3>1, <3>3
    <3>4. CASE x = places[n + 1]
      BY <1>10, <3>4
    <3>5. QED
      BY <1>11, <3>2, <3>3, <3>4
  <2>3. /\ win' = [x \in Objects |-> win'[x]] /\ save' = [x \in Objects |-> save'[x]]
        /\ parent' = [x \in Subs |-> parent'[x]]
    BY <1>6, <1>7, <1>8, <1>9, <1>10 DEF Moved
  <2>4. subwindows' \in [Holders -> Seq(Subs)]
    BY <1>3, <1>6, <1>7
  <2>5. alive' \subseteq Objects
    BY <1>4, <1>6 DEF WindowInv, WindowTypeOK
  <2>6. QED
    BY <2>1, <2>2, <2>3, <2>4, <2>5
<1>14. OneField'
  <2>1. ASSUME NEW x \in Objects PROVE win'[x] = Null \/ save'[x] = Null
    BY <1>8, <1>9, <1>11, <1>12 DEF WindowInv, OneField
  <2>2. QED
    BY <2>1 DEF OneField
\* An object has the window that it had, or that the element had whose place
\* it has taken, or the new one.
<1> DEFINE From(x, y) ==
              \/ \E i \in 1 .. n : x = places[i] /\ y = v[i]
              \/ (x \notin range /\ x \notin Elements(o) /\ y = x)
<1> HIDE DEF From
<1>15. ASSUME NEW x \in Objects, Managed(x)' # Null
       PROVE  /\ x \in alive'
              /\ \/ x = places[n + 1] /\ Managed(x)' = h
                 \/ \E y \in alive \cap Objects : From(x, y) /\ Managed(x)' = Managed(y)
  <2>1. CASE x = places[n + 1]
    <3>1. win'[x] = h /\ x \in range
      BY <1>8, <1>12, <2>1 DEF range
    <3>2. QED
      BY <1>5, <1>6, <2>1, <3>1 DEF Managed
  <2>2. ASSUME NEW i \in 1 .. n, x = places[i]
        PROVE  /\ x \in alive'
               /\ \E y \in alive \cap Objects : From(x, y) /\ Managed(x)' = Managed(y)
    <3>1. x \in range
      BY <1>12, <2>2 DEF range
    <3>2. Managed(x)' = Managed(v[i])
      <4>1. win'[x] = win[v[i]] /\ save'[x] = save[v[i]]
        BY <1>8, <1>9, <2>2
      <4>2. QED
        BY <4>1 DEF Managed
    <3>3. v[i] \in alive /\ v[i] \in Objects /\ From(x, v[i])
      <4>1. v[i] \in alive /\ v[i] \in Objects
        BY <1>12
      <4>2. From(x, v[i])
        BY <2>2 DEF From
      <4>3. QED
        BY <4>1, <4>2
    <3>4. x \in alive'
      BY <1>6, <3>1
    <3>5. QED
      BY <3>2, <3>3, <3>4
  <2>3. CASE x \notin range
    <3>1. x \notin Elements(o) /\ Managed(x)' = Managed(x)
      BY <1>8, <1>9, <1>15, <2>3 DEF Managed
    <3>2. x \in alive
      BY <1>15, <3>1 DEF WindowInv, ManagedOnce
    <3>3. QED
      BY <1>6, <2>3, <3>1, <3>2 DEF From
  <2>4. QED
    BY <1>11, <2>1, <2>2, <2>3
<1>16. ASSUME NEW x \in Objects, NEW y \in Objects, NEW a \in alive \cap Objects,
              NEW b \in alive \cap Objects, From(x, a), From(y, b), a = b
       PROVE  x = y
  BY <1>12, <1>16 DEF From
<1>17. ManagedOnce'
  <2>1. \A x \in Objects : Managed(x)' # Null => x \in alive' /\ Managed(x)' \in live'
    BY <1>5, <1>15, DeadIsNull
  <2>2. ASSUME NEW x \in Objects, NEW y \in Objects, Managed(x)' = Managed(y)', x # y,
               Managed(x)' # Null
        PROVE  FALSE
    <3>1. CASE x = places[n + 1] /\ Managed(x)' = h
      BY <1>5, <1>15, <2>2, <3>1, DeadIsNull
    <3>2. CASE y = places[n + 1] /\ Managed(y)' = h
      BY <1>5, <1>15, <2>2, <3>2, DeadIsNull
    <3>3. ASSUME NEW a \in alive \cap Objects, NEW b \in alive \cap Objects,
                 From(x, a), From(y, b), Managed(x)' = Managed(a), Managed(y)' = Managed(b)
          PROVE  FALSE
      BY <1>16, <2>2, <3>3 DEF WindowInv, ManagedOnce
    <3>4. QED
      BY <1>15, <2>2, <3>1, <3>2, <3>3
  <2>3. ~isExit' => \A x \in Objects : save'[x] = Null
    <3>1. SUFFICES ASSUME ~isExit', NEW x \in Objects PROVE save'[x] = Null
      OBVIOUS
    <3>2. \A y \in Objects : save[y] = Null
      BY <1>1, <3>1 DEF WindowInv, ManagedOnce
    <3>3. CASE x \notin range
      BY <1>9, <3>2, <3>3
    <3>4. ASSUME NEW i \in 1 .. n, x = places[i] PROVE save'[x] = Null
      BY <1>9, <1>12, <3>2, <3>4
    <3>5. QED
      BY <1>9, <1>11, <3>3, <3>4
  <2>4. QED
    BY <2>1, <2>2, <2>3 DEF ManagedOnce
<1>18. /\ \A p \in Holders \ {o} : subwindows'[p] = subwindows[p]
       /\ subwindows'[o] = places
  BY <1>3, <1>6, <1>7
<1>19. /\ \A p \in Holders \ {o} : Elements(p)' = Elements(p)
       /\ Elements(o)' = range
  BY <1>3, <1>18 DEF Elements, range
<1>20. \A p \in Holders \ {o} : \A s \in Elements(p) :
          s \in Subs /\ s \in alive /\ s \notin Elements(o) /\ s \notin range
  BY <1>4, ElementsLive DEF WindowInv, Vectors
<1>21. NoneWithin'
  <2>1. ASSUME NEW p \in Holders, Managed(p)' = Null, NEW s \in Elements(p)'
        PROVE  Managed(s)' = Null
    <3>1. p \notin range /\ p \notin Elements(o)
      BY <1>1, <1>4
    <3>2. Managed(p)' = Managed(p)
      BY <1>8, <1>9, <3>1 DEF Managed
    <3>3. p # o
      BY <1>1, <2>1, <3>2 DEF Managed
    <3>4. s \in Elements(p) /\ Managed(s)' = Managed(s)
      BY <1>8, <1>9, <1>19, <1>20, <2>1, <3>3 DEF Managed
    <3>5. QED
      BY <2>1, <3>2, <3>4 DEF WindowInv, NoneWithin
  <2>2. QED
    BY <2>1 DEF NoneWithin
<1>22. Vectors'
  <2>1. \A p \in Holders : Distinct(subwindows[p])'
    BY <1>3, <1>18 DEF WindowInv, Vectors, Distinct
  <2>2. \A p \in Holders : Elements(p)' \subseteq alive'
    BY <1>6, <1>19, <1>20
  <2>3. \A p, q \in Holders : p # q => Elements(p)' \cap Elements(q)' = {}
    BY <1>19, <1>20 DEF WindowInv, Vectors
  <2>4. \A p \in Holders \ alive' : subwindows'[p] = <<>>
    BY <1>1, <1>6, <1>18 DEF WindowInv, Vectors
  <2>5. QED
    BY <2>1, <2>2, <2>3, <2>4 DEF Vectors
<1>23. ParentIsHolder'
  <2>1. ASSUME NEW p \in Holders \ takenOver', NEW s \in Elements(p)'
        PROVE  parent'[s] = p
    <3>1. CASE p = o
      <4>1. \A i \in 1 .. n : parent[v[i]] = o
        BY <1>1, <1>12, <2>1, <3>1 DEF WindowInv, ParentIsHolder
      <4>2. QED
        BY <1>10, <1>11, <1>19, <2>1, <3>1, <4>1
    <3>2. CASE p # o
      BY <1>1, <1>10, <1>19, <1>20, <2>1, <3>2 DEF WindowInv, ParentIsHolder
    <3>3. QED
      BY <3>1, <3>2
  <2>2. QED
    BY <2>1 DEF ParentIsHolder
<1>24. RegisteredOnce' /\ registered' \in [Objects -> Nat]
  <2>1. \A x \in Objects : registered[x] = IF x \in alive \ {Nc} THEN 1 ELSE 0
    BY DEF WindowInv, RegisteredOnce
  <2>2. ASSUME NEW x \in Objects
        PROVE  registered'[x] = IF x \in alive' \ {Nc} THEN 1 ELSE 0
    <3>1. CASE x \in range \ Elements(o)
      BY <1>4, <1>6, <2>1, <3>1
    <3>2. CASE x \in Elements(o) \ range
      <4>1. registered'[x] = registered[x] - 1 /\ x \notin alive'
        BY <1>6, <3>2
      <4>2. x \in alive /\ x # Nc
        BY <1>1, <3>2
      <4>3. QED
        BY <2>1, <4>1, <4>2
    <3>3. CASE (x \in range <=> x \in Elements(o))
      <4>1. registered'[x] = registered[x]
        BY <1>6, <3>3
      <4>2. x \in alive' <=> x \in alive
        BY <1>1, <1>6, <3>3
      <4>3. QED
        BY <2>1, <4>1, <4>2
    <3>4. QED
      BY <3>1, <3>2, <3>3
  <2>3. QED
    BY <1>6, <2>2 DEF RegisteredOnce
<1>25. QED
  BY <1>5, <1>13, <1>14, <1>17, <1>21, <1>22, <1>23, <1>24 DEF WindowInv, WindowTypeOK

LEMMA DeleteSubwindowStep ==
    ASSUME WindowInv, NEW o \in Holders, NEW i \in DOMAIN subwindows[o], DeleteSubwindow(o, i)
    PROVE  WindowInv'
<1> USE PlacesApart
<1> DEFINE s == subwindows[o][i]
<1>1. /\ s \in Elements(o) /\ s \in Subs /\ s \in Objects
  BY ElementsLive DEF Elements
<1>2. /\ win[s] # Null /\ live' = live \ {win[s]}
      /\ win' = [win EXCEPT ![s] = Null] /\ parent' = [parent EXCEPT ![s] = o]
      /\ UNCHANGED <<alive, save, subwindows, registered, takenOver, isExit>>
  BY DEF DeleteSubwindow, Deleted
<1> HIDE DEF s
<1>3. Managed(s) = win[s] /\ save[s] = Null
  BY <1>1, <1>2, DeadIsNull DEF WindowInv, OneField
<1>4. /\ win' \in [Objects -> Pointers \cup {Null}]
      /\ \A x \in Objects : win'[x] = IF x = s THEN Null ELSE win[x]
      /\ parent' \in [Subs -> Holders \cup {Null}]
      /\ \A x \in Subs : parent'[x] = IF x = s THEN o ELSE parent[x]
  BY <1>1, <1>2 DEF WindowInv, WindowTypeOK
<1>5. \A x \in Objects : Managed(x)' = IF x = s THEN Null ELSE Managed(x)
  BY <1>2, <1>3, <1>4 DEF Managed
<1>6. ManagedOnce'
  <2>1. \A x \in Objects : Managed(x)' # Null => x \in alive' /\ Managed(x)' \in live'
    BY <1>1, <1>2, <1>3, <1>5 DEF WindowInv, ManagedOnce
  <2>2. \A x, y \in Objects : Managed(x)' = Managed(y)' /\ x # y => Managed(x)' = Null
    BY <1>5 DEF WindowInv, ManagedOnce
  <2>3. ~isExit' => \A x \in Objects : save'[x] = Null
    BY <1>2 DEF WindowInv, ManagedOnce
  <2>4. QED
    BY <2>1, <2>2, <2>3 DEF ManagedOnce
<1>7. \A p \in Holders : /\ Elements(p)' = Elements(p)
                         /\ Distinct(subwindows[p])' = Distinct(subwindows[p])
  BY <1>2 DEF Elements, Distinct
<1>8. NoneWithin'
  <2>1. ASSUME NEW p \in Holders, Managed(p)' = Null, NEW x \in Elements(p)
        PROVE  Managed(x)' = Null
    <3>1. p \in Objects /\ p # s /\ x \in Objects
      BY <1>1, ElementsLive
    <3>2. QED
      BY <1>5, <2>1, <3>1 DEF WindowInv, NoneWithin
  <2>2. QED
    BY <1>7, <2>1 DEF NoneWithin
<1>9. ParentIsHolder'
  <2>1. ASSUME NEW p \in Holders \ takenOver, NEW x \in Elements(p)
        PROVE  parent'[x] = p
    <3>1. x \in Subs /\ (x = s => p = o)
      BY <1>1, ElementsLive DEF WindowInv, Vectors
    <3>2. QED
      BY <1>4, <2>1, <3>1 DEF WindowInv, ParentIsHolder
  <2>2. QED
    BY <1>2, <1>7, <2>1 DEF ParentIsHolder
<1>10. Vectors' /\ RegisteredOnce' /\ OneField'
  BY <1>2, <1>4, <1>7 DEF WindowInv, Vectors, RegisteredOnce, OneField
<1>11. live' \subseteq Pointers
  BY <1>2 DEF WindowInv, WindowTypeOK
<1>12. QED
  BY <1>2, <1>4, <1>6, <1>8, <1>9, <1>10, <1>11 DEF WindowInv, WindowTypeOK

\* The loops of exit_ncurses_mode and resume_ncurses_mode reach every object,
\* and an element of a vector twice.
LEMMA VisitsReach ==
    ASSUME WindowInv
    PROVE  /\ \A x \in Objects : Visits(x) = 0 => win[x] = Null /\ save[x] = Null
           /\ \A o \in Holders : \A s \in Elements(o) : Visits(s) = 2
<1> USE PlacesApart
<1> DEFINE through(o) == IF o = Nc THEN 1 ELSE registered[o]
           holders(x) == {o \in Holders : x \in Elements(o)}
<1>1. \A x \in Objects : registered[x] = IF x \in alive \ {Nc} THEN 1 ELSE 0
  BY DEF WindowInv, RegisteredOnce
<1>2. ASSUME NEW o \in Holders, NEW x \in Elements(o) PROVE through(o) = 1
  <2>1. o \in Objects /\ (o \in alive \/ Elements(o) = {})
    BY DEF WindowInv, Vectors, Elements
  <2>2. QED
    BY <1>1, <1>2, <2>1
<1>3. ASSUME NEW x \in Objects, holders(x) # {}
      PROVE  through(CHOOSE o \in holders(x) : TRUE) = 1
  <2>1. (CHOOSE o \in holders(x) : TRUE) \in holders(x)
    BY <1>3
  <2>2. QED
    BY <1>2, <2>1
<1>4. ASSUME NEW x \in Objects
      PROVE  Visits(x) = (IF x = Nc THEN 1 ELSE registered[x])
                         + (IF holders(x) = {} THEN 0 ELSE 1)
  <2>1. Visits(x) = (IF x = Nc THEN 1 ELSE registered[x])
                    + (IF holders(x) = {} THEN 0
                       ELSE through(CHOOSE o \in holders(x) : TRUE))
    BY DEF Visits
  <2>2. QED
    BY <1>3, <2>1
<1>5. ASSUME NEW o \in Holders, NEW s \in Elements(o) PROVE Visits(s) = 2
  <2>1. s \in Objects /\ s \in alive /\ s # Nc /\ holders(s) # {}
    BY <1>5, ElementsLive
  <2>2. QED
    BY <1>1, <1>4, <2>1
<1>6. ASSUME NEW x \in Objects, Visits(x) = 0 PROVE win[x] = Null /\ save[x] = Null
  <2>1. x \notin alive
    BY <1>1, <1>4, <1>6
  <2>2. QED
    BY <2>1, DeadIsNull
<1>7. QED
  BY <1>5, <1>6

\* Leaving and resuming ncurses mode hands each window to the other field of its
\* object, or loses it.
LEMMA ModeStep == ASSUME WindowInv, ExitMode \/ ResumeMode PROVE WindowInv'
<1> USE PlacesApart
<1>1. UNCHANGED <<alive, subwindows, registered, parent, takenOver, live>>
  BY DEF ExitMode, ResumeMode, cursesVars
<1>2. /\ win' \in [Objects -> Pointers \cup {Null}]
      /\ save' \in [Objects -> Pointers \cup {Null}]
      /\ \A x \in Objects : /\ Managed(x)' \in {Null, Managed(x)}
                            /\ Visits(x) = 2 => Managed(x)' = Null
                            /\ win'[x] = Null \/ save'[x] = Null
      /\ ~isExit' => \A x \in Objects : save'[x] = Null
  <2>1. ASSUME NEW f \in [Objects -> Pointers \cup {Null}],
               NEW g \in [Objects -> Pointers \cup {Null}]
        PROVE  /\ VisitedFrom(f) \in [Objects -> Pointers \cup {Null}]
               /\ VisitedTo(f, g) \in [Objects -> Pointers \cup {Null}]
               /\ \A x \in Objects :
                     /\ Visits(x) = 0 => /\ VisitedFrom(f)[x] = f[x]
                                         /\ VisitedTo(f, g)[x] = g[x]
                     /\ Visits(x) # 0 => /\ VisitedFrom(f)[x] = Null
                                         /\ VisitedTo(f, g)[x] \in {f[x], Null}
                     /\ Visits(x) = 2 => VisitedTo(f, g)[x] = Null
    BY DEF VisitedFrom, VisitedTo
  <2>2. CASE ExitMode
    <3>1. save' = VisitedTo(win, save) /\ win' = VisitedFrom(win) /\ isExit'
      BY <2>2 DEF ExitMode
    <3>2. \A x \in Objects : /\ win'[x] = Null
                             /\ save'[x] \in {Null, win[x]}
                             /\ Visits(x) = 2 => save'[x] = Null
      BY <2>1, <3>1, VisitsReach, FieldsTyped
    <3>3. QED
      BY <2>1, <3>1, <3>2, FieldsTyped DEF Managed
  <2>3. CASE ResumeMode
    <3>1. win' = VisitedTo(save, win) /\ save' = VisitedFrom(save)
      BY <2>3 DEF ResumeMode
    <3>2. \A x \in Objects : /\ save'[x] = Null
                             /\ win'[x] \in {Null, save[x]}
                             /\ Visits(x) = 2 => win'[x] = Null
      BY <2>1, <3>1, VisitsReach, FieldsTyped
    <3>3. \A x \in Objects : save[x] # Null => Managed(x) = save[x]
      BY DeadIsNull
    <3>4. QED
      BY <2>1, <3>1, <3>2, <3>3, FieldsTyped DEF Managed
  <2>4. QED
    BY <2>2, <2>3
<1>3. Vectors' /\ ParentIsHolder'
  BY <1>1, VectorsKept
<1>4. OneField'
  BY <1>2 DEF OneField
<1>5. ManagedOnce'
  <2>1. \A x \in Objects : Managed(x)' # Null => x \in alive' /\ Managed(x)' \in live'
    BY <1>1, <1>2 DEF WindowInv, ManagedOnce
  <2>2. \A x, y \in Objects : Managed(x)' = Managed(y)' /\ x # y => Managed(x)' = Null
    BY <1>2 DEF WindowInv, ManagedOnce
  <2>3. QED
    BY <1>2, <2>1, <2>2 DEF ManagedOnce
<1>6. NoneWithin'
  <2>1. \A p \in Holders : Elements(p)' = Elements(p)
    BY <1>1 DEF Elements
  <2>2. \A p \in Holders : \A s \in Elements(p) : Managed(s)' = Null
    BY <1>2, VisitsReach, ElementsLive
  <2>3. QED
    BY <2>1, <2>2 DEF NoneWithin
<1>7. QED
  BY <1>1, <1>2, <1>3, <1>4, <1>5, <1>6 DEF WindowInv, WindowTypeOK, RegisteredOnce

\* Nothing else than the fields of windowVars is in WindowInv.
LEMMA WindowsUntouched == ASSUME WindowInv, UNCHANGED windowVars PROVE WindowInv'
<1>1. /\ UNCHANGED <<alive, win, save, subwindows, registered, parent, takenOver>>
      /\ UNCHANGED <<isExit, live, within>>
  BY DEF windowVars, objectVars, cursesVars
<1>2. /\ \A o \in Holders : Elements(o)' = Elements(o)
      /\ \A x : Managed(x)' = Managed(x)
      /\ \A o \in Holders : Distinct(subwindows[o])' = Distinct(subwindows[o])
  BY <1>1 DEF Elements, Managed, Distinct
<1>3. QED
  BY <1>1, <1>2 DEF WindowInv, WindowTypeOK, Vectors, OneField, NoneWithin,
                    RegisteredOnce, ManagedOnce, ParentIsHolder

LEMMA WindowsStep == WindowInv /\ [Next]_vars => WindowInv'
<1> SUFFICES ASSUME WindowInv, [Next]_vars PROVE WindowInv'
  OBVIOUS
<1>1. ASSUME NEW o \in Wins,
             \/ Construct(o) \/ Assign(o) \/ DestroyWindow(o) \/ Destruct(o)
             \/ \E other \in Wins : \/ CopyConstruct(o, other) \/ MoveConstruct(o, other)
                                   \/ MoveAssign(o, other) \/ CopyAssign(o, other)
      PROVE  WindowInv'
  BY <1>1, ConstructStep, AssignStep, DestroyStep, CopyConstructStep, MoveConstructStep,
     MoveAssignStep, CopyAssignStep
<1>2. ASSUME NEW o \in Holders,
             AddSubwindow(o) \/ \E i \in DOMAIN subwindows[o] : DeleteSubwindow(o, i)
      PROVE  WindowInv'
  BY <1>2, AddSubwindowStep, DeleteSubwindowStep
<1>3. CASE ExitMode \/ ResumeMode
  BY <1>3, ModeStep
<1>4. CASE ProcessExit \/ UNCHANGED vars
  BY <1>4, WindowsUntouched DEF ProcessExit, vars, windowVars
<1>5. QED
  BY <1>1, <1>2, <1>3, <1>4 DEF Next

\* The drawing functions take no step of the windows.
LEMMA ColorStepOfWindows ==
    ASSUME [ColorNext]_screenVars
    PROVE  [Next]_vars \/ UNCHANGED windowVars
<1>1. CASE WithPlainWindow
  BY <1>1 DEF WithPlainWindow, Next
<1>2. CASE (\E o, cp \in Wins : WithCopy(o, cp)) \/ \E o \in Holders : WithSubwindow(o)
  BY <1>2 DEF WithCopy, WithSubwindow, Next
<1>3. CASE \/ \E c \in Colors :
                 TooMuchColors(c) \/ \E o \in Objects : Chgat(o, c) \/ SetColor(o, c)
           \/ \E o \in Objects : ResetColor(o) \/ ColorGetOutside(o)
           \/ UNCHANGED screenVars
  BY <1>3 DEF TooMuchColors, Chgat, SetColor, ResetColor, ColorGetOutside, screenVars
<1>4. QED
  BY <1>1, <1>2, <1>3 DEF ColorNext

LEMMA WindowsBegin == Init => WindowInv
<1> SUFFICES ASSUME Init PROVE WindowInv
  OBVIOUS
<1> USE PlacesApart
<1>1. /\ alive = {Nc} /\ live = {stdscr}
      /\ win = [x \in Objects |-> IF x = Nc THEN stdscr ELSE Null]
      /\ save = [x \in Objects |-> Null]
      /\ subwindows = [x \in Holders |-> <<>>]
      /\ registered = [x \in Objects |-> 0]
      /\ parent = [s \in Subs |-> Null]
  BY DEF Init
<1>2. Nc \in Holders /\ Nc \in Objects /\ stdscr \in Pointers /\ stdscr # Null
  BY PlacesAssumption DEF Holders, Objects, Pointers
<1>3. <<>> \in Seq(Subs) /\ DOMAIN <<>> = {}
  OBVIOUS
<1>4. \A o \in Holders : /\ subwindows[o] = <<>> /\ Elements(o) = {}
                         /\ Distinct(subwindows[o])
  BY <1>1, <1>3 DEF Elements, Distinct
<1>5. WindowTypeOK
  BY <1>1, <1>2, <1>3 DEF WindowTypeOK
<1>6. \A x \in Objects : /\ win[x] = (IF x = Nc THEN stdscr ELSE Null) /\ save[x] = Null
                         /\ registered[x] = 0
  BY <1>1
<1>7. Vectors /\ NoneWithin /\ ParentIsHolder
  BY <1>4 DEF Vectors, NoneWithin, ParentIsHolder
<1>8. OneField /\ RegisteredOnce
  BY <1>1, <1>6 DEF OneField, RegisteredOnce
<1>9. ManagedOnce
  BY <1>1, <1>2, <1>6 DEF ManagedOnce, Managed
<1>10. QED
  BY <1>5, <1>7, <1>8, <1>9 DEF WindowInv

\* The windows are as WindowInv says with and without colours.
LEMMA WindowsHold == (Spec => []WindowInv) /\ (ColorSpec => []WindowInv)
<1>1. ColorInit => Init
  BY DEF ColorInit
<1>2. WindowInv /\ [ColorNext]_screenVars => WindowInv'
  BY WindowsStep, ColorStepOfWindows, WindowsUntouched
<1>3. QED
  BY <1>1, <1>2, WindowsBegin, WindowsStep, PTL DEF Spec, ColorSpec

(***************************************************************************)
(* windows_ holds every object once and nothing else, through every move   *)
(* of an object and every growth of a vector of subwindows: the assertion  *)
(* of unregister_window_ never fails, and the loops that leave and resume  *)
(* ncurses mode reach what exists.                                         *)
(***************************************************************************)
THEOREM ObjectsAreRegistered == ColorSpec => []RegisteredOnce
<1>1. WindowInv => RegisteredOnce
  BY DEF WindowInv
<1>2. QED
  BY <1>1, WindowsHold, PTL

(***************************************************************************)
(* No window is managed by two objects or after its deletion, whatever the *)
(* application copies, moves, assigns and destroys, and in whatever mode.  *)
(***************************************************************************)
THEOREM WindowsAreManagedOnce == ColorSpec => []ManagedOnce
<1>1. WindowInv => ManagedOnce
  BY DEF WindowInv
<1>2. QED
  BY <1>1, WindowsHold, PTL

(***************************************************************************)
(* A subwindow knows the object that holds it as long as its vector was    *)
(* never moved to another object, wherever its elements have moved.        *)
(***************************************************************************)
THEOREM ParentsAreHolders == ColorSpec => []ParentIsHolder
<1>1. WindowInv => ParentIsHolder
  BY DEF WindowInv
<1>2. QED
  BY <1>1, WindowsHold, PTL

(***************************************************************************)
(* The three without the colours.                                          *)
(***************************************************************************)
THEOREM WindowsAlone == Spec => [](RegisteredOnce /\ ManagedOnce /\ ParentIsHolder)
<1>1. WindowInv => RegisteredOnce /\ ManagedOnce /\ ParentIsHolder
  BY DEF WindowInv
<1>2. QED
  BY <1>1, WindowsHold, PTL

----------------------------------------------------------------------------
(* The colours.                                                            *)

\* The part of ShownAsChosen that does not follow from the agreement of the
\* tables.
Shows(a, c) ==
    Len(registered_colors) < AttrPairs /\ c # NoColor
        => a \in PairNumbers /\ pairs[a] = c
ShownByPair == \A h \in Pointers : Shows(attr[h], chosen[h])

(***************************************************************************)
(* PairsAgree only speaks of pairs that exist; that every registered       *)
(* colour has one is what makes it inductive.                              *)
(***************************************************************************)
IInv ==
    /\ ColorTypeOK
    /\ Len(registered_colors) < ColorPairs
    /\ PairsAgree
    /\ ShownByPair

\* A pair that is initialized keeps its colour in a step.
KeepsPairs == \A n \in PairNumbers : pairs[n] # NoColor => pairs'[n] = pairs[n]

LEMMA InitIsGood == ColorInit => IInv
<1> USE PairsAssumption
<1> SUFFICES ASSUME ColorInit PROVE IInv
  OBVIOUS
<1>1. <<>> \in Seq(Colors) /\ Len(<<>>) = 0 /\ registered_colors = <<>>
  BY DEF ColorInit
<1>2. ColorTypeOK
  <2>1. registered_colors \in Seq(Colors)
    BY <1>1
  <2>2. /\ pairs \in [PairNumbers -> Colors \cup {NoColor}]
        /\ attr \in [Pointers -> 0 .. AttrPairs - 1]
        /\ chosen \in [Pointers -> Colors \cup {NoColor}]
    BY DEF ColorInit
  <2> QED
    BY <2>1, <2>2 DEF ColorInit, ColorTypeOK
<1>3. PairsAgree
  BY <1>1 DEF ColorInit, PairsAgree, PairNumbers
<1>4. Len(registered_colors) < ColorPairs
  BY <1>1
<1>5. ShownByPair
  BY DEF ColorInit, ShownByPair, Shows
<1> QED
  BY <1>2, <1>3, <1>4, <1>5 DEF IInv

\* Looking up or registering a colour: the tables go on agreeing, pairs in use
\* keep their colour, and the number returned is that of the colour.
LEMMA NumberIsOfColor ==
  ASSUME IInv, NEW c \in Colors, NEW n \in PairNumbers, ColorToPairNumber(c, n)
  PROVE  /\ PairsAgree'
         /\ KeepsPairs
         /\ pairs'[n] = c
         /\ n <= Len(registered_colors')
         /\ Len(registered_colors) <= Len(registered_colors')
         /\ Len(registered_colors') < ColorPairs
         /\ registered_colors' \in Seq(Colors)
         /\ pairs' \in [PairNumbers -> Colors \cup {NoColor}]
         /\ colors_initialized' \in BOOLEAN
<1> USE PairsAssumption
<1> DEFINE N == Len(registered_colors)
<1>0. /\ registered_colors \in Seq(Colors)
      /\ N \in Nat
      /\ DOMAIN registered_colors = 1 .. N
      /\ pairs \in [PairNumbers -> Colors \cup {NoColor}]
      /\ N < ColorPairs
  BY DEF IInv, ColorTypeOK
<1>1. CASE IsRegistered(c, n) /\ UNCHANGED tableVars
  <2>1. pairs[n] = c /\ n <= N
    BY <1>0, <1>1 DEF IInv, PairsAgree, IsRegistered
  <2> QED
    BY <1>0, <1>1, <2>1 DEF IInv, ColorTypeOK, PairsAgree, KeepsPairs, tableVars
<1>2. CASE /\ \A m \in DOMAIN registered_colors : ~IsRegistered(c, m)
           /\ n = N + 1
           /\ colors_initialized' = TRUE
           /\ pairs' = [pairs EXCEPT ![n] = c]
           /\ registered_colors' = Append(registered_colors, c)
  <2>1. /\ registered_colors' \in Seq(Colors)
        /\ Len(registered_colors') = N + 1
        /\ DOMAIN registered_colors' = 1 .. N + 1
        /\ \A m \in 1 .. N : registered_colors'[m] = registered_colors[m]
        /\ registered_colors'[N + 1] = c
    BY <1>0, <1>2
  <2>2. N + 1 < ColorPairs
    BY <1>0, <1>2 DEF PairNumbers
  <2>3. pairs[n] = NoColor
    BY <1>0, <1>2 DEF IInv, PairsAgree
  <2>4. /\ pairs' \in [PairNumbers -> Colors \cup {NoColor}]
        /\ pairs'[n] = c
        /\ \A m \in PairNumbers \ {n} : pairs'[m] = pairs[m]
    BY <1>0, <1>2
  <2>5. KeepsPairs
    BY <2>3, <2>4 DEF KeepsPairs
  <2>6. ASSUME NEW m \in PairNumbers
        PROVE  pairs'[m] = IF m \in DOMAIN registered_colors'
                           THEN registered_colors'[m] ELSE NoColor
    <3>1. CASE m = n
      BY <1>0, <1>2, <2>1, <2>4, <3>1
    <3>2. CASE m # n
      <4>1. m \in DOMAIN registered_colors' <=> m \in DOMAIN registered_colors
        BY <1>0, <1>2, <2>1, <3>2 DEF PairNumbers
      <4>2. pairs[m] = IF m \in DOMAIN registered_colors
                       THEN registered_colors[m] ELSE NoColor
        BY DEF IInv, PairsAgree
      <4> QED
        BY <1>0, <2>1, <2>4, <3>2, <4>1, <4>2
    <3> QED
      BY <3>1, <3>2
  <2>7. ASSUME NEW l \in DOMAIN registered_colors', NEW m \in DOMAIN registered_colors',
               registered_colors'[l] = registered_colors'[m]
        PROVE  l = m
    <3>1. \A k \in 1 .. N : registered_colors'[k] # c
      BY <1>0, <1>2, <2>1 DEF IsRegistered
    <3>2. CASE l \in 1 .. N /\ m \in 1 .. N
      BY <1>0, <2>1, <2>7, <3>2 DEF IInv, PairsAgree
    <3>3. CASE l = N + 1 \/ m = N + 1
      BY <1>0, <2>1, <2>7, <3>1, <3>3
    <3> QED
      BY <1>0, <2>1, <3>2, <3>3
  <2>8. PairsAgree'
    BY <2>6, <2>7 DEF PairsAgree
  <2> QED
    BY <1>0, <1>2, <2>1, <2>2, <2>4, <2>5, <2>8
<1> QED
  BY <1>1, <1>2 DEF ColorToPairNumber

\* What showed a colour goes on showing it when a colour is registered.
LEMMA StillShown ==
  ASSUME IInv, KeepsPairs, NEW a, NEW c, Shows(a, c),
         Len(registered_colors') \in Nat,
         Len(registered_colors) <= Len(registered_colors')
  PROVE  Shows(a, c)'
<1> USE PairsAssumption
<1>1. SUFFICES ASSUME a' = a, c' = c, c # NoColor, Len(registered_colors') < AttrPairs
               PROVE  a \in PairNumbers /\ pairs'[a] = c
  BY DEF Shows
<1>2. Len(registered_colors) \in Nat
  BY DEF IInv, ColorTypeOK
<1>3. a \in PairNumbers /\ pairs[a] = c
  BY <1>1, <1>2 DEF Shows
<1> QED
  BY <1>1, <1>3 DEF KeepsPairs

\* A step of the windows: a new one starts with what another one shows.
LEMMA WindowStep ==
  ASSUME IInv,
         NEW a \in 0 .. AttrPairs - 1, NEW c \in Colors \cup {NoColor}, Shows(a, c),
         NewWindowsHave(a, c)
  PROVE  IInv' /\ KeepsPairs
<1> USE PairsAssumption
<1>1. UNCHANGED <<colors_initialized, registered_colors, pairs>>
  BY DEF NewWindowsHave, tableVars
<1>2. /\ attr' \in [Pointers -> 0 .. AttrPairs - 1]
      /\ chosen' \in [Pointers -> Colors \cup {NoColor}]
  BY DEF NewWindowsHave, IInv, ColorTypeOK
<1>3. ShownByPair'
  BY <1>1, <1>2 DEF NewWindowsHave, IInv, ShownByPair, Shows
<1> QED
  BY <1>1, <1>2, <1>3 DEF IInv, ColorTypeOK, PairsAgree, KeepsPairs

LEMMA Step == IInv /\ [ColorNext]_screenVars => IInv' /\ KeepsPairs
<1> SUFFICES ASSUME IInv, [ColorNext]_screenVars
             PROVE  IInv' /\ KeepsPairs
  OBVIOUS
<1> USE PairsAssumption
<1>0. Shows(0, NoColor) /\ 0 \in 0 .. AttrPairs - 1
  BY DEF Shows
<1>1. ASSUME NEW o \in Objects, NEW c \in Colors, Chgat(o, c)
      PROVE  IInv' /\ KeepsPairs
  <2>1. PICK n \in PairNumbers : ColorToPairNumber(c, n)
    BY <1>1 DEF Chgat
  <2>2. UNCHANGED <<attr, chosen>>
    BY <1>1 DEF Chgat
  <2>3. Len(registered_colors') \in Nat
    BY <2>1, NumberIsOfColor
  <2>4. ShownByPair'
    BY <2>1, <2>2, <2>3, NumberIsOfColor, StillShown DEF IInv, ShownByPair, Shows
  <2>5. ColorTypeOK'
    BY <2>1, <2>2, NumberIsOfColor DEF IInv, ColorTypeOK
  <2> QED
    BY <2>1, <2>4, <2>5, NumberIsOfColor DEF IInv
<1>2. ASSUME NEW o \in Objects, NEW c \in Colors, SetColor(o, c)
      PROVE  IInv' /\ KeepsPairs
  <2> DEFINE h == win[o]
  <2>1. PICK n \in PairNumbers :
              /\ ColorToPairNumber(c, n)
              /\ attr' = [attr EXCEPT ![h] = AttrOf(n)]
    BY <1>2 DEF SetColor
  <2>2. h \in Pointers /\ chosen' = [chosen EXCEPT ![h] = c]
    BY <1>2 DEF SetColor, MayDraw
  <2> HIDE DEF h
  <2>3. AttrOf(n) \in 0 .. AttrPairs - 1
    BY <2>1 DEF AttrOf, PairNumbers
  <2>4. ColorTypeOK'
    <3>1. attr' \in [Pointers -> 0 .. AttrPairs - 1]
      BY <2>1, <2>2, <2>3 DEF IInv, ColorTypeOK
    <3>2. chosen' \in [Pointers -> Colors \cup {NoColor}]
      BY <2>2 DEF IInv, ColorTypeOK
    <3> QED
      BY <2>1, <3>1, <3>2, NumberIsOfColor DEF ColorTypeOK
  <2>5. Len(registered_colors') \in Nat
    BY <2>1, NumberIsOfColor
  <2>6. ASSUME NEW g \in Pointers
        PROVE  Shows(attr[g], chosen[g])'
    <3>1. CASE g = h
      <4>1. attr'[g] = AttrOf(n) /\ chosen'[g] = c
        BY <2>1, <2>2, <3>1 DEF IInv, ColorTypeOK
      <4>2. Len(registered_colors') < AttrPairs => AttrOf(n) = n
        <5>1. n \in Nat /\ n <= Len(registered_colors')
          BY <2>1, NumberIsOfColor DEF PairNumbers
        <5> HIDE DEF PairNumbers
        <5>2. n < AttrPairs => n % AttrPairs = n
          BY <5>1
        <5> QED
          BY <2>5, <5>1, <5>2 DEF AttrOf
      <4>3. pairs'[n] = c
        BY <2>1, NumberIsOfColor
      <4> QED
        BY <4>1, <4>2, <4>3 DEF Shows
    <3>2. CASE g # h
      <4>1. attr'[g] = attr[g] /\ chosen'[g] = chosen[g]
        BY <2>1, <2>2, <3>2 DEF IInv, ColorTypeOK
      <4>2. Shows(attr[g], chosen[g])
        BY DEF IInv, ShownByPair
      <4> QED
        BY <2>1, <2>5, <4>1, <4>2, NumberIsOfColor, StillShown DEF Shows
    <3> QED
      BY <3>1, <3>2
  <2>7. ShownByPair'
    BY <2>6 DEF ShownByPair
  <2> QED
    BY <2>1, <2>4, <2>7, NumberIsOfColor DEF IInv
<1>3. ASSUME NEW c \in Colors, TooMuchColors(c)
      PROVE  IInv' /\ KeepsPairs
  BY <1>3 DEF TooMuchColors, IInv, ColorTypeOK, PairsAgree, ShownByPair, Shows, KeepsPairs
<1>4. ASSUME NEW o \in Objects, ResetColor(o)
      PROVE  IInv' /\ KeepsPairs
  <2>1. /\ attr' = [attr EXCEPT ![win[o]] = 0] /\ win[o] \in Pointers
        /\ chosen' = [chosen EXCEPT ![win[o]] = NoColor]
        /\ UNCHANGED <<colors_initialized, registered_colors, pairs>>
    BY <1>4 DEF ResetColor, MayDraw, tableVars
  <2>2. ColorTypeOK'
    BY <2>1, <1>0 DEF IInv, ColorTypeOK
  <2>3. ShownByPair'
    BY <2>1, <1>0 DEF IInv, ColorTypeOK, ShownByPair, Shows
  <2> QED
    BY <2>1, <2>2, <2>3 DEF IInv, PairsAgree, KeepsPairs
<1>5. ASSUME (\E o \in Objects : ColorGetOutside(o)) \/ UNCHANGED screenVars
      PROVE  IInv' /\ KeepsPairs
  <2>1. UNCHANGED <<colors_initialized, registered_colors, pairs, attr, chosen>>
    BY <1>5 DEF ColorGetOutside, screenVars, colorVars, tableVars
  <2> QED
    BY <2>1 DEF IInv, ColorTypeOK, PairsAgree, ShownByPair, Shows, KeepsPairs
<1>6. CASE WithPlainWindow
  BY <1>0, <1>6, WindowStep DEF WithPlainWindow
<1>7. ASSUME NEW h \in Pointers, NewWindowsHave(attr[h], chosen[h])
      PROVE  IInv' /\ KeepsPairs
  <2>1. /\ attr[h] \in 0 .. AttrPairs - 1 /\ chosen[h] \in Colors \cup {NoColor}
        /\ Shows(attr[h], chosen[h])
    BY DEF IInv, ColorTypeOK, ShownByPair
  <2> QED
    BY <1>7, <2>1, WindowStep
<1>8. CASE \E o, cp \in Wins : WithCopy(o, cp)
  BY <1>0, <1>7, <1>8, WindowStep DEF WithCopy
<1>9. CASE \E o \in Holders : WithSubwindow(o)
  BY <1>0, <1>7, <1>9, WindowStep DEF WithSubwindow
<1> QED
  BY <1>1, <1>2, <1>3, <1>4, <1>5, <1>6, <1>8, <1>9 DEF ColorNext

(***************************************************************************)
(* The vector of registered colours and the pairs of the terminal agree in *)
(* every reachable state: color_to_pair_number never returns the number of *)
(* another colour, and a failing init_pair leaves both as they were.       *)
(***************************************************************************)
THEOREM TablesAgree == ColorSpec => [](ColorTypeOK /\ PairsAgree)
<1>1. IInv => ColorTypeOK /\ PairsAgree
  BY DEF IInv
<1>2. IInv /\ [ColorNext]_screenVars => IInv'
  BY Step
<1> QED
  BY <1>1, <1>2, InitIsGood, PTL DEF ColorSpec

(***************************************************************************)
(* Every window shows the colour it was given, as long as no more colours  *)
(* are registered than the bits of an attribute can number, however        *)
(* windows are copied, moved and destroyed.                                *)
(***************************************************************************)
THEOREM ColorIsShown == ColorSpec => []ShownAsChosen
<1>1. IInv => ShownAsChosen
  BY DEF IInv, ShownByPair, Shows, ShownAsChosen, PairsAgree, ColorGet
<1>2. IInv /\ [ColorNext]_screenVars => IInv'
  BY Step
<1> QED
  BY <1>1, <1>2, InitIsGood, PTL DEF ColorSpec

(***************************************************************************)
(* No step redefines a pair that curses already shows: what is on the      *)
(* screen keeps its colours.                                               *)
(***************************************************************************)
THEOREM PairsAreKept == ColorSpec => PairsKept
<1>1. IInv /\ [ColorNext]_screenVars => IInv' /\ KeepsPairs
  BY Step
<1>2. IInv /\ [ColorNext]_screenVars => [KeepsPairs]_screenVars
  BY <1>1
<1> QED
  BY <1>1, <1>2, InitIsGood, PTL DEF ColorSpec, PairsKept, KeepsPairs
=============================================================================
