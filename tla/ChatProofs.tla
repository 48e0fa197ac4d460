------------------------------- MODULE ChatProofs -------------------------------
(****************************************************************************)
(* The chat for any number of conversations, texts, POSTs and loads: what   *)
(* makes that a message is shown once, said once, not taken for sent when   *)
(* it is not, and not missed. The module that runs the chat beside other    *)
(* components takes these lemmas with the parameters it gives it.           *)
(****************************************************************************)
EXTENDS Chat, FiniteSetTheorems, TLAPS

--------------------------------------------------------------------------------
(* What the parts of the chat know of each other. *)

(* An id that is on its way somewhere is that of a row, and a POST that has  *)
(* inserted its message is about this message.                               *)
Known ==
  /\ \A i \in DOMAIN events : events[i] \in DOMAIN message
  /\ \A l \in Loads : load[l] # NoLoad => load[l].ids \subseteq DOMAIN message
  /\ \A i \in DOMAIN shown : shown[i].id # 0 => shown[i].id \in DOMAIN message
  /\ \A p \in Posts : post[p] # Idle =>
       IF post[p].is \in {"asked", "refused"} THEN post[p].id = 0
       ELSE /\ post[p].id \in DOMAIN message
            /\ message[post[p].id] = Row(post[p].conversation, post[p].text)
  /\ \A p \in Posts : post[p] # Idle /\ post[p].is \in {"answered", "refused"} => post[p].heard

(* A text of which every answer has come has one POST, and no row before the *)
(* server has received it.                                                   *)
Heard ==
  \A t \in Texts \ unheard :
    /\ \A i \in DOMAIN shown : shown[i] # Temp(t, "failed")
    /\ \A p \in Posts : post[p] # Idle /\ post[p].text = t => post[p].heard
    /\ \A p, q \in Posts :
         post[p] # Idle /\ post[q] # Idle /\ post[p].text = t /\ post[q].text = t => p = q
    /\ \A p \in Posts, id \in DOMAIN message :
         post[p] # Idle /\ post[p].text = t /\ post[p].is = "asked" => message[id].text # t

(* What the person has not typed is nowhere.                                 *)
Unsaid ==
  \A t \in Texts : typed[t] = None =>
    /\ \A p \in Posts : post[p] # Idle => post[p].text # t
    /\ \A id \in DOMAIN message : message[id].text # t
    /\ \A i \in DOMAIN shown : ~IsTemp(shown[i], t)

ChatInv ==
  Parameters /\ TypeOK /\ Known /\ Heard /\ Unsaid
    /\ ShownOnce /\ SendingIsSent /\ SaidOnce /\ NothingMissed

--------------------------------------------------------------------------------
(* Lists. InOrder counts a finite set of numbers through: the elements before *)
(* one are fewer than those before a later one, and fewer than all.           *)
LEMMA InOrderCounts ==
  ASSUME NEW S \in SUBSET Nat, IsFiniteSet(S)
  PROVE  /\ Cardinality(S) \in Nat
         /\ InOrder(S) \in [1..Cardinality(S) -> S]
         /\ \A i \in S : \E k \in 1..Cardinality(S) : InOrder(S)[k] = i
         /\ \A k, m \in 1..Cardinality(S) : InOrder(S)[k] = InOrder(S)[m] => k = m
<1> DEFINE Before(i) == {j \in S : j < i}
<1>1. Cardinality(S) \in Nat
  BY FS_CardinalityType
<1>2. \A i \in S : /\ Before(i) \in SUBSET S /\ Before(i) # S
                   /\ IsFiniteSet(Before(i)) /\ Cardinality(Before(i)) \in Nat
                   /\ Cardinality(Before(i)) < Cardinality(S)
  <2> TAKE i \in S
  <2>1. Before(i) \in SUBSET S /\ i \notin Before(i)
    <3>1. i \in Nat
      OBVIOUS
    <3>2. ~(i < i)
      BY <3>1
    <3> QED BY <3>2
  <2> HIDE DEF Before
  <2>2. IsFiniteSet(Before(i)) /\ Cardinality(Before(i)) <= Cardinality(S)
        /\ (Cardinality(S) = Cardinality(Before(i)) => S = Before(i))
    BY <2>1, FS_Subset
  <2>3. Cardinality(Before(i)) \in Nat
    BY <2>2, FS_CardinalityType
  <2> QED BY <1>1, <2>1, <2>2, <2>3
<1>3. \A i, j \in S : i < j => Cardinality(Before(i)) < Cardinality(Before(j))
  <2> SUFFICES ASSUME NEW i \in S, NEW j \in S, i < j
               PROVE  Cardinality(Before(i)) < Cardinality(Before(j))
    OBVIOUS
  <2>1. Before(i) \in SUBSET Before(j) /\ i \in Before(j) /\ i \notin Before(i)
    <3>1. i \in Nat /\ j \in Nat
      OBVIOUS
    <3>2. ~(i < i) /\ \A o \in S : o < i => o < j
      BY <3>1
    <3> QED BY <3>2
  <2> HIDE DEF Before
  <2>2. Cardinality(Before(i)) <= Cardinality(Before(j))
        /\ (Cardinality(Before(j)) = Cardinality(Before(i)) => Before(j) = Before(i))
    BY <1>2, <2>1, FS_Subset
  <2> QED BY <1>2, <2>1, <2>2
<1>4. \A k \in 1..Cardinality(S) : \E i \in S : Cardinality(Before(i)) = k - 1
  <2> DEFINE n == Cardinality(S)
             f == [i \in S |-> Cardinality(Before(i)) + 1]
  <2> HIDE DEF Before
  <2>1. f \in Injection(S, 1..n)
    <3>1. f \in [S -> 1..n]
      BY <1>1, <1>2
    <3>2. \A i, j \in S : f[i] = f[j] => i = j
      BY <1>2, <1>3
    <3> QED BY <3>1, <3>2 DEF Injection, IsInjective
  <2>2. IsFiniteSet(1..n) /\ Cardinality(1..n) = n
    <3>1. 1 \in Int /\ n \in Int
      BY <1>1
    <3>2. IsFiniteSet(1..n) /\ Cardinality(1..n) = IF 1 > n THEN 0 ELSE n - 1 + 1
      BY <3>1, FS_Interval
    <3> QED BY <1>1, <3>2
  <2>3. f \in Surjection(S, 1..n)
    <3> HIDE DEF f
    <3> QED BY <2>1, <2>2, FS_Injection
  <2>4. \A k \in 1..n : \E i \in S : f[i] = k
    <3> HIDE DEF f
    <3> QED BY <2>3 DEF Surjection
  <2> QED BY <1>1, <1>2, <2>4
<1>5. \A k \in 1..Cardinality(S) :
        InOrder(S)[k] \in S /\ Cardinality(Before(InOrder(S)[k])) = k - 1
  <2> TAKE k \in 1..Cardinality(S)
  <2>1. InOrder(S)[k] = CHOOSE i \in S : Cardinality(Before(i)) = k - 1
    BY DEF InOrder
  <2> HIDE DEF Before
  <2> QED BY <1>4, <2>1
<1>6. InOrder(S) \in [1..Cardinality(S) -> S]
  BY <1>5 DEF InOrder
<1>7. \A i \in S : \E k \in 1..Cardinality(S) : InOrder(S)[k] = i
  <2> TAKE i \in S
  <2> HIDE DEF Before
  <2>1. PICK k : k = Cardinality(Before(i)) + 1
    OBVIOUS
  <2>2. k \in 1..Cardinality(S) /\ Cardinality(Before(i)) = k - 1
    BY <1>1, <1>2, <2>1
  <2>3. InOrder(S)[k] \in S /\ Cardinality(Before(InOrder(S)[k])) = Cardinality(Before(i))
    BY <1>5, <2>2
  <2>4. InOrder(S)[k] = i
    <3>1. PICK j \in S : j = InOrder(S)[k]
      BY <2>3
    <3>2. j < i \/ i < j \/ j = i
      OBVIOUS
    <3> QED BY <1>2, <1>3, <2>3, <3>1, <3>2
  <2> QED BY <2>2, <2>4
<1>8. \A k, m \in 1..Cardinality(S) : InOrder(S)[k] = InOrder(S)[m] => k = m
  <2> HIDE DEF Before
  <2> QED BY <1>1, <1>5
<1> QED BY <1>1, <1>6, <1>7, <1>8

(* A message once in a list, a pending entry once in a list. *)
Once(list, id) ==
  \A i, j \in DOMAIN list : list[i].id = id /\ list[j].id = id => i = j

OneTemp(list, t) ==
  \A i, j \in DOMAIN list : IsTemp(list[i], t) /\ IsTemp(list[j], t) => i = j

Holds(list, entry) == \E i \in DOMAIN list : list[i] = entry

LEMMA EntryIs ==
  ASSUME NEW entry \in Entries
  PROVE  /\ entry.id \in Nat /\ entry.id \in Ids \cup {0}
         /\ \A t : IsTemp(entry, t) <=> entry = Temp(t, "sending") \/ entry = Temp(t, "failed")
         /\ \A t : IsTemp(entry, t) => t \in Texts
<1>1. \/ entry \in [id : Ids, text : Said, is : {"here"}]
      \/ entry \in [id : {0}, text : Texts, is : {"sending", "failed"}]
  BY DEF Entries
<1>2. CASE entry \in [id : Ids, text : Said, is : {"here"}]
  <2>1. entry.id \in Ids /\ entry.id # 0
    BY <1>2 DEF Ids
  <2> QED BY <2>1 DEF IsTemp, Temp, Ids
<1>3. CASE entry \in [id : {0}, text : Texts, is : {"sending", "failed"}]
  BY <1>3 DEF IsTemp, Temp
<1> QED BY <1>1, <1>2, <1>3

LEMMA TempIs ==
  ASSUME NEW t \in Texts, NEW is \in {"sending", "failed"}
  PROVE  /\ Temp(t, is) \in Entries /\ IsTemp(Temp(t, is), t) /\ Temp(t, is).id = 0
         /\ \A o : IsTemp(Temp(t, is), o) => o = t
         /\ \A o, as : Temp(t, is) = Temp(o, as) => o = t /\ as = is
BY DEF Temp, IsTemp, Entries

(* What is left of a list that lets its first entry go. *)
LEMMA Sliced ==
  ASSUME NEW list \in Seq(Entries), NEW entry \in Entries, ListMax \in Nat \ {0},
         NEW new, new = slice(Append(list, entry))
  PROVE  /\ new \in Seq(Entries) /\ Holds(new, entry)
         /\ \A i \in DOMAIN new : new[i] = entry \/ Holds(list, new[i])
         /\ \A j \in DOMAIN list : (j = 1 /\ Len(list) >= ListMax) \/ Holds(new, list[j])
         /\ \A id : Once(list, id) /\ ~(entry.id = id /\ Shows(list, id)) => Once(new, id)
         /\ \A t : OneTemp(list, t) /\ ~(IsTemp(entry, t) /\ \E i \in DOMAIN list : IsTemp(list[i], t))
                     => OneTemp(new, t)
<1> DEFINE all == Append(list, entry)
<1>1. /\ all \in Seq(Entries) /\ Len(all) = Len(list) + 1 /\ Len(list) \in Nat
      /\ DOMAIN list = 1..Len(list) /\ DOMAIN all = 1..(Len(list) + 1)
      /\ \A i \in DOMAIN list : all[i] = list[i]
      /\ all[Len(list) + 1] = entry
  OBVIOUS
<1> HIDE DEF all
<1>2. \A i, j \in DOMAIN all : i # j => i \in DOMAIN list \/ j \in DOMAIN list
  BY <1>1
<1>3. \A i \in DOMAIN all : i \in DOMAIN list \/ i = Len(list) + 1
  BY <1>1
<1>4. \A id : Once(list, id) /\ ~(entry.id = id /\ Shows(list, id)) => Once(all, id)
  BY <1>1, <1>3 DEF Once, Shows
<1>5. \A t : OneTemp(list, t) /\ ~(IsTemp(entry, t) /\ \E i \in DOMAIN list : IsTemp(list[i], t))
               => OneTemp(all, t)
  BY <1>1, <1>3 DEF OneTemp
<1>6. CASE new = all
  <2>1. \A j \in DOMAIN list : Holds(new, list[j])
    BY <1>1, <1>6 DEF Holds
  <2>2. Holds(new, entry)
    BY <1>1, <1>6 DEF Holds
  <2>3. \A i \in DOMAIN new : new[i] = entry \/ Holds(list, new[i])
    BY <1>1, <1>3, <1>6 DEF Holds
  <2> QED BY <1>1, <1>4, <1>5, <1>6, <2>1, <2>2, <2>3
<1>7. CASE new = Tail(all) /\ Len(list) + 1 > ListMax
  <2>1. /\ new \in Seq(Entries) /\ DOMAIN new = 1..Len(list)
        /\ \A i \in DOMAIN new : new[i] = all[i + 1]
    BY <1>1, <1>7
  <2>2. Len(list) >= ListMax /\ Len(list) >= 1
    BY <1>1, <1>7
  <2>3. Holds(new, entry)
    <3>1. Len(list) \in DOMAIN new /\ new[Len(list)] = entry
      BY <1>1, <2>1, <2>2
    <3> QED BY <3>1 DEF Holds
  <2>4. \A j \in DOMAIN list : j = 1 \/ Holds(new, list[j])
    <3> SUFFICES ASSUME NEW j \in DOMAIN list, j # 1 PROVE Holds(new, list[j])
      OBVIOUS
    <3>1. j - 1 \in DOMAIN new /\ (j - 1) + 1 = j
      BY <1>1, <2>1
    <3>2. new[j - 1] = list[j]
      BY <1>1, <2>1, <3>1
    <3> QED BY <3>1, <3>2 DEF Holds
  <2>5. \A i \in DOMAIN new : i + 1 \in DOMAIN all
    BY <1>1, <2>1
  <2>6. \A i \in DOMAIN new : new[i] = entry \/ Holds(list, new[i])
    BY <1>1, <1>3, <2>1, <2>5 DEF Holds
  <2>7. \A i, j \in DOMAIN new : i + 1 = j + 1 => i = j
    BY <1>1, <2>1
  <2>8. \A id : Once(all, id) => Once(new, id)
    BY <2>1, <2>5, <2>7 DEF Once
  <2>9. \A t : OneTemp(all, t) => OneTemp(new, t)
    BY <2>1, <2>5, <2>7 DEF OneTemp
  <2> QED BY <1>4, <1>5, <2>1, <2>2, <2>3, <2>4, <2>6, <2>8, <2>9
<1> QED BY <1>1, <1>6, <1>7 DEF slice, all

(* addChatMessage: another message, or one that is there already. *)
LEMMA MessageAdded ==
  ASSUME NEW list \in Seq(Entries), NEW entry \in Entries, entry.id # 0, ListMax \in Nat \ {0},
         NEW new, new = addChatMessage(list, entry)
  PROVE  /\ new \in Seq(Entries) /\ Shows(new, entry.id)
         /\ \A i \in DOMAIN new : new[i] = entry \/ Holds(list, new[i])
         /\ \A id \in Ids : Shows(list, id) => Shows(new, id) \/ id \in PushedOut(list, entry)
         /\ \A id : Once(list, id) => Once(new, id)
         /\ \A t : OneTemp(list, t) => OneTemp(new, t)
<1>1. CASE Shows(list, entry.id)
  <2>1. new = list
    BY <1>1 DEF addChatMessage
  <2> QED BY <1>1, <2>1 DEF Holds
<1>2. CASE ~Shows(list, entry.id)
  <2>1. new = slice(Append(list, entry))
    BY <1>2 DEF addChatMessage
  <2>2. /\ new \in Seq(Entries) /\ Holds(new, entry)
        /\ \A i \in DOMAIN new : new[i] = entry \/ Holds(list, new[i])
        /\ \A j \in DOMAIN list : (j = 1 /\ Len(list) >= ListMax) \/ Holds(new, list[j])
    BY <2>1, Sliced
  <2>3. \A id : Once(list, id) => Once(new, id)
    BY <1>2, <2>1, Sliced
  <2>4. \A t : OneTemp(list, t) => OneTemp(new, t)
    <3>1. \A t : ~IsTemp(entry, t)
      BY DEF IsTemp
    <3> QED BY <2>1, <3>1, Sliced
  <2>5. Shows(new, entry.id)
    BY <2>2 DEF Holds, Shows
  <2>6. new # list
    BY <1>2, <2>5
  <2>7. ASSUME NEW id \in Ids, Shows(list, id)
        PROVE  Shows(new, id) \/ id \in PushedOut(list, entry)
    <3>1. PICK j \in DOMAIN list : list[j].id = id
      BY <2>7 DEF Shows
    <3>2. CASE Holds(new, list[j])
      BY <3>1, <3>2 DEF Holds, Shows
    <3>3. CASE j = 1 /\ Len(list) >= ListMax
      <4>1. id # 0
        BY DEF Ids
      <4> QED BY <2>1, <2>6, <3>1, <3>3, <4>1 DEF PushedOut
    <3> QED BY <2>2, <3>2, <3>3
  <2> QED BY <2>2, <2>3, <2>4, <2>5, <2>7
<1> QED BY <1>1, <1>2

(* addChatMessage: what the person has typed. *)
LEMMA TempAdded ==
  ASSUME NEW list \in Seq(Entries), NEW t \in Texts, ListMax \in Nat \ {0},
         \A i \in DOMAIN list : ~IsTemp(list[i], t),
         NEW new, new = addChatMessage(list, Temp(t, "sending"))
  PROVE  /\ new \in Seq(Entries)
         /\ \A i \in DOMAIN new : new[i] = Temp(t, "sending") \/ Holds(list, new[i])
         /\ \A id \in Ids : Shows(list, id) => Shows(new, id) \/ id \in PushedOut(list, Temp(t, "sending"))
         /\ \A id \in Ids : Once(list, id) => Once(new, id)
         /\ \A o : OneTemp(list, o) => OneTemp(new, o)
<1> DEFINE entry == Temp(t, "sending")
<1>1. /\ entry \in Entries /\ entry.id = 0
      /\ IsTemp(entry, t) /\ \A o : IsTemp(entry, o) => o = t
  BY TempIs
<1> HIDE DEF entry
<1>2. new = slice(Append(list, entry))
  BY <1>1 DEF addChatMessage, entry
<1>3. /\ new \in Seq(Entries) /\ Holds(new, entry)
      /\ \A i \in DOMAIN new : new[i] = entry \/ Holds(list, new[i])
      /\ \A j \in DOMAIN list : (j = 1 /\ Len(list) >= ListMax) \/ Holds(new, list[j])
  BY <1>1, <1>2, Sliced
<1>4. \A id \in Ids : 0 # id
  BY DEF Ids
<1>5. \A id \in Ids : Once(list, id) => Once(new, id)
  BY <1>1, <1>2, <1>4, Sliced
<1>6. \A o : OneTemp(list, o) => OneTemp(new, o)
  BY <1>1, <1>2, Sliced
<1>7. new # list
  BY <1>1, <1>3 DEF Holds
<1>8. ASSUME NEW id \in Ids, Shows(list, id)
      PROVE  Shows(new, id) \/ id \in PushedOut(list, entry)
  <2>1. PICK j \in DOMAIN list : list[j].id = id
    BY <1>8 DEF Shows
  <2>2. CASE Holds(new, list[j])
    BY <2>1, <2>2 DEF Holds, Shows
  <2>3. CASE j = 1 /\ Len(list) >= ListMax
    <3>1. new = addChatMessage(list, entry)
      BY DEF entry
    <3> QED BY <1>4, <1>7, <2>1, <2>3, <3>1 DEF PushedOut
  <2> QED BY <1>3, <2>2, <2>3
<1> QED BY <1>3, <1>5, <1>6, <1>8 DEF entry

(* removePendingMessage: nothing but the pending entry goes. *)
LEMMA Removed ==
  ASSUME shown \in Seq(Entries), NEW t, NEW new, new = removePendingMessage(t)
  PROVE  /\ new \in Seq(Entries)
         /\ \A i \in DOMAIN new : Holds(shown, new[i]) /\ ~IsTemp(new[i], t)
         /\ \A id \in Ids : Shows(shown, id) => Shows(new, id)
         /\ \A id : Once(shown, id) => Once(new, id)
         /\ \A o : OneTemp(shown, o) => OneTemp(new, o)
<1> DEFINE S == {i \in DOMAIN shown : ~IsTemp(shown[i], t)}
           kept == InOrder(S)
<1>1. S \in SUBSET Nat /\ IsFiniteSet(S)
  <2>1. DOMAIN shown = 1..Len(shown) /\ Len(shown) \in Nat
    OBVIOUS
  <2>2. 1 \in Int /\ Len(shown) \in Int
    BY <2>1
  <2>3. IsFiniteSet(1..Len(shown))
    BY <2>2, FS_Interval
  <2>4. S \in SUBSET (1..Len(shown))
    BY <2>1
  <2>5. IsFiniteSet(S)
    BY <2>3, <2>4, FS_Subset
  <2> QED BY <2>1, <2>4, <2>5
<1>2. new = [k \in DOMAIN kept |-> shown[kept[k]]]
  BY DEF removePendingMessage
<1> HIDE DEF S
<1>3. /\ Cardinality(S) \in Nat
      /\ kept \in [1..Cardinality(S) -> S]
      /\ \A i \in S : \E k \in 1..Cardinality(S) : kept[k] = i
      /\ \A k, m \in 1..Cardinality(S) : kept[k] = kept[m] => k = m
  BY <1>1, InOrderCounts
<1> HIDE DEF kept
<1>4. DOMAIN new = 1..Cardinality(S) /\ \A k \in DOMAIN new : new[k] = shown[kept[k]]
  BY <1>2, <1>3
<1>5. \A k \in DOMAIN new : kept[k] \in DOMAIN shown /\ ~IsTemp(shown[kept[k]], t)
  BY <1>3, <1>4 DEF S
<1>6. new \in Seq(Entries)
  <2>1. \A k \in DOMAIN new : new[k] \in Entries
    BY <1>4, <1>5
  <2>2. new \in [1..Cardinality(S) -> Entries]
    BY <1>2, <1>3, <1>4, <2>1
  <2> QED BY <1>3, <2>2
<1>7. \A i \in DOMAIN new : Holds(shown, new[i]) /\ ~IsTemp(new[i], t)
  BY <1>4, <1>5 DEF Holds
<1>8. ASSUME NEW id \in Ids, Shows(shown, id) PROVE Shows(new, id)
  <2>1. PICK i \in DOMAIN shown : shown[i].id = id
    BY <1>8 DEF Shows
  <2>2. id # 0
    BY DEF Ids
  <2>3. i \in S
    BY <2>1, <2>2 DEF S, IsTemp
  <2>4. PICK k \in DOMAIN new : kept[k] = i
    BY <1>3, <1>4, <2>3
  <2> QED BY <1>4, <2>1, <2>4 DEF Shows
<1>9. \A id : Once(shown, id) => Once(new, id)
  BY <1>3, <1>4, <1>5 DEF Once
<1>10. \A o : OneTemp(shown, o) => OneTemp(new, o)
  BY <1>3, <1>4, <1>5 DEF OneTemp
<1> QED BY <1>6, <1>7, <1>8, <1>9, <1>10

(* replacePendingMessage: the other entries stay where they are. *)
LEMMA ReplacedEntries ==
  ASSUME shown \in Seq(Entries), NEW t, NEW entry \in Entries,
         NEW new, new = replacePendingMessage(t, entry)
  PROVE  /\ new \in Seq(Entries) /\ DOMAIN new = DOMAIN shown
         /\ \A i \in DOMAIN shown : new[i] = IF IsTemp(shown[i], t) THEN entry ELSE shown[i]
         /\ \A i \in DOMAIN new : new[i] = entry \/ Holds(shown, new[i])
         /\ \A id \in Ids : Shows(shown, id) => Shows(new, id)
<1>1. DOMAIN shown = 1..Len(shown) /\ Len(shown) \in Nat
  OBVIOUS
<1>2. /\ DOMAIN new = DOMAIN shown
      /\ \A i \in DOMAIN shown : new[i] = IF IsTemp(shown[i], t) THEN entry ELSE shown[i]
  BY DEF replacePendingMessage
<1>3. new \in [1..Len(shown) -> Entries]
  BY <1>1 DEF replacePendingMessage
<1>4. new \in Seq(Entries)
  BY <1>1, <1>3
<1>5. \A i \in DOMAIN new : new[i] = entry \/ Holds(shown, new[i])
  BY <1>2 DEF Holds
<1>6. ASSUME NEW id \in Ids, Shows(shown, id) PROVE Shows(new, id)
  <2>1. PICK i \in DOMAIN shown : shown[i].id = id
    BY <1>6 DEF Shows
  <2>2. id # 0
    BY DEF Ids
  <2>3. new[i] = shown[i]
    BY <1>2, <2>1, <2>2 DEF IsTemp
  <2> QED BY <1>2, <2>1, <2>3 DEF Shows
<1> QED BY <1>2, <1>4, <1>5, <1>6

(* updatePendingMessage: one entry stays one. *)
LEMMA UpdatedEntries ==
  ASSUME shown \in Seq(Entries), NEW t \in Texts, NEW is \in {"sending", "failed"},
         NEW new, new = updatePendingMessage(t, is)
  PROVE  /\ new \in Seq(Entries) /\ DOMAIN new = DOMAIN shown
         /\ \A i \in DOMAIN new : (new[i] = Temp(t, is) /\ IsTemp(shown[i], t)) \/ new[i] = shown[i]
         /\ \A i \in DOMAIN new : IsTemp(new[i], t) => new[i] = Temp(t, is)
         /\ \A id \in Ids : Shows(shown, id) => Shows(new, id)
         /\ \A id \in Ids : Once(shown, id) => Once(new, id)
         /\ \A o : OneTemp(shown, o) => OneTemp(new, o)
<1> DEFINE entry == Temp(t, is)
<1>1. entry \in Entries /\ entry.id = 0 /\ \A o : IsTemp(entry, o) <=> o = t
  BY TempIs
<1>2. new = replacePendingMessage(t, entry)
  BY DEF updatePendingMessage
<1> HIDE DEF entry
<1>3. /\ new \in Seq(Entries) /\ DOMAIN new = DOMAIN shown
      /\ \A i \in DOMAIN shown : new[i] = IF IsTemp(shown[i], t) THEN entry ELSE shown[i]
      /\ \A id \in Ids : Shows(shown, id) => Shows(new, id)
  BY <1>1, <1>2, ReplacedEntries
<1>4. \A i \in DOMAIN new : (new[i] = entry /\ IsTemp(shown[i], t)) \/ new[i] = shown[i]
  BY <1>3
<1>5. \A i \in DOMAIN new : IsTemp(new[i], t) => new[i] = entry
  BY <1>3
<1>6. \A id \in Ids : Once(shown, id) => Once(new, id)
  <2>1. \A id \in Ids : id # 0
    BY DEF Ids
  <2> QED BY <1>1, <1>3, <2>1 DEF Once, IsTemp
<1>7. \A o : \A i \in DOMAIN new : IsTemp(new[i], o) => IsTemp(shown[i], o)
  BY <1>1, <1>4
<1>8. \A o : OneTemp(shown, o) => OneTemp(new, o)
  BY <1>3, <1>7 DEF OneTemp
<1> QED BY <1>3, <1>4, <1>5, <1>6, <1>8 DEF entry

LEMMA InSequence ==
  ASSUME NEW Kind, NEW sequence \in Seq(Kind), NEW i \in DOMAIN sequence
  PROVE  sequence[i] \in Kind /\ i \in 1..Len(sequence) /\ Len(sequence) \in Nat
OBVIOUS

LEMMA HereIs ==
  ASSUME TypeOK, MaxMessages \in Nat, NEW id \in DOMAIN message
  PROVE  /\ id \in Ids /\ id # 0 /\ Here(id) \in Entries /\ Here(id).id = id
         /\ message[id] \in [conversation : Conversations, text : Said]
         /\ \A t : ~IsTemp(Here(id), t)
<1>1. /\ message \in Seq([conversation : Conversations, text : Said])
      /\ Len(message) <= MaxMessages
  BY DEF TypeOK
<1>2. id \in 1..Len(message) /\ Len(message) \in Nat
  BY <1>1, InSequence
<1>3. message[id] \in [conversation : Conversations, text : Said]
  BY <1>1, InSequence
<1>4. id \in Ids /\ id # 0
  BY <1>1, <1>2 DEF Ids
<1>5. message[id].text \in Said
  BY <1>3
<1> QED BY <1>3, <1>4, <1>5 DEF Here, Entries, IsTemp

(* setChatMessages: the messages of a load, each once, and nothing else. *)
LEMMA ListLoaded ==
  ASSUME TypeOK, MaxMessages \in Nat, NEW ids \in SUBSET Ids, ids \subseteq DOMAIN message,
         NEW new, new = [i \in DOMAIN InOrder(ids) |-> Here(InOrder(ids)[i])]
  PROVE  /\ new \in Seq(Entries)
         /\ \A i \in DOMAIN new : new[i].id \in ids /\ \A t : ~IsTemp(new[i], t)
         /\ \A id : Once(new, id)
<1>1. ids \in SUBSET Nat /\ IsFiniteSet(ids)
  <2>1. 1 \in Int /\ MaxMessages \in Int
    OBVIOUS
  <2>2. IsFiniteSet(Ids)
    BY <2>1, FS_Interval DEF Ids
  <2>3. ids \in SUBSET Nat
    BY DEF Ids
  <2> QED BY <2>2, <2>3, FS_Subset
<1>2. /\ Cardinality(ids) \in Nat
      /\ InOrder(ids) \in [1..Cardinality(ids) -> ids]
      /\ \A k, m \in 1..Cardinality(ids) : InOrder(ids)[k] = InOrder(ids)[m] => k = m
  BY <1>1, InOrderCounts
<1>3. /\ new \in [1..Cardinality(ids) -> Entries]
      /\ \A k \in 1..Cardinality(ids) : new[k].id = InOrder(ids)[k] /\ new[k].id \in ids
  <2>1. \A id \in ids : Here(id) \in Entries /\ Here(id).id = id
    BY HereIs
  <2> QED BY <1>2, <2>1
<1>4. new \in Seq(Entries) /\ DOMAIN new = 1..Cardinality(ids)
  BY <1>2, <1>3
<1>5. \A t : \A i \in DOMAIN new : ~IsTemp(new[i], t)
  BY <1>3, <1>4 DEF IsTemp, Ids
<1>6. \A id : Once(new, id)
  BY <1>2, <1>3, <1>4 DEF Once
<1> QED BY <1>3, <1>4, <1>5, <1>6

--------------------------------------------------------------------------------
(* POSTs, rows and events *)
Underway ==
  [is : {"asked", "forwards", "waits", "answered", "refused"}, text : Texts,
   conversation : Conversations, id : Ids \cup {0}, heard : BOOLEAN, retry : BOOLEAN]

Rows == [conversation : Conversations, text : Said]

LEMMA PostIs ==
  ASSUME TypeOK, NEW p \in Posts, post[p] # Idle
  PROVE  post[p] \in Underway
BY DEF TypeOK, Underway

LEMMA IdleIs ==
  /\ Idle \notin Underway
  /\ \A p : post[p].is # None => post[p] # Idle
BY DEF Idle, Underway, None

LEMMA PostTypes ==
  ASSUME TypeOK, NEW p \in Posts, NEW one \in Underway \cup {Idle},
         post' = [post EXCEPT ![p] = one]
  PROVE  /\ post' \in [Posts -> {Idle} \cup Underway]
         /\ post'[p] = one /\ \A q \in Posts \ {p} : post'[q] = post[q]
BY DEF TypeOK, Underway

(* Where a POST goes. *)
LEMMA GoesOn ==
  ASSUME TypeOK, NEW p \in Posts, post[p] # Idle, NEW id \in Ids,
         NEW is \in {"forwards", "waits", "answered"}, Goes(p, id, is)
  PROVE  /\ post' \in [Posts -> {Idle} \cup Underway]
         /\ \A q \in Posts \ {p} : post'[q] = post[q]
         /\ post[p].heard => post'[p] # Idle
         /\ is # "answered" => post'[p] # Idle
         /\ post'[p] # Idle =>
              /\ post'[p].id = id /\ post'[p].is = is /\ post'[p].text = post[p].text
              /\ post'[p].conversation = post[p].conversation
              /\ post'[p].heard = post[p].heard
              /\ is = "answered" => post[p].heard
<1> DEFINE going == [post[p] EXCEPT !.id = id, !.is = is]
<1>1. post[p] \in Underway
  BY PostIs
<1>2. /\ going \in Underway
      /\ going.id = id /\ going.is = is /\ going.text = post[p].text
      /\ going.conversation = post[p].conversation
      /\ going.heard = post[p].heard
  BY <1>1 DEF Underway
<1>3. going # Idle
  BY <1>2, IdleIs
<1> HIDE DEF going
<1>4. CASE is = "answered" /\ ~post[p].heard
  <2>1. post' = [post EXCEPT ![p] = Idle]
    BY <1>4 DEF Goes
  <2> QED BY <1>4, <2>1, PostTypes
<1>5. CASE ~(is = "answered" /\ ~post[p].heard)
  <2>1. post' = [post EXCEPT ![p] = going]
    BY <1>5 DEF Goes, going
  <2>2. /\ post' \in [Posts -> {Idle} \cup Underway]
        /\ post'[p] = going /\ \A q \in Posts \ {p} : post'[q] = post[q]
    BY <1>2, <2>1, PostTypes
  <2> QED BY <1>2, <1>3, <1>5, <2>2
<1> QED BY <1>4, <1>5

LEMMA Concatenated ==
  ASSUME NEW Kind, NEW s \in Seq(Kind), NEW r \in Seq(Kind)
  PROVE  /\ s \o r \in Seq(Kind) /\ Len(s \o r) = Len(s) + Len(r)
         /\ DOMAIN s \subseteq DOMAIN (s \o r)
         /\ \A i \in DOMAIN s : (s \o r)[i] = s[i]
         /\ \A k \in DOMAIN r : Len(s) + k \in DOMAIN (s \o r) /\ (s \o r)[Len(s) + k] = r[k]
         /\ \A i \in DOMAIN (s \o r) \ DOMAIN s : \E k \in DOMAIN r : i = Len(s) + k
<1>1. /\ s \o r \in Seq(Kind) /\ Len(s \o r) = Len(s) + Len(r)
      /\ DOMAIN s = 1..Len(s) /\ DOMAIN r = 1..Len(r) /\ Len(s) \in Nat /\ Len(r) \in Nat
      /\ DOMAIN (s \o r) = 1..(Len(s) + Len(r))
      /\ \A i \in DOMAIN s : (s \o r)[i] = s[i]
      /\ \A k \in DOMAIN r : (s \o r)[Len(s) + k] = r[k]
  OBVIOUS
<1>2. DOMAIN s \subseteq DOMAIN (s \o r)
  BY <1>1
<1>3. \A k \in DOMAIN r : Len(s) + k \in DOMAIN (s \o r)
  BY <1>1
<1>4. ASSUME NEW i \in DOMAIN (s \o r), i \notin DOMAIN s
      PROVE  \E k \in DOMAIN r : i = Len(s) + k
  <2>1. i - Len(s) \in DOMAIN r /\ i = Len(s) + (i - Len(s))
    BY <1>1, <1>4
  <2> QED BY <2>1
<1> QED BY <1>1, <1>2, <1>3, <1>4

(* What is inserted comes after what was there. *)
LEMMA Inserted ==
  ASSUME TypeOK, NEW rows \in Seq(Rows), Insert(rows)
  PROVE  /\ message' \in Seq(Rows) /\ Len(message') <= MaxMessages
         /\ Len(message') = Len(message) + Len(rows)
         /\ DOMAIN message \subseteq DOMAIN message'
         /\ \A id \in DOMAIN message : message'[id] = message[id]
         /\ \A k \in DOMAIN rows : Len(message) + k \in DOMAIN message' /\ message'[Len(message) + k] = rows[k]
         /\ \A id \in DOMAIN message' \ DOMAIN message : \E k \in DOMAIN rows : id = Len(message) + k
<1>1. message \in Seq(Rows)
  BY DEF TypeOK, Rows
<1>2. message' = message \o rows /\ Len(message) + Len(rows) <= MaxMessages
  BY DEF Insert
<1> QED BY <1>1, <1>2, Concatenated

(* Who is told: a stream that is open, and otherwise the browser is unsure of *)
(* the messages of its conversation.                                          *)
LEMMA Told ==
  ASSUME TypeOK, NEW c, NEW ids \in Seq(Ids), Broadcast(c, ids)
  PROVE  /\ events' \in Seq(Ids)
         /\ Elements(events') \subseteq Elements(events) \cup Elements(ids)
         /\ Elements(events) \subseteq Elements(events')
         /\ unsure \subseteq unsure' /\ unsure' \subseteq unsure \cup Elements(ids)
         /\ \A id \in Elements(ids) : id \in Elements(events') \/ id \in unsure' \/ c # active
         /\ Elements(ids) \subseteq Ids
<1>1. Elements(ids) \subseteq Ids
  BY InSequence DEF Elements
<1>2. events \in Seq(Ids)
  BY DEF TypeOK
<1>3. Elements(events \o ids) = Elements(events) \cup Elements(ids)
  <2>1. ASSUME NEW id \in Elements(events \o ids) PROVE id \in Elements(events) \cup Elements(ids)
    <3>1. PICK i \in DOMAIN (events \o ids) : (events \o ids)[i] = id
      BY DEF Elements
    <3>2. CASE i \in DOMAIN events
      BY <1>2, <3>1, <3>2, Concatenated DEF Elements
    <3>3. CASE i \notin DOMAIN events
      <4>1. PICK k \in DOMAIN ids : i = Len(events) + k
        BY <1>2, <3>1, <3>3, Concatenated
      <4> QED BY <1>2, <3>1, <4>1, Concatenated DEF Elements
    <3> QED BY <3>2, <3>3
  <2>2. ASSUME NEW id \in Elements(events) \cup Elements(ids) PROVE id \in Elements(events \o ids)
    <3>1. CASE id \in Elements(events)
      BY <1>2, <3>1, Concatenated DEF Elements
    <3>2. CASE id \in Elements(ids)
      <4>1. PICK k \in DOMAIN ids : ids[k] = id
        BY <3>2 DEF Elements
      <4>2. Len(events) + k \in DOMAIN (events \o ids) /\ (events \o ids)[Len(events) + k] = id
        BY <1>2, <4>1, Concatenated
      <4> QED BY <4>2 DEF Elements
    <3> QED BY <2>2, <3>1, <3>2
  <2> QED BY <2>1, <2>2
<1>4. CASE streaming
  <2>1. events' = events \o ids /\ unsure' = unsure
    BY <1>4 DEF Broadcast
  <2>2. events \o ids \in Seq(Ids)
    BY <1>2, Concatenated
  <2> QED BY <1>1, <1>3, <2>1, <2>2
<1>5. CASE ~streaming
  <2>1. events' = events /\ unsure' = IF c # active THEN unsure ELSE unsure \cup Elements(ids)
    BY <1>5 DEF Broadcast
  <2> QED BY <1>1, <1>2, <2>1
<1> QED BY <1>4, <1>5

--------------------------------------------------------------------------------
(* The server. A step of a POST inserts its message, once, and replies; what  *)
(* it inserts it tells, or is about to tell.                                  *)
Works(p, rows, ids, id, is) ==
  /\ post[p] # Idle
  /\ Insert(rows) /\ Goes(p, id, is) /\ Broadcast(post[p].conversation, ids)
  /\ \A k \in DOMAIN rows :
       \/ rows[k] = Reply(post[p].conversation)
       \/ /\ rows[k] = Row(post[p].conversation, post[p].text)
          /\ k = 1 /\ post[p].is = "asked"
  /\ IF post[p].is = "asked"
     THEN id = Len(message) + 1 /\ rows # <<>> /\ rows[1] = Row(post[p].conversation, post[p].text)
     ELSE id = post[p].id /\ post[p].is \in {"forwards", "waits"}
  /\ \A o \in Elements(ids) : o = id \/ \E k \in DOMAIN rows : o = Len(message) + k
  /\ \A k \in DOMAIN rows :
       \/ Len(message) + k \in Elements(ids)
       \/ Len(message) + k = id /\ is # "answered"
  /\ is = "answered" => id \in Elements(ids)

LEMMA WorksParts ==
  ASSUME ChatInv, NEW p \in Posts, NEW rows \in Seq(Rows), NEW ids \in Seq(Ids), NEW id \in Ids,
         NEW is \in {"forwards", "waits", "answered"}, Works(p, rows, ids, id, is)
  PROVE  /\ id \in DOMAIN message' /\ message'[id] = Row(post[p].conversation, post[p].text)
         /\ Elements(ids) \subseteq DOMAIN message'
         /\ \A o \in Elements(ids) : message'[o].conversation = post[p].conversation
         /\ \A o \in DOMAIN message' \ DOMAIN message :
              /\ o \in Elements(ids) \/ (o = id /\ is # "answered")
              /\ message'[o].conversation = post[p].conversation
              /\ \/ message'[o].text = Answer
                 \/ message'[o].text = post[p].text /\ post[p].is = "asked" /\ o = Len(message) + 1
         /\ \A o \in DOMAIN message : message'[o] = message[o] /\ o \in DOMAIN message'
         /\ UNCHANGED <<streaming, active, typed, shown, load, overtook, unheard, refused>>
<1>1. TypeOK /\ post[p] # Idle /\ Insert(rows) /\ Broadcast(post[p].conversation, ids)
  BY DEF ChatInv, Works
<1>2. /\ DOMAIN message \subseteq DOMAIN message'
      /\ \A o \in DOMAIN message : message'[o] = message[o]
      /\ \A k \in DOMAIN rows : Len(message) + k \in DOMAIN message' /\ message'[Len(message) + k] = rows[k]
      /\ \A o \in DOMAIN message' \ DOMAIN message : \E k \in DOMAIN rows : o = Len(message) + k
  BY <1>1, Inserted
<1>3. id \in DOMAIN message' /\ message'[id] = Row(post[p].conversation, post[p].text)
  <2>1. CASE post[p].is = "asked"
    <3>1. id = Len(message) + 1 /\ rows # <<>> /\ rows[1] = Row(post[p].conversation, post[p].text)
      BY <2>1 DEF Works
    <3>2. 1 \in DOMAIN rows
      BY <3>1
    <3> QED BY <1>2, <3>1, <3>2
  <2>2. CASE post[p].is # "asked"
    <3>1. id = post[p].id /\ post[p].is \in {"forwards", "waits"}
      BY <2>2 DEF Works
    <3>2. id \in DOMAIN message /\ message[id] = Row(post[p].conversation, post[p].text)
      BY <1>1, <2>2, <3>1 DEF ChatInv, Known
    <3> QED BY <1>2, <3>2
  <2> QED BY <2>1, <2>2
<1>4. \A k \in DOMAIN rows : /\ rows[k].conversation = post[p].conversation
                             /\ \/ rows[k].text = Answer
                                \/ rows[k].text = post[p].text /\ post[p].is = "asked" /\ k = 1
  BY DEF Works, Reply, Row
<1>5. \A o \in Elements(ids) : o = id \/ \E k \in DOMAIN rows : o = Len(message) + k
  BY DEF Works
<1>6. \A o \in Elements(ids) : o \in DOMAIN message' /\ message'[o].conversation = post[p].conversation
  <2> TAKE o \in Elements(ids)
  <2>1. CASE o = id
    BY <1>3, <2>1 DEF Row
  <2>2. CASE \E k \in DOMAIN rows : o = Len(message) + k
    BY <1>2, <1>4, <2>2
  <2> QED BY <1>5, <2>1, <2>2
<1>7. ASSUME NEW o \in DOMAIN message' \ DOMAIN message
      PROVE  /\ o \in Elements(ids) \/ (o = id /\ is # "answered")
             /\ message'[o].conversation = post[p].conversation
             /\ \/ message'[o].text = Answer
                \/ message'[o].text = post[p].text /\ post[p].is = "asked" /\ o = Len(message) + 1
  <2>1. PICK k \in DOMAIN rows : o = Len(message) + k
    BY <1>2
  <2>2. message'[o] = rows[k]
    BY <1>2, <2>1
  <2>3. o \in Elements(ids) \/ (o = id /\ is # "answered")
    BY <2>1 DEF Works
  <2> QED BY <1>4, <2>1, <2>2, <2>3
<1>8. UNCHANGED <<streaming, active, typed, shown, load, overtook, unheard, refused>>
  BY <1>1 DEF Broadcast, person
<1> QED BY <1>2, <1>3, <1>6, <1>7, <1>8

LEMMA ServerStep ==
  ASSUME ChatInv, NEW p \in Posts, NEW rows \in Seq(Rows), NEW ids \in Seq(Ids), NEW id \in Ids,
         NEW is \in {"forwards", "waits", "answered"}, Works(p, rows, ids, id, is)
  PROVE  ChatInv'
<1>1. /\ TypeOK /\ Parameters /\ post[p] # Idle /\ Insert(rows) /\ Goes(p, id, is)
      /\ Broadcast(post[p].conversation, ids)
  BY DEF ChatInv, Works
<1>2. post[p] \in Underway /\ post[p].text \in Texts
  BY <1>1, PostIs DEF Underway
<1>3. UNCHANGED <<streaming, active, typed, shown, load, overtook, unheard, refused>>
  BY WorksParts
<1>4. /\ post' \in [Posts -> {Idle} \cup Underway]
      /\ \A q \in Posts \ {p} : post'[q] = post[q]
      /\ post[p].heard => post'[p] # Idle
      /\ is # "answered" => post'[p] # Idle
      /\ post'[p] # Idle =>
           /\ post'[p].id = id /\ post'[p].is = is /\ post'[p].text = post[p].text
           /\ post'[p].conversation = post[p].conversation
           /\ post'[p].heard = post[p].heard
           /\ is = "answered" => post[p].heard
  BY <1>1, GoesOn
<1>5. /\ events' \in Seq(Ids)
      /\ Elements(events') \subseteq Elements(events) \cup Elements(ids)
      /\ Elements(events) \subseteq Elements(events')
      /\ unsure \subseteq unsure' /\ unsure' \subseteq unsure \cup Elements(ids)
      /\ \A o \in Elements(ids) : o \in Elements(events') \/ o \in unsure' \/ post[p].conversation # active
      /\ Elements(ids) \subseteq Ids
  BY <1>1, Told
<1>6. /\ id \in DOMAIN message' /\ message'[id] = Row(post[p].conversation, post[p].text)
      /\ Elements(ids) \subseteq DOMAIN message'
      /\ \A o \in Elements(ids) : message'[o].conversation = post[p].conversation
      /\ \A o \in DOMAIN message' \ DOMAIN message :
           /\ o \in Elements(ids) \/ (o = id /\ is # "answered")
           /\ message'[o].conversation = post[p].conversation
      /\ \A o \in DOMAIN message : message'[o] = message[o] /\ o \in DOMAIN message'
  BY WorksParts
<1>7. \A o \in DOMAIN message' \ DOMAIN message, t \in Texts :
        message'[o].text = t => t = post[p].text /\ post[p].is = "asked" /\ o = Len(message) + 1
  BY <1>1, WorksParts DEF Parameters
<1>8. TypeOK'
  <2>1. message' \in Seq(Rows) /\ Len(message') <= MaxMessages
    BY <1>1, Inserted
  <2>2. unsure' \subseteq Ids
    BY <1>1, <1>5 DEF TypeOK
  <2> QED BY <1>1, <1>3, <1>4, <1>5, <2>1, <2>2 DEF TypeOK, Rows, Underway
<1>9. Known'
  <2>1. \A i \in DOMAIN events' : events'[i] \in DOMAIN message'
    BY <1>5, <1>6, SMTT(30) DEF Elements, ChatInv, Known
  <2>2. \A l \in Loads : load[l] # NoLoad => load[l].ids \subseteq DOMAIN message'
    BY <1>6 DEF ChatInv, Known
  <2>3. \A i \in DOMAIN shown : shown[i].id # 0 => shown[i].id \in DOMAIN message'
    BY <1>6 DEF ChatInv, Known
  <2>4. ASSUME NEW q \in Posts, post'[q] # Idle
        PROVE  IF post'[q].is \in {"asked", "refused"} THEN post'[q].id = 0
               ELSE /\ post'[q].id \in DOMAIN message'
                    /\ message'[post'[q].id] = Row(post'[q].conversation, post'[q].text)
    <3>1. CASE q = p
      BY <1>4, <1>6, <2>4, <3>1
    <3>2. CASE q # p
      BY <1>4, <1>6, <2>4, <3>2 DEF ChatInv, Known
    <3> QED BY <3>1, <3>2
  <2>5. ASSUME NEW q \in Posts, post'[q] # Idle, post'[q].is \in {"answered", "refused"}
        PROVE  post'[q].heard
    <3>1. CASE q = p
      BY <1>4, <2>5, <3>1
    <3>2. CASE q # p
      BY <1>4, <2>5, <3>2 DEF ChatInv, Known
    <3> QED BY <3>1, <3>2
  <2> QED BY <1>3, <2>1, <2>2, <2>3, <2>4, <2>5 DEF Known
<1>10. \A q \in Posts : post'[q] # Idle =>
         /\ post[q] # Idle /\ post'[q].text = post[q].text /\ post'[q].heard = post[q].heard
         /\ post'[q].is = "asked" => post[q].is = "asked" /\ q # p
  BY <1>1, <1>4
<1>11. Heard'
  <2> SUFFICES ASSUME NEW t \in Texts \ unheard
               PROVE  /\ \A i \in DOMAIN shown : shown[i] # Temp(t, "failed")
                      /\ \A q \in Posts : post'[q] # Idle /\ post'[q].text = t => post'[q].heard
                      /\ \A q, r \in Posts :
                           post'[q] # Idle /\ post'[r] # Idle /\ post'[q].text = t /\ post'[r].text = t => q = r
                      /\ \A q \in Posts, o \in DOMAIN message' :
                           post'[q] # Idle /\ post'[q].text = t /\ post'[q].is = "asked" => message'[o].text # t
    BY <1>3 DEF Heard
  <2>1. /\ \A i \in DOMAIN shown : shown[i] # Temp(t, "failed")
        /\ \A q \in Posts : post[q] # Idle /\ post[q].text = t => post[q].heard
        /\ \A q, r \in Posts :
             post[q] # Idle /\ post[r] # Idle /\ post[q].text = t /\ post[r].text = t => q = r
        /\ \A q \in Posts, o \in DOMAIN message :
             post[q] # Idle /\ post[q].text = t /\ post[q].is = "asked" => message[o].text # t
    BY DEF ChatInv, Heard
  <2>2. \A q, r \in Posts :
          post'[q] # Idle /\ post'[r] # Idle /\ post'[q].text = t /\ post'[r].text = t => q = r
    BY <1>10, <2>1
  <2>3. ASSUME NEW q \in Posts, NEW o \in DOMAIN message',
               post'[q] # Idle, post'[q].text = t, post'[q].is = "asked", message'[o].text = t
        PROVE  FALSE
    <3>1. post[q] # Idle /\ post[q].text = t /\ post[q].is = "asked" /\ q # p
      BY <1>10, <2>3
    <3>2. CASE o \in DOMAIN message
      BY <1>6, <2>1, <2>3, <3>1, <3>2
    <3>3. CASE o \notin DOMAIN message
      <4>1. t = post[p].text
        BY <1>7, <2>3, <3>3
      <4> QED BY <1>1, <2>1, <3>1, <4>1
    <3> QED BY <3>2, <3>3
  <2>4. \A q \in Posts : post'[q] # Idle /\ post'[q].text = t => post'[q].heard
    BY <1>10, <2>1
  <2> QED BY <2>1, <2>2, <2>3, <2>4
<1>12. Unsaid'
  <2> SUFFICES ASSUME NEW t \in Texts, typed[t] = None
               PROVE  /\ \A q \in Posts : post'[q] # Idle => post'[q].text # t
                      /\ \A o \in DOMAIN message' : message'[o].text # t
                      /\ \A i \in DOMAIN shown : ~IsTemp(shown[i], t)
    BY <1>3 DEF Unsaid
  <2>1. /\ \A q \in Posts : post[q] # Idle => post[q].text # t
        /\ \A o \in DOMAIN message : message[o].text # t
        /\ \A i \in DOMAIN shown : ~IsTemp(shown[i], t)
    BY DEF ChatInv, Unsaid
  <2>2. \A o \in DOMAIN message' : message'[o].text # t
    BY <1>1, <1>6, <1>7, <2>1
  <2> QED BY <1>10, <2>1, <2>2
<1>13. ShownOnce'
  <2> SUFFICES ASSUME NEW o \in DOMAIN message' \ overtook, NEW i \in DOMAIN shown,
                      NEW j \in DOMAIN shown, shown[i].id = o, shown[j].id = o
               PROVE  i = j
    BY <1>3 DEF ShownOnce, ChatInv
  <2>1. 0 \notin DOMAIN message'
    BY <1>1, Inserted, InSequence
  <2>2. o \in DOMAIN message
    BY <2>1 DEF ChatInv, Known
  <2> QED BY <2>2 DEF ChatInv, ShownOnce
<1>14. SendingIsSent'
  <2>1. \A q \in Posts : post[q] # Idle /\ post[q].heard =>
          post'[q] # Idle /\ post'[q].heard /\ post'[q].text = post[q].text
    BY <1>1, <1>4
  <2> QED BY <1>3, <2>1 DEF ChatInv, SendingIsSent
<1>15. SaidOnce'
  <2> SUFFICES ASSUME NEW t \in Texts \ unheard, NEW o \in DOMAIN message', NEW k \in DOMAIN message',
                      message'[o].text = t, message'[k].text = t
               PROVE  o = k
    BY <1>3 DEF SaidOnce
  <2>1. CASE o \in DOMAIN message /\ k \in DOMAIN message
    BY <1>6, <2>1 DEF ChatInv, SaidOnce
  <2>2. CASE o \notin DOMAIN message /\ k \notin DOMAIN message
    BY <1>7, <2>2
  <2>3. ASSUME NEW a \in DOMAIN message' \ DOMAIN message, NEW b \in DOMAIN message,
               message'[a].text = t, message'[b].text = t
        PROVE  FALSE
    <3>1. t = post[p].text /\ post[p].is = "asked"
      BY <1>7, <2>3
    <3> QED BY <1>1, <1>6, <2>3, <3>1 DEF ChatInv, Heard
  <2> QED BY <2>1, <2>2, <2>3
<1>16. NothingMissed'
  <2> SUFFICES ASSUME NEW o \in DOMAIN message' \ unsure', message'[o].conversation = active
               PROVE  Shows(shown, o) \/ o \in Elements(events') \/ Untold(o)'
    BY <1>3 DEF NothingMissed, Coming, Elements
  <2>1. CASE o \in Elements(ids)
    BY <1>5, <1>6, <2>1
  <2>2. CASE o = id /\ is # "answered"
    <3>1. post'[p] # Idle /\ post'[p].id = o /\ post'[p].is \in {"forwards", "waits"}
      BY <1>4, <2>2
    <3> QED BY <3>1 DEF Untold
  <2>3. CASE o \in DOMAIN message /\ o # id
    <3>1. Shows(shown, o) \/ o \in Elements(events) \/ Untold(o)
      BY <1>5, <1>6, <2>3 DEF ChatInv, NothingMissed, Coming
    <3>2. CASE Untold(o)
      <4>1. PICK q \in Posts : post[q] # Idle /\ post[q].id = o /\ post[q].is \in {"forwards", "waits"}
        BY <3>2 DEF Untold
      <4>2. q # p
        <5>1. post[p].is = "asked" \/ id = post[p].id
          BY DEF Works
        <5> QED BY <2>3, <4>1, <5>1
      <4> QED BY <1>4, <4>1, <4>2 DEF Untold
    <3> QED BY <1>5, <3>1, <3>2
  <2>4. o = id => o \in Elements(ids) \/ is # "answered"
    BY DEF Works
  <2> QED BY <1>6, <2>1, <2>2, <2>3, <2>4
<1> QED
  BY <1>1, <1>8, <1>9, <1>11, <1>12, <1>13, <1>14, <1>15, <1>16 DEF ChatInv, Parameters

LEMMA ReceivedStep ==
  ASSUME ChatInv, NEW p \in Posts, Received(p)
  PROVE  ChatInv'
<1> DEFINE c == post[p].conversation
           id == Len(message) + 1
           row == Row(c, post[p].text)
<1>1. /\ TypeOK /\ Parameters /\ post[p].is = "asked" /\ post[p] # Idle
  BY IdleIs DEF ChatInv, Received, None
<1>2. row \in Rows /\ Reply(c) \in Rows /\ Len(message) \in Nat /\ c \in Conversations
  <2>1. post[p] \in Underway
    BY <1>1, PostIs
  <2>2. message \in Seq(Rows)
    BY <1>1 DEF TypeOK, Rows
  <2> QED BY <2>1, <2>2 DEF Underway, Rows, Row, Reply, Said
<1> HIDE DEF row
<1>3. ASSUME NEW rows \in Seq(Rows), Insert(rows), rows # <<>> PROVE id \in Ids
  <2>1. Len(rows) \in Nat /\ Len(rows) >= 1 /\ Len(message) + Len(rows) <= MaxMessages
    BY <1>3 DEF Insert
  <2> QED BY <1>1, <1>2, <2>1 DEF Ids, Parameters
<1>4. CASE Insert(<<row>>) /\ Goes(p, id, "forwards") /\ Broadcast(c, <<>>)
  <2>1. <<row>> \in Seq(Rows) /\ <<>> \in Seq(Ids) /\ <<row>> # <<>>
        /\ DOMAIN <<row>> = {1} /\ <<row>>[1] = row
    BY <1>2
  <2>2. id \in Ids
    BY <1>3, <1>4, <2>1
  <2>3. Elements(<<>>) = {}
    BY DEF Elements
  <2>4. Works(p, <<row>>, <<>>, id, "forwards")
    BY <1>1, <1>4, <2>1, <2>3 DEF Works, row
  <2> QED BY <2>1, <2>2, <2>4, ServerStep
<1>5. CASE Insert(<<row, Reply(c)>>) /\ Goes(p, id, "answered") /\ Broadcast(c, <<id + 1, id>>)
  <2>1. <<row, Reply(c)>> \in Seq(Rows) /\ <<row, Reply(c)>> # <<>>
        /\ DOMAIN <<row, Reply(c)>> = {1, 2} /\ <<row, Reply(c)>>[1] = row
        /\ <<row, Reply(c)>>[2] = Reply(c) /\ Len(<<row, Reply(c)>>) = 2
    BY <1>2
  <2>2. id \in Ids /\ id + 1 \in Ids
    BY <1>1, <1>2, <1>5, <2>1 DEF Insert, Ids, Parameters
  <2>3. <<id + 1, id>> \in Seq(Ids)
    BY <2>2
  <2>4. Elements(<<id + 1, id>>) = {id, id + 1}
    BY DEF Elements
  <2>5. Works(p, <<row, Reply(c)>>, <<id + 1, id>>, id, "answered")
    <3>1. \A k \in DOMAIN <<row, Reply(c)>> : Len(message) + k \in {id, id + 1}
      BY <1>2, <2>1
    <3>2. id + 1 = Len(message) + 2
      BY <1>2
    <3>3. \A k \in DOMAIN <<row, Reply(c)>> :
            \/ <<row, Reply(c)>>[k] = Reply(c)
            \/ <<row, Reply(c)>>[k] = row /\ k = 1
      BY <2>1
    <3> QED BY <1>1, <1>5, <2>1, <2>4, <3>1, <3>2, <3>3 DEF Works, row
  <2> QED BY <2>1, <2>2, <2>3, <2>5, ServerStep
<1>6. CASE Insert(<<row>>) /\ Goes(p, id, "answered") /\ Broadcast(c, <<id>>)
  <2>1. <<row>> \in Seq(Rows) /\ <<row>> # <<>> /\ DOMAIN <<row>> = {1} /\ <<row>>[1] = row
    BY <1>2
  <2>2. id \in Ids
    BY <1>3, <1>6, <2>1
  <2>3. Elements(<<id>>) = {id} /\ <<id>> \in Seq(Ids)
    BY <2>2 DEF Elements
  <2>4. Works(p, <<row>>, <<id>>, id, "answered")
    BY <1>1, <1>6, <2>1, <2>3 DEF Works, row
  <2> QED BY <2>1, <2>2, <2>3, <2>4, ServerStep
<1> QED BY <1>4, <1>5, <1>6 DEF Received, row

(* A POST that goes on: of a row it has inserted. *)
LEMMA GoingOn ==
  ASSUME ChatInv, NEW p \in Posts, post[p].is \in {"forwards", "waits"}
  PROVE  /\ TypeOK /\ Parameters /\ post[p] # Idle /\ post[p].is # "asked"
         /\ post[p].id \in Ids /\ Len(message) \in Nat
         /\ post[p].conversation \in Conversations /\ Reply(post[p].conversation) \in Rows
<1>1. TypeOK /\ Parameters /\ post[p] # Idle /\ post[p].is # "asked"
  BY IdleIs DEF ChatInv, None
<1>2. post[p] \in Underway
  BY <1>1, PostIs
<1>3. post[p].id \in DOMAIN message
  BY <1>1 DEF ChatInv, Known
<1>4. post[p].id \in Ids
  BY <1>1, <1>3, HereIs DEF Parameters
<1>5. message \in Seq(Rows)
  BY <1>1 DEF TypeOK, Rows
<1> QED BY <1>1, <1>2, <1>4, <1>5 DEF Underway, Rows, Row, Reply, Said

LEMMA RepliedStep ==
  ASSUME ChatInv, NEW p \in Posts, post[p].is \in {"forwards", "waits"},
         Insert(<<Reply(post[p].conversation)>>),
         \/ /\ Goes(p, post[p].id, "answered")
            /\ Broadcast(post[p].conversation, <<Len(message) + 1, post[p].id>>)
         \/ /\ Goes(p, post[p].id, "waits")
            /\ Broadcast(post[p].conversation, <<Len(message) + 1>>)
  PROVE  ChatInv'
<1> DEFINE c == post[p].conversation
           id == post[p].id
           next == Len(message) + 1
<1>1. /\ TypeOK /\ Parameters /\ post[p] # Idle /\ post[p].is # "asked"
      /\ id \in Ids /\ Len(message) \in Nat /\ Reply(c) \in Rows
  BY GoingOn
<1>2. <<Reply(c)>> \in Seq(Rows) /\ DOMAIN <<Reply(c)>> = {1} /\ <<Reply(c)>>[1] = Reply(c)
      /\ Len(<<Reply(c)>>) = 1
  BY <1>1
<1>3. next \in Ids
  BY <1>1, <1>2 DEF Insert, Ids, Parameters
<1>4. CASE Goes(p, id, "answered") /\ Broadcast(c, <<next, id>>)
  <2>1. Elements(<<next, id>>) = {next, id}
    BY DEF Elements
  <2>2. Works(p, <<Reply(c)>>, <<next, id>>, id, "answered")
    BY <1>1, <1>2, <1>4, <2>1 DEF Works
  <2>3. <<next, id>> \in Seq(Ids)
    BY <1>1, <1>3
  <2> QED BY <1>1, <1>2, <2>2, <2>3, ServerStep
<1>5. CASE Goes(p, id, "waits") /\ Broadcast(c, <<next>>)
  <2>1. Elements(<<next>>) = {next}
    BY DEF Elements
  <2>2. Works(p, <<Reply(c)>>, <<next>>, id, "waits")
    BY <1>1, <1>2, <1>5, <2>1 DEF Works
  <2>3. <<next>> \in Seq(Ids)
    BY <1>3
  <2> QED BY <1>1, <1>2, <2>2, <2>3, ServerStep
<1> QED BY <1>4, <1>5

LEMMA ForwardedStep ==
  ASSUME ChatInv, NEW p \in Posts, Forwarded(p)
  PROVE  ChatInv'
<1> DEFINE c == post[p].conversation
           id == post[p].id
<1>1. post[p].is = "forwards"
  BY DEF Forwarded
<1>2. CASE Insert(<<>>) /\ Goes(p, id, "answered") /\ Broadcast(c, <<id>>)
  <2>1. post[p] # Idle /\ post[p].is # "asked" /\ id \in Ids
    BY <1>1, GoingOn
  <2>2. Elements(<<id>>) = {id} /\ <<id>> \in Seq(Ids)
    BY <2>1 DEF Elements
  <2>3. <<>> \in Seq(Rows) /\ DOMAIN <<>> = {}
    OBVIOUS
  <2>4. Works(p, <<>>, <<id>>, id, "answered")
    BY <1>1, <1>2, <2>1, <2>2, <2>3 DEF Works
  <2> QED BY <2>1, <2>2, <2>3, <2>4, ServerStep
<1>3. CASE /\ Insert(<<Reply(c)>>)
           /\ \/ Goes(p, id, "answered") /\ Broadcast(c, <<Len(message) + 1, id>>)
              \/ Goes(p, id, "waits") /\ Broadcast(c, <<Len(message) + 1>>)
  BY <1>1, <1>3, RepliedStep
<1> QED BY <1>2, <1>3 DEF Forwarded

LEMMA RunReportedStep ==
  ASSUME ChatInv, NEW p \in Posts, RunReported(p)
  PROVE  ChatInv'
BY RepliedStep DEF RunReported

(* What others say is of none of our POSTs. *)
LEMMA OthersSendStep ==
  ASSUME ChatInv, NEW t \in OtherTexts, NEW c \in Conversations, OthersSend(t, c)
  PROVE  ChatInv'
<1> DEFINE new == Len(message) + 1
           row == Row(c, t)
<1>1. /\ TypeOK /\ Parameters /\ Insert(<<row>>) /\ Broadcast(c, <<new>>) /\ UNCHANGED post
  BY DEF ChatInv, OthersSend
<1>2. row \in Rows /\ row.conversation = c /\ row.text = t /\ t \notin Texts
  BY <1>1 DEF Row, Rows, Said, Parameters
<1> HIDE DEF row
<1>3. <<row>> \in Seq(Rows) /\ DOMAIN <<row>> = {1} /\ <<row>>[1] = row /\ Len(<<row>>) = 1
  BY <1>2
<1>4. /\ message' \in Seq(Rows) /\ Len(message') <= MaxMessages
      /\ Len(message) \in Nat /\ new \in DOMAIN message' /\ message'[new] = row
      /\ \A o \in DOMAIN message : message'[o] = message[o] /\ o \in DOMAIN message'
      /\ \A o \in DOMAIN message' : o \in DOMAIN message \/ o = new
  <2>1. Len(message) \in Nat
    BY <1>1 DEF TypeOK
  <2>2. /\ message' \in Seq(Rows) /\ Len(message') <= MaxMessages
        /\ DOMAIN message \subseteq DOMAIN message'
        /\ \A id \in DOMAIN message : message'[id] = message[id]
        /\ \A k \in DOMAIN <<row>> : Len(message) + k \in DOMAIN message' /\ message'[Len(message) + k] = <<row>>[k]
        /\ \A id \in DOMAIN message' \ DOMAIN message : \E k \in DOMAIN <<row>> : id = Len(message) + k
    BY <1>1, <1>3, Inserted
  <2>3. new \in DOMAIN message' /\ message'[new] = row
    BY <1>3, <2>2
  <2>4. \A o \in DOMAIN message' : o \in DOMAIN message \/ o = new
    BY <1>3, <2>2
  <2> QED BY <2>1, <2>2, <2>3, <2>4
<1>5. new \in Ids
  BY <1>1, <1>3, <1>4 DEF Insert, Ids, Parameters
<1>6. <<new>> \in Seq(Ids) /\ Elements(<<new>>) = {new}
  BY <1>5 DEF Elements
<1>7. /\ events' \in Seq(Ids) /\ Elements(events') \subseteq Elements(events) \cup {new}
      /\ Elements(events) \subseteq Elements(events')
      /\ unsure \subseteq unsure' /\ unsure' \subseteq unsure \cup {new}
      /\ new \in Elements(events') \/ new \in unsure' \/ c # active
  BY <1>1, <1>6, Told
<1>8. UNCHANGED <<post, streaming, active, typed, shown, load, overtook, unheard, refused>>
  BY <1>1 DEF Broadcast, person
<1>9. TypeOK'
  <2>1. unsure' \subseteq Ids
    BY <1>1, <1>5, <1>7 DEF TypeOK
  <2> QED BY <1>1, <1>4, <1>7, <1>8, <2>1 DEF TypeOK, Rows
<1>10. Known'
  <2>1. \A i \in DOMAIN events' : events'[i] \in DOMAIN message'
    BY <1>4, <1>7 DEF Elements, ChatInv, Known
  <2> QED BY <1>4, <1>8, <2>1 DEF ChatInv, Known
<1>11. \A o \in DOMAIN message', u \in Texts : message'[o].text = u => o \in DOMAIN message /\ message[o].text = u
  BY <1>2, <1>4
<1>12. Heard' /\ Unsaid' /\ SaidOnce' /\ SendingIsSent'
  <2>1. Heard'
    BY <1>8, <1>11 DEF ChatInv, Heard
  <2>2. Unsaid'
    BY <1>8, <1>11 DEF ChatInv, Unsaid
  <2>3. SaidOnce'
    BY <1>8, <1>11 DEF ChatInv, SaidOnce
  <2>4. SendingIsSent'
    BY <1>8 DEF ChatInv, SendingIsSent
  <2> QED BY <2>1, <2>2, <2>3, <2>4
<1>13. ShownOnce'
  <2>1. \A i \in DOMAIN shown : shown[i].id # new
    <3>1. new # 0 /\ new \notin DOMAIN message
      BY <1>1, <1>4 DEF TypeOK
    <3> QED BY <3>1 DEF ChatInv, Known
  <2> QED BY <1>4, <1>8, <2>1 DEF ChatInv, ShownOnce
<1>14. NothingMissed'
  <2> SUFFICES ASSUME NEW o \in DOMAIN message' \ unsure', message'[o].conversation = active
               PROVE  Shows(shown, o) \/ o \in Elements(events') \/ Untold(o)
    BY <1>8 DEF NothingMissed, Coming, Elements, Untold
  <2>1. CASE o = new
    BY <1>2, <1>4, <1>7, <2>1
  <2>2. CASE o \in DOMAIN message
    BY <1>4, <1>7, <2>2 DEF ChatInv, NothingMissed, Coming
  <2> QED BY <1>4, <2>1, <2>2
<1> QED BY <1>1, <1>9, <1>10, <1>12, <1>13, <1>14 DEF ChatInv, Parameters

--------------------------------------------------------------------------------
(* The browser. Steps that leave the table and what is typed as they are, and *)
(* start no POST: those under way end, or are no longer listened to.          *)
PostsGo ==
  /\ post' \in [Posts -> {Idle} \cup Underway]
  /\ \A q \in Posts : post'[q] # Idle =>
       /\ post[q] # Idle /\ post'[q].text = post[q].text
       /\ post'[q].conversation = post[q].conversation /\ post'[q].id = post[q].id
       /\ \/ post'[q].is = post[q].is
          \/ post[q].is = "asked" /\ post'[q].is = "refused" /\ post'[q].heard
       /\ \/ post'[q].heard = post[q].heard
          \/ post[q].text \in unheard' /\ post'[q].is \notin {"answered", "refused"}

(* Its list changes, but nothing pending comes. *)
ListGoes ==
  /\ shown' \in Seq(Entries)
  /\ \A i \in DOMAIN shown' : shown'[i].id # 0 => shown'[i].id \in DOMAIN message
  /\ \A t : \A i \in DOMAIN shown' : IsTemp(shown'[i], t) => \E j \in DOMAIN shown : IsTemp(shown[j], t)
  /\ \A i \in DOMAIN shown', t \in Texts \ unheard' : shown'[i] # Temp(t, "failed")
  /\ \A t \in Texts \ refused' :
       (\E i \in DOMAIN shown' : shown'[i] = Temp(t, "sending")) =>
         /\ t \notin refused /\ \E j \in DOMAIN shown : shown[j] = Temp(t, "sending")
         /\ \A q \in Posts : post[q] # Idle /\ post[q].heard /\ post[q].text = t =>
              post'[q] # Idle /\ post'[q].heard
  /\ \A id \in DOMAIN message \ overtook' : Once(shown', id)
  /\ \A t \in Texts : OneTemp(shown', t)

LoadsGo ==
  /\ load' \in [Loads -> {NoLoad} \cup [is : {"asked", "answered"}, of : Conversations, ids : SUBSET Ids]]
  /\ \A l \in Loads : load'[l] # NoLoad => load'[l].ids \subseteq DOMAIN message

HistoryGoes ==
  /\ unheard \subseteq unheard' /\ unheard' \subseteq Texts /\ refused' \subseteq Texts
  /\ overtook' \subseteq Ids /\ unsure' \subseteq Ids

LEMMA QuietStep ==
  ASSUME ChatInv, UNCHANGED <<message, typed>>,
         PostsGo, ListGoes, LoadsGo, HistoryGoes,
         streaming' \in BOOLEAN, active' \in Conversations \cup {None},
         events' \in Seq(Ids), Elements(events') \subseteq Elements(events),
         NothingMissed'
  PROVE  ChatInv'
<1>1. TypeOK'
  BY DEF ChatInv, TypeOK, PostsGo, ListGoes, LoadsGo, HistoryGoes, Underway
<1>2. Known'
  <2>1. \A i \in DOMAIN events' : events'[i] \in DOMAIN message
    BY DEF Elements, ChatInv, Known
  <2>2. \A l \in Loads : load'[l] # NoLoad => load'[l].ids \subseteq DOMAIN message
    BY DEF LoadsGo
  <2>3. \A i \in DOMAIN shown' : shown'[i].id # 0 => shown'[i].id \in DOMAIN message
    BY DEF ListGoes
  <2>4. ASSUME NEW q \in Posts, post'[q] # Idle
        PROVE  /\ IF post'[q].is \in {"asked", "refused"} THEN post'[q].id = 0
                  ELSE /\ post'[q].id \in DOMAIN message
                       /\ message[post'[q].id] = Row(post'[q].conversation, post'[q].text)
               /\ post'[q].is \in {"answered", "refused"} => post'[q].heard
    <3>1. /\ post[q] # Idle /\ post'[q].text = post[q].text
          /\ post'[q].conversation = post[q].conversation /\ post'[q].id = post[q].id
          /\ \/ post'[q].is = post[q].is
             \/ post[q].is = "asked" /\ post'[q].is = "refused" /\ post'[q].heard
          /\ post'[q].is \in {"answered", "refused"} => post'[q].heard = post[q].heard
      BY <2>4 DEF PostsGo
    <3>2. /\ IF post[q].is \in {"asked", "refused"} THEN post[q].id = 0
             ELSE /\ post[q].id \in DOMAIN message
                  /\ message[post[q].id] = Row(post[q].conversation, post[q].text)
          /\ post[q].is \in {"answered", "refused"} => post[q].heard
      BY <3>1 DEF ChatInv, Known
    <3> QED BY <3>1, <3>2
  <2> QED BY <2>1, <2>2, <2>3, <2>4 DEF Known
<1>3. Heard'
  <2> SUFFICES ASSUME NEW t \in Texts \ unheard'
               PROVE  /\ \A i \in DOMAIN shown' : shown'[i] # Temp(t, "failed")
                      /\ \A q \in Posts : post'[q] # Idle /\ post'[q].text = t => post'[q].heard
                      /\ \A q, r \in Posts :
                           post'[q] # Idle /\ post'[r] # Idle /\ post'[q].text = t /\ post'[r].text = t => q = r
                      /\ \A q \in Posts, o \in DOMAIN message :
                           post'[q] # Idle /\ post'[q].text = t /\ post'[q].is = "asked" => message[o].text # t
    BY DEF Heard
  <2>1. /\ t \in Texts \ unheard
        /\ \A q \in Posts : post[q] # Idle /\ post[q].text = t => post[q].heard
        /\ \A q, r \in Posts :
             post[q] # Idle /\ post[r] # Idle /\ post[q].text = t /\ post[r].text = t => q = r
        /\ \A q \in Posts, o \in DOMAIN message :
             post[q] # Idle /\ post[q].text = t /\ post[q].is = "asked" => message[o].text # t
    BY DEF ChatInv, Heard, HistoryGoes
  <2>2. \A q \in Posts : post'[q] # Idle /\ post'[q].text = t =>
          /\ post[q] # Idle /\ post[q].text = t /\ post'[q].heard = post[q].heard
          /\ post'[q].is = "asked" => post[q].is = "asked"
    BY DEF PostsGo
  <2>3. \A i \in DOMAIN shown' : shown'[i] # Temp(t, "failed")
    BY DEF ListGoes
  <2> QED BY <2>1, <2>2, <2>3
<1>4. Unsaid'
  <2>1. \A q \in Posts : post'[q] # Idle => post[q] # Idle /\ post'[q].text = post[q].text
    BY DEF PostsGo
  <2>2. \A t : \A i \in DOMAIN shown' : IsTemp(shown'[i], t) => \E j \in DOMAIN shown : IsTemp(shown[j], t)
    BY DEF ListGoes
  <2> QED BY <2>1, <2>2 DEF ChatInv, Unsaid
<1>5. ShownOnce'
  BY DEF ListGoes, ShownOnce, Once, OneTemp
<1>6. SendingIsSent'
  <2> SUFFICES ASSUME NEW t \in Texts \ refused', \E i \in DOMAIN shown' : shown'[i] = Temp(t, "sending")
               PROVE  \E q \in Posts : post'[q] # Idle /\ post'[q].heard /\ post'[q].text = t
    BY DEF SendingIsSent
  <2>1. /\ t \notin refused /\ \E j \in DOMAIN shown : shown[j] = Temp(t, "sending")
        /\ \A q \in Posts : post[q] # Idle /\ post[q].heard /\ post[q].text = t =>
             post'[q] # Idle /\ post'[q].heard
    BY DEF ListGoes
  <2>2. PICK q \in Posts : post[q] # Idle /\ post[q].heard /\ post[q].text = t
    BY <2>1 DEF ChatInv, SendingIsSent
  <2> QED BY <2>1, <2>2 DEF PostsGo
<1>7. SaidOnce'
  BY DEF ChatInv, SaidOnce, HistoryGoes
<1> QED BY <1>1, <1>2, <1>3, <1>4, <1>5, <1>6, <1>7 DEF ChatInv, Parameters

(* What stays as it is goes nowhere. *)
LEMMA PostsStay == ChatInv /\ UNCHANGED post => PostsGo
BY DEF ChatInv, TypeOK, PostsGo, Underway

LEMMA ListStays ==
  ASSUME ChatInv, UNCHANGED <<shown, overtook, unheard>>, refused \subseteq refused',
         \A q \in Posts : post[q] # Idle /\ post[q].heard /\ post[q].text \notin refused' =>
           post'[q] # Idle /\ post'[q].heard
  PROVE  ListGoes
<1>1. /\ shown \in Seq(Entries)
      /\ \A i \in DOMAIN shown : shown[i].id # 0 => shown[i].id \in DOMAIN message
      /\ \A i \in DOMAIN shown, t \in Texts \ unheard : shown[i] # Temp(t, "failed")
  BY DEF ChatInv, TypeOK, Known, Heard
<1>2. /\ \A id \in DOMAIN message \ overtook : Once(shown, id)
      /\ \A t \in Texts : OneTemp(shown, t)
  BY DEF ChatInv, ShownOnce, Once, OneTemp
<1> QED BY <1>1, <1>2 DEF ListGoes

LEMMA LoadsStay == ChatInv /\ UNCHANGED <<message, load>> => LoadsGo
BY DEF ChatInv, TypeOK, Known, LoadsGo

LEMMA HistoryStays ==
  ChatInv /\ UNCHANGED <<overtook, unheard, refused, unsure>> => HistoryGoes
BY DEF ChatInv, TypeOK, HistoryGoes

LEMMA Basics ==
  ASSUME ChatInv
  PROVE  /\ TypeOK /\ Parameters /\ streaming \in BOOLEAN /\ active \in Conversations \cup {None}
         /\ events \in Seq(Ids) /\ shown \in Seq(Entries)
         /\ overtook \subseteq Ids /\ unsure \subseteq Ids
         /\ unheard \subseteq Texts /\ refused \subseteq Texts
         /\ DOMAIN message \subseteq Ids
         /\ \A id \in DOMAIN message : message[id].conversation \in Conversations
         /\ None \notin Conversations
         /\ ListMax \in Nat \ {0}
<1>1. TypeOK /\ Parameters
  BY DEF ChatInv
<1>2. \A id \in DOMAIN message : id \in Ids /\ message[id].conversation \in Conversations
  BY <1>1, HereIs DEF Parameters
<1> QED BY <1>1, <1>2 DEF TypeOK, Parameters

(* Loads are asked for and served, the stream opens. *)
LEMMA Asking ==
  ASSUME ChatInv, UNCHANGED message, NEW l \in Loads, NEW c \in Conversations, AskFor(l, c)
  PROVE  LoadsGo
<1> DEFINE asked == [is |-> "asked", of |-> c, ids |-> {}]
<1>1. asked \in [is : {"asked", "answered"}, of : Conversations, ids : SUBSET Ids] /\ asked.ids = {}
  OBVIOUS
<1> HIDE DEF asked
<1>2. /\ load \in [Loads -> {NoLoad} \cup [is : {"asked", "answered"}, of : Conversations, ids : SUBSET Ids]]
      /\ \A k \in Loads : load[k] # NoLoad => load[k].ids \subseteq DOMAIN message
  BY DEF ChatInv, TypeOK, Known
<1>3. load' = [load EXCEPT ![l] = asked]
  BY DEF AskFor, asked
<1> QED BY <1>1, <1>2, <1>3 DEF LoadsGo

LEMMA LoadingSteps ==
  ASSUME ChatInv, NEW l \in Loads, Poll(l) \/ Served(l) \/ LoadFails(l)
  PROVE  ChatInv'
<1>1. UNCHANGED <<message, post, typed, active, shown, events, overtook, unheard, refused, unsure>>
  BY DEF Poll, Served, LoadFails, server, stream, person, history
<1>2. streaming' \in BOOLEAN
  BY Basics DEF Poll, Served, LoadFails, stream
<1>3. LoadsGo
  <2>1. CASE Poll(l)
    <3>1. active \in Conversations /\ AskFor(l, active)
      BY <2>1, Basics DEF Poll
    <3> QED BY <1>1, <3>1, Asking
  <2>2. CASE Served(l)
    <3>1. load[l] # NoLoad /\ load[l].is = "asked"
      BY <2>2 DEF Served, NoLoad, None
    <3>2. PICK ids : ids = FirstPage(load[l].of)
      OBVIOUS
    <3>3. ids \subseteq DOMAIN message
      BY <3>2 DEF FirstPage, Of
    <3>4. ids \subseteq Ids
      BY <3>3, Basics
    <3>5. /\ load \in [Loads -> {NoLoad} \cup [is : {"asked", "answered"}, of : Conversations, ids : SUBSET Ids]]
          /\ \A k \in Loads : load[k] # NoLoad => load[k].ids \subseteq DOMAIN message
      BY DEF ChatInv, TypeOK, Known
    <3>6. load' = [load EXCEPT ![l] = [@ EXCEPT !.is = "answered", !.ids = ids]]
      BY <2>2, <3>2 DEF Served
    <3>7. /\ load'[l] \in [is : {"asked", "answered"}, of : Conversations, ids : SUBSET Ids]
          /\ load'[l].ids = ids /\ \A k \in Loads \ {l} : load'[k] = load[k]
          /\ DOMAIN load' = Loads
      BY <3>1, <3>4, <3>5, <3>6
    <3>8. load' \in [Loads -> {NoLoad} \cup [is : {"asked", "answered"}, of : Conversations, ids : SUBSET Ids]]
      BY <3>5, <3>6, <3>7
    <3> QED BY <1>1, <3>3, <3>5, <3>7, <3>8 DEF LoadsGo
  <2>3. CASE LoadFails(l)
    BY <1>1, <2>3 DEF LoadFails, ChatInv, TypeOK, Known, LoadsGo
  <2> QED BY <2>1, <2>2, <2>3
<1>4. NothingMissed'
  BY <1>1 DEF ChatInv, NothingMissed, Untold, Coming, Elements
<1>5. PostsGo /\ HistoryGoes /\ ListGoes
  BY <1>1, PostsStay, HistoryStays, ListStays
<1> QED BY <1>1, <1>2, <1>3, <1>4, <1>5, Basics, QuietStep

(* Another conversation is opened, or none: the list is as it is, or empty. *)
LEMMA OpenStep ==
  ASSUME ChatInv, NEW l \in Loads, NEW c \in Conversations, OpenConversation(l, c)
  PROVE  ChatInv'
<1>1. /\ UNCHANGED <<message, post, streaming, events, typed, shown, overtook, unheard, refused>>
      /\ active' = c /\ AskFor(l, c) /\ unsure' = Missing(c, shown)
  BY DEF OpenConversation, server, stream
<1>2. LoadsGo
  BY <1>1, Asking
<1>3. unsure' \subseteq Ids
  BY <1>1, Basics DEF Missing, Of
<1>4. NothingMissed'
  BY <1>1 DEF NothingMissed, Untold, Coming, Elements, Missing, Of
<1>5. PostsGo /\ ListGoes
  BY <1>1, PostsStay, ListStays
<1>6. HistoryGoes
  BY <1>1, <1>3, Basics DEF HistoryGoes
<1> QED BY <1>1, <1>2, <1>4, <1>5, <1>6, Basics, QuietStep

LEMMA EmptyList ==
  ASSUME ChatInv, shown' = <<>>
  PROVE  ListGoes
<1>1. shown' \in Seq(Entries) /\ DOMAIN shown' = {}
  OBVIOUS
<1> QED BY <1>1 DEF ListGoes, Once, OneTemp

LEMMA CloseStep ==
  ASSUME ChatInv, CloseConversation
  PROVE  ChatInv'
<1>1. /\ UNCHANGED <<message, post, streaming, events, typed, load, overtook, unheard, refused>>
      /\ active' = None /\ unsure' = {} /\ shown' \in {shown, <<>>}
  BY DEF CloseConversation, server, stream
<1>2. NothingMissed'
  BY <1>1, Basics DEF NothingMissed
<1>3. ListGoes
  BY <1>1, ListStays, EmptyList
<1>4. PostsGo /\ LoadsGo
  BY <1>1, PostsStay, LoadsStay
<1>5. HistoryGoes
  BY <1>1, Basics DEF HistoryGoes
<1> QED BY <1>1, <1>2, <1>3, <1>4, <1>5, Basics, QuietStep

(* The stream breaks: what was on its way is lost. *)
LEMMA ErrorStep ==
  ASSUME ChatInv, OnError
  PROVE  ChatInv'
<1>1. /\ UNCHANGED <<message, post, typed, active, shown, load, overtook, unheard, refused>>
      /\ streaming' = FALSE /\ events' = <<>>
      /\ unsure' = unsure \cup Of(active, Elements(events))
  BY DEF OnError, server, person
<1>2. Elements(events) \subseteq Ids
  BY Basics, InSequence DEF Elements
<1>3. NothingMissed'
  BY <1>1 DEF ChatInv, NothingMissed, Untold, Coming, Elements, Of
<1>4. PostsGo /\ ListGoes /\ LoadsGo
  BY <1>1, PostsStay, ListStays, LoadsStay
<1>5. HistoryGoes
  BY <1>1, <1>2, Basics DEF HistoryGoes, Of
<1>6. events' \in Seq(Ids) /\ Elements(events') \subseteq Elements(events)
  BY <1>1 DEF Elements
<1> QED BY <1>1, <1>3, <1>4, <1>5, <1>6, Basics, QuietStep

(* An event is taken: its message is shown, or was. *)
LEMMA OnMessageStep ==
  ASSUME ChatInv, OnMessage
  PROVE  ChatInv'
<1> DEFINE first == Head(events)
<1>1. /\ UNCHANGED <<message, post, streaming, typed, active, load, overtook, unheard, refused>>
      /\ events # <<>> /\ events' = Tail(events)
      /\ shown' = addChatMessage(shown, Here(first))
      /\ unsure' = unsure \cup PushedOut(shown, Here(first))
  BY DEF OnMessage, server, person
<1>2. /\ events' \in Seq(Ids) /\ Elements(events) = Elements(events') \cup {first}
      /\ first \in DOMAIN message
  <2>1. /\ events \in Seq(Ids) /\ events # <<>>
    BY <1>1, Basics
  <2>2. /\ first = events[1] /\ 1 \in DOMAIN events
        /\ events' \in Seq(Ids) /\ Len(events) \in Nat /\ DOMAIN events = 1..Len(events)
        /\ DOMAIN events' = 1..(Len(events) - 1)
        /\ \A i \in DOMAIN events' : events'[i] = events[i + 1]
    BY <1>1, <2>1
  <2>3. \A i \in DOMAIN events : i = 1 \/ (i - 1 \in DOMAIN events' /\ (i - 1) + 1 = i)
    BY <2>2
  <2>4. \A i \in DOMAIN events' : i + 1 \in DOMAIN events
    BY <2>2
  <2>5. Elements(events) \subseteq Elements(events') \cup {first}
    BY <2>2, <2>3 DEF Elements
  <2>6. Elements(events') \cup {first} \subseteq Elements(events)
    BY <2>2, <2>4 DEF Elements
  <2> QED BY <2>2, <2>5, <2>6 DEF ChatInv, Known
<1> HIDE DEF first
<1>3. first \in Ids /\ Here(first) \in Entries /\ Here(first).id = first /\ first # 0
      /\ \A t : ~IsTemp(Here(first), t)
  BY <1>2, Basics, HereIs DEF Parameters
<1>4. /\ shown' \in Seq(Entries) /\ Shows(shown', first)
      /\ \A i \in DOMAIN shown' : shown'[i] = Here(first) \/ Holds(shown, shown'[i])
      /\ \A id \in Ids : Shows(shown, id) => Shows(shown', id) \/ id \in PushedOut(shown, Here(first))
      /\ \A id : Once(shown, id) => Once(shown', id)
      /\ \A t : OneTemp(shown, t) => OneTemp(shown', t)
  BY <1>1, <1>3, Basics, MessageAdded
<1>5. ListGoes
  <2>1. \A i \in DOMAIN shown' : shown'[i].id # 0 => shown'[i].id \in DOMAIN message
    BY <1>2, <1>3, <1>4 DEF Holds, ChatInv, Known
  <2>2. \A t : \A i \in DOMAIN shown' : IsTemp(shown'[i], t) => \E j \in DOMAIN shown : shown[j] = shown'[i]
    BY <1>3, <1>4 DEF Holds
  <2>3. \A t \in Texts, is \in {"sending", "failed"}, i \in DOMAIN shown' :
          shown'[i] = Temp(t, is) => \E j \in DOMAIN shown : shown[j] = Temp(t, is)
    BY <2>2, TempIs
  <2>4. \A i \in DOMAIN shown', t \in Texts \ unheard' : shown'[i] # Temp(t, "failed")
    BY <1>1, <2>3 DEF ChatInv, Heard
  <2>5. \A id \in DOMAIN message \ overtook : Once(shown, id)
    BY DEF ChatInv, ShownOnce, Once
  <2>6. \A t \in Texts : OneTemp(shown, t)
    BY DEF ChatInv, ShownOnce, OneTemp
  <2> QED BY <1>1, <1>4, <2>1, <2>2, <2>3, <2>4, <2>5, <2>6 DEF ListGoes
<1>6. PushedOut(shown, Here(first)) \subseteq Ids
  <2>1. Len(shown) >= ListMax => 1 \in DOMAIN shown /\ shown[1] \in Entries
    BY Basics
  <2>2. Len(shown) >= ListMax => shown[1].id \in Ids \cup {0}
    BY <2>1, EntryIs
  <2> QED BY <2>2 DEF PushedOut
<1>7. NothingMissed'
  <2> SUFFICES ASSUME NEW o \in DOMAIN message \ unsure', message[o].conversation = active
               PROVE  Shows(shown', o) \/ o \in Elements(events') \/ Untold(o)
    BY <1>1 DEF NothingMissed, Coming, Elements, Untold
  <2>1. Shows(shown, o) \/ o \in Elements(events) \/ Untold(o)
    BY <1>1 DEF ChatInv, NothingMissed, Coming
  <2>2. o \in Ids
    BY Basics
  <2> QED BY <1>1, <1>2, <1>4, <2>1, <2>2
<1>8. PostsGo /\ LoadsGo
  BY <1>1, PostsStay, LoadsStay
<1>9. HistoryGoes
  BY <1>1, <1>6, Basics DEF HistoryGoes
<1> QED BY <1>1, <1>2, <1>5, <1>7, <1>8, <1>9, Basics, QuietStep

(* A POST ends, or goes on without anybody to listen. *)
LEMMA PostEnds ==
  ASSUME ChatInv, NEW p \in Posts, post' = [post EXCEPT ![p] = Idle]
  PROVE  /\ PostsGo /\ post'[p] = Idle /\ \A q \in Posts \ {p} : post'[q] = post[q]
         /\ UNCHANGED message => \A id : Untold(id) => Untold(id)' \/ id = post[p].id
<1>1. /\ post' \in [Posts -> {Idle} \cup Underway]
      /\ post'[p] = Idle /\ \A q \in Posts \ {p} : post'[q] = post[q]
  BY PostTypes, Basics
<1>2. \A id : Untold(id) => Untold(id)' \/ id = post[p].id
  BY <1>1 DEF Untold
<1> QED BY <1>1, <1>2 DEF PostsGo

LEMMA RefusedStep ==
  ASSUME ChatInv, NEW p \in Posts, Refused(p)
  PROVE  ChatInv'
<1>1. /\ UNCHANGED <<message, streaming, events, typed, active, shown, load, overtook, unheard, refused, unsure>>
      /\ post[p].is = "asked" /\ post[p] # Idle
      /\ post' = [post EXCEPT ![p] = IF post[p].heard THEN [post[p] EXCEPT !.is = "refused"] ELSE Idle]
  BY IdleIs DEF Refused, stream, person, history, None
<1>2. post[p] \in Underway
  BY <1>1, Basics, PostIs
<1>3. CASE post[p].heard
  <2> DEFINE told == [post[p] EXCEPT !.is = "refused"]
  <2>1. /\ told \in Underway /\ told.is = "refused" /\ told.text = post[p].text /\ told.id = post[p].id
        /\ told.conversation = post[p].conversation /\ told.heard = post[p].heard
    BY <1>2 DEF Underway
  <2>2. post' = [post EXCEPT ![p] = told] /\ told # Idle
    BY <1>1, <1>3, <2>1, IdleIs
  <2> HIDE DEF told
  <2>3. /\ post' \in [Posts -> {Idle} \cup Underway]
        /\ post'[p] = told /\ \A q \in Posts \ {p} : post'[q] = post[q]
    BY <2>1, <2>2, PostTypes, Basics
  <2>4. PostsGo
    BY <1>1, <1>3, <2>1, <2>3 DEF PostsGo
  <2>5. \A q \in Posts : post[q] # Idle /\ post[q].heard => post'[q] # Idle /\ post'[q].heard
    BY <1>3, <2>1, <2>2, <2>3
  <2>6. \A id : Untold(id) => Untold(id)'
    BY <1>1, <2>3 DEF Untold
  <2>7. NothingMissed'
    BY <1>1, <2>6 DEF ChatInv, NothingMissed, Coming, Elements
  <2>8. ListGoes
    BY <1>1, <2>5, ListStays
  <2>9. LoadsGo /\ HistoryGoes
    BY <1>1, LoadsStay, HistoryStays
  <2> QED BY <1>1, <2>4, <2>7, <2>8, <2>9, Basics, QuietStep
<1>4. CASE ~post[p].heard
  <2>1. PostsGo /\ post'[p] = Idle /\ \A q \in Posts \ {p} : post'[q] = post[q]
    BY <1>1, <1>4, PostEnds
  <2>2. \A q \in Posts : post[q] # Idle /\ post[q].heard => post'[q] # Idle /\ post'[q].heard
    BY <1>4, <2>1
  <2>3. \A id : Untold(id) => Untold(id)'
    BY <1>1, <2>1 DEF Untold
  <2>4. NothingMissed'
    BY <1>1, <2>3 DEF ChatInv, NothingMissed, Coming, Elements
  <2>5. ListGoes
    BY <1>1, <2>2, ListStays
  <2>6. LoadsGo /\ HistoryGoes
    BY <1>1, LoadsStay, HistoryStays
  <2> QED BY <1>1, <2>1, <2>4, <2>5, <2>6, Basics, QuietStep
<1> QED BY <1>3, <1>4

LEMMA AnsweredWithoutStep ==
  ASSUME ChatInv, NEW p \in Posts, AnsweredWithout(p)
  PROVE  ChatInv'
<1>1. /\ UNCHANGED <<message, streaming, events, typed, active, shown, load, overtook, unheard, unsure>>
      /\ post[p].is = "refused" /\ post[p] # Idle
      /\ post' = [post EXCEPT ![p] = Idle] /\ refused' = refused \cup {post[p].text}
  BY IdleIs DEF AnsweredWithout, stream, person, None
<1>2. post[p].text \in Texts
  BY <1>1, Basics, PostIs DEF Underway
<1>3. PostsGo /\ post'[p] = Idle /\ \A q \in Posts \ {p} : post'[q] = post[q]
  BY <1>1, PostEnds
<1>4. \A id : Untold(id) => Untold(id)'
  BY <1>1, <1>3 DEF Untold
<1>5. NothingMissed'
  BY <1>1, <1>4 DEF ChatInv, NothingMissed, Coming, Elements
<1>6. \A q \in Posts : post[q] # Idle /\ post[q].heard /\ post[q].text \notin refused' =>
        post'[q] # Idle /\ post'[q].heard
  BY <1>1, <1>3
<1>7. ListGoes
  BY <1>1, <1>6, ListStays
<1>8. LoadsGo
  BY <1>1, LoadsStay
<1>9. HistoryGoes
  BY <1>1, <1>2, Basics DEF HistoryGoes
<1> QED BY <1>1, <1>3, <1>5, <1>7, <1>8, <1>9, Basics, QuietStep

(* The handler stops: its message may be told to no one. *)
LEMMA HandlerStopsStep ==
  ASSUME ChatInv, NEW p \in Posts, HandlerStops(p)
  PROVE  ChatInv'
<1>1. /\ UNCHANGED <<message, streaming, events, typed, active, shown, load, overtook, unheard, refused>>
      /\ post[p] # Idle /\ ~post[p].heard /\ post' = [post EXCEPT ![p] = Idle]
      /\ unsure' = unsure \cup {id \in Of(active, DOMAIN message) : post[p].id = id}
  BY DEF HandlerStops, stream, person
<1>2. /\ PostsGo /\ post'[p] = Idle /\ \A q \in Posts \ {p} : post'[q] = post[q]
      /\ \A id : Untold(id) => Untold(id)' \/ id = post[p].id
  BY <1>1, PostEnds
<1>3. NothingMissed'
  BY <1>1, <1>2 DEF ChatInv, NothingMissed, Coming, Elements, Of
<1>4. \A q \in Posts : post[q] # Idle /\ post[q].heard => post'[q] # Idle /\ post'[q].heard
  BY <1>1, <1>2
<1>5. ListGoes
  BY <1>1, <1>4, ListStays
<1>6. LoadsGo
  BY <1>1, LoadsStay
<1>7. HistoryGoes
  BY <1>1, Basics DEF HistoryGoes, Of
<1> QED BY <1>1, <1>2, <1>3, <1>5, <1>6, <1>7, Basics, QuietStep

(* What is known of the list before a step. *)
LEMMA ListIs ==
  ASSUME ChatInv
  PROVE  /\ \A i \in DOMAIN shown : shown[i].id # 0 => shown[i].id \in DOMAIN message
         /\ \A i \in DOMAIN shown, t \in Texts \ unheard : shown[i] # Temp(t, "failed")
         /\ \A id \in DOMAIN message \ overtook : Once(shown, id)
         /\ \A t \in Texts : OneTemp(shown, t)
BY DEF ChatInv, Known, Heard, ShownOnce, Once, OneTemp

(* A list of old entries, without those of a text, and of one message. *)
OfBefore(new, t, id) ==
  \A i \in DOMAIN new : new[i] = Here(id) \/ (Holds(shown, new[i]) /\ ~IsTemp(new[i], t))

LEMMA OldEntries ==
  ASSUME ChatInv, NEW new \in Seq(Entries), NEW t, NEW id \in DOMAIN message, OfBefore(new, t, id)
  PROVE  /\ \A i \in DOMAIN new : new[i].id # 0 => new[i].id \in DOMAIN message
         /\ \A o : \A i \in DOMAIN new : IsTemp(new[i], o) => o # t /\ Holds(shown, new[i])
         /\ \A o : \A i \in DOMAIN new : IsTemp(new[i], o) => \E j \in DOMAIN shown : IsTemp(shown[j], o)
         /\ \A i \in DOMAIN new, o \in Texts \ unheard : new[i] # Temp(o, "failed")
         /\ \A i \in DOMAIN new, o \in Texts :
              new[i] = Temp(o, "sending") => o # t /\ \E j \in DOMAIN shown : shown[j] = Temp(o, "sending")
<1>1. Here(id).id = id /\ \A o : ~IsTemp(Here(id), o)
  BY Basics, HereIs DEF Parameters
<1>2. \A o : \A i \in DOMAIN new : IsTemp(new[i], o) => o # t /\ Holds(shown, new[i])
  BY <1>1 DEF OfBefore
<1>3. \A i \in DOMAIN new : new[i].id # 0 => new[i].id \in DOMAIN message
  BY <1>1, ListIs DEF Holds, OfBefore
<1>4. \A i \in DOMAIN new, o \in Texts : new[i] = Temp(o, "sending") \/ new[i] = Temp(o, "failed")
        => IsTemp(new[i], o)
  BY TempIs
<1> QED BY <1>2, <1>3, <1>4, ListIs DEF Holds

(* The person removes what has failed. *)
LEMMA RemoveFailedStep ==
  ASSUME ChatInv, NEW t \in Texts, RemoveFailed(t)
  PROVE  ChatInv'
<1>1. /\ UNCHANGED <<message, post, streaming, events, typed, active, load, overtook, unheard, refused, unsure>>
      /\ shown' = removePendingMessage(t)
  BY DEF RemoveFailed, server, stream, person, history
<1>2. /\ shown' \in Seq(Entries)
      /\ \A i \in DOMAIN shown' : Holds(shown, shown'[i])
      /\ \A id \in Ids : Shows(shown, id) => Shows(shown', id)
      /\ \A id : Once(shown, id) => Once(shown', id)
      /\ \A o : OneTemp(shown, o) => OneTemp(shown', o)
  BY <1>1, Basics, Removed
<1>3. ListGoes
  <2>1. \A i \in DOMAIN shown' : \E j \in DOMAIN shown : shown'[i] = shown[j]
    BY <1>2 DEF Holds
  <2> QED BY <1>1, <1>2, <2>1, ListIs DEF ListGoes
<1>4. NothingMissed'
  <2>1. DOMAIN message \subseteq Ids
    BY Basics
  <2> QED BY <1>1, <1>2, <2>1 DEF ChatInv, NothingMissed, Coming, Elements, Untold
<1>5. PostsGo /\ LoadsGo /\ HistoryGoes
  BY <1>1, PostsStay, LoadsStay, HistoryStays
<1> QED BY <1>1, <1>3, <1>4, <1>5, Basics, QuietStep

LEMMA LoadedStep ==
  ASSUME ChatInv, NEW l \in Loads, Loaded(l)
  PROVE  ChatInv'
<1>1. /\ UNCHANGED <<message, post, streaming, events, typed, active, unheard>>
      /\ load[l].is = "answered" /\ load' = [load EXCEPT ![l] = NoLoad]
      /\ shown' = [i \in DOMAIN InOrder(load[l].ids) |-> Here(InOrder(load[l].ids)[i])]
      /\ unsure' = Missing(active, shown') /\ overtook' = {} /\ refused' = {}
  BY DEF Loaded, server, stream, person
<1>2. load[l] # NoLoad
  BY <1>1 DEF NoLoad, None
<1>3. load[l].ids \subseteq DOMAIN message /\ load[l].ids \subseteq Ids
  BY <1>2, Basics DEF ChatInv, Known
<1>4. /\ shown' \in Seq(Entries)
      /\ \A i \in DOMAIN shown' : shown'[i].id \in load[l].ids /\ \A t : ~IsTemp(shown'[i], t)
      /\ \A id : Once(shown', id)
  BY <1>1, <1>3, Basics, ListLoaded DEF Parameters
<1>5. ListGoes
  <2>1. \A i \in DOMAIN shown', t \in Texts : shown'[i] # Temp(t, "failed") /\ shown'[i] # Temp(t, "sending")
    BY <1>4, TempIs
  <2>2. \A t \in Texts : OneTemp(shown', t)
    BY <1>4 DEF OneTemp
  <2> QED BY <1>3, <1>4, <2>1, <2>2 DEF ListGoes
<1>6. NothingMissed'
  BY <1>1 DEF NothingMissed, Untold, Coming, Elements, Missing, Of
<1>7. LoadsGo
  BY <1>1 DEF ChatInv, TypeOK, Known, LoadsGo
<1>8. PostsGo
  BY <1>1, PostsStay
<1>9. HistoryGoes
  BY <1>1, Basics DEF HistoryGoes, Missing, Of
<1> QED BY <1>1, <1>5, <1>6, <1>7, <1>8, <1>9, Basics, QuietStep

LEMMA PushedOutIs ==
  ASSUME NEW list \in Seq(Entries), NEW entry, ListMax \in Nat \ {0}
  PROVE  PushedOut(list, entry) \subseteq Ids
<1>1. Len(list) >= ListMax => 1 \in DOMAIN list /\ list[1] \in Entries
  OBVIOUS
<1>2. Len(list) >= ListMax => list[1].id \in Ids \cup {0}
  BY <1>1, EntryIs
<1> QED BY <1>2 DEF PushedOut

(* An answer comes: its message takes the place of the entry that was        *)
(* pending, beside the entry its event has brought, or is added.             *)
LEMMA AnsweredStep ==
  ASSUME ChatInv, NEW p \in Posts, Answered(p)
  PROVE  ChatInv'
<1> DEFINE t == post[p].text
           id == post[p].id
<1>1. /\ UNCHANGED <<message, streaming, events, typed, active, load, unheard, refused>>
      /\ post[p].is = "answered" /\ post[p] # Idle
      /\ post' = [post EXCEPT ![p] = Idle]
      /\ IF post[p].retry
         THEN /\ shown' = addChatMessage(removePendingMessage(t), Here(id))
              /\ unsure' = unsure \cup PushedOut(removePendingMessage(t), Here(id))
         ELSE shown' = replacePendingMessage(t, Here(id)) /\ unsure' = unsure
      /\ overtook' = IF Shows(shown, id) /\ ~post[p].retry THEN overtook \cup {id} ELSE overtook
  BY IdleIs DEF Answered, stream, person, None
<1>2. id \in DOMAIN message
  BY <1>1 DEF ChatInv, Known
<1>3. id \in Ids /\ Here(id) \in Entries /\ Here(id).id = id /\ id # 0 /\ \A o : ~IsTemp(Here(id), o)
  BY <1>2, Basics, HereIs DEF Parameters
<1>4. PostsGo /\ post'[p] = Idle /\ \A q \in Posts \ {p} : post'[q] = post[q]
  BY <1>1, PostEnds
<1>5. \A o : Untold(o) => Untold(o)'
  BY <1>1, <1>4 DEF Untold
<1>6. \A o : o # t => \A q \in Posts : post[q] # Idle /\ post[q].heard /\ post[q].text = o =>
        post'[q] # Idle /\ post'[q].heard
  BY <1>4
<1> HIDE DEF id, t
<1>7. CASE post[p].retry
  <2>1. PICK left : left = removePendingMessage(t)
    OBVIOUS
  <2>2. /\ left \in Seq(Entries)
        /\ \A i \in DOMAIN left : Holds(shown, left[i]) /\ ~IsTemp(left[i], t)
        /\ \A o \in Ids : Shows(shown, o) => Shows(left, o)
        /\ \A o : Once(shown, o) => Once(left, o)
        /\ \A o : OneTemp(shown, o) => OneTemp(left, o)
    BY <2>1, Basics, Removed
  <2>3. shown' = addChatMessage(left, Here(id)) /\ unsure' = unsure \cup PushedOut(left, Here(id))
        /\ overtook' = overtook
    BY <1>1, <1>7, <2>1 DEF t, id
  <2>4. /\ shown' \in Seq(Entries)
        /\ \A i \in DOMAIN shown' : shown'[i] = Here(id) \/ Holds(left, shown'[i])
        /\ \A o \in Ids : Shows(left, o) => Shows(shown', o) \/ o \in PushedOut(left, Here(id))
        /\ \A o : Once(left, o) => Once(shown', o)
        /\ \A o : OneTemp(left, o) => OneTemp(shown', o)
    BY <1>3, <2>2, <2>3, Basics, MessageAdded
  <2>5. /\ shown' \in Seq(Entries)
        /\ OfBefore(shown', t, id)
    BY <2>2, <2>4 DEF Holds, OfBefore
  <2>6. /\ \A i \in DOMAIN shown' : shown'[i].id # 0 => shown'[i].id \in DOMAIN message
        /\ \A o : \A i \in DOMAIN shown' : IsTemp(shown'[i], o) => \E j \in DOMAIN shown : IsTemp(shown[j], o)
        /\ \A i \in DOMAIN shown', o \in Texts \ unheard : shown'[i] # Temp(o, "failed")
        /\ \A i \in DOMAIN shown', o \in Texts :
             shown'[i] = Temp(o, "sending") => o # t /\ \E j \in DOMAIN shown : shown[j] = Temp(o, "sending")
    BY <1>2, <2>5, OldEntries
  <2>7. \A o \in DOMAIN message \ overtook' : Once(shown', o)
    BY <2>2, <2>3, <2>4, ListIs
  <2>8. \A o \in Texts : OneTemp(shown', o)
    BY <2>2, <2>4, ListIs
  <2>9. ListGoes
    BY <1>1, <1>6, <2>4, <2>6, <2>7, <2>8 DEF ListGoes
  <2>10. NothingMissed'
    <3>1. DOMAIN message \subseteq Ids
      BY Basics
    <3> QED BY <1>1, <1>5, <2>2, <2>3, <2>4, <3>1 DEF ChatInv, NothingMissed, Coming, Elements
  <2>11. HistoryGoes
    <3>1. PushedOut(left, Here(id)) \subseteq Ids
      BY <2>2, Basics, PushedOutIs
    <3> QED BY <1>1, <2>3, <3>1, Basics DEF HistoryGoes
  <2>12. LoadsGo
    BY <1>1, LoadsStay
  <2> QED BY <1>1, <1>4, <2>9, <2>10, <2>11, <2>12, Basics, QuietStep
<1>8. CASE ~post[p].retry
  <2>1. /\ shown' = replacePendingMessage(t, Here(id)) /\ unsure' = unsure
        /\ overtook' = IF Shows(shown, id) THEN overtook \cup {id} ELSE overtook
    BY <1>1, <1>8 DEF t, id
  <2>2. /\ shown' \in Seq(Entries) /\ DOMAIN shown' = DOMAIN shown
        /\ \A i \in DOMAIN shown : shown'[i] = IF IsTemp(shown[i], t) THEN Here(id) ELSE shown[i]
        /\ \A o \in Ids : Shows(shown, o) => Shows(shown', o)
    BY <1>3, <2>1, Basics, ReplacedEntries
  <2>3. OfBefore(shown', t, id)
    BY <2>2 DEF Holds, OfBefore
  <2>4. /\ \A i \in DOMAIN shown' : shown'[i].id # 0 => shown'[i].id \in DOMAIN message
        /\ \A o : \A i \in DOMAIN shown' : IsTemp(shown'[i], o) => \E j \in DOMAIN shown : IsTemp(shown[j], o)
        /\ \A i \in DOMAIN shown', o \in Texts \ unheard : shown'[i] # Temp(o, "failed")
        /\ \A i \in DOMAIN shown', o \in Texts :
             shown'[i] = Temp(o, "sending") => o # t /\ \E j \in DOMAIN shown : shown[j] = Temp(o, "sending")
    BY <1>2, <2>2, <2>3, OldEntries
  <2>5. t \in Texts
    BY <1>1, Basics, PostIs DEF Underway, t
  <2>6. ASSUME NEW o \in DOMAIN message \ overtook' PROVE Once(shown', o)
    <3>1. o \notin overtook
      BY <2>1
    <3>2. Once(shown, o)
      BY <3>1, ListIs
    <3>3. CASE o = id
      <4>1. \A i \in DOMAIN shown : shown[i].id # id
        BY <2>1, <3>3 DEF Shows
      <4>2. \A i \in DOMAIN shown' : shown'[i].id = id => IsTemp(shown[i], t)
        BY <2>2, <4>1
      <4>3. OneTemp(shown, t)
        BY <2>5, ListIs
      <4> QED BY <2>2, <3>3, <4>2, <4>3 DEF Once, OneTemp
    <3>4. CASE o # id
      <4>1. \A i \in DOMAIN shown' : shown'[i].id = o => shown'[i] = shown[i]
        BY <1>3, <2>2, <3>4
      <4> QED BY <2>2, <3>2, <4>1 DEF Once
    <3> QED BY <3>3, <3>4
  <2>7. ASSUME NEW o \in Texts PROVE OneTemp(shown', o)
    <3>1. \A i \in DOMAIN shown' : IsTemp(shown'[i], o) => IsTemp(shown[i], o)
      BY <1>3, <2>2
    <3> QED BY <2>2, <3>1, ListIs DEF OneTemp
  <2>8. ListGoes
    <3>1. \A o \in Texts \ refused' : (\E i \in DOMAIN shown' : shown'[i] = Temp(o, "sending")) =>
            /\ o \notin refused /\ \E j \in DOMAIN shown : shown[j] = Temp(o, "sending")
            /\ \A q \in Posts : post[q] # Idle /\ post[q].heard /\ post[q].text = o =>
                 post'[q] # Idle /\ post'[q].heard
      BY <1>1, <1>6, <2>4
    <3>2. \A i \in DOMAIN shown', o \in Texts \ unheard' : shown'[i] # Temp(o, "failed")
      BY <1>1, <2>4
    <3> QED BY <2>2, <2>4, <2>6, <2>7, <3>1, <3>2 DEF ListGoes
  <2>9. NothingMissed'
    <3>1. DOMAIN message \subseteq Ids
      BY Basics
    <3> QED BY <1>1, <1>5, <2>1, <2>2, <3>1 DEF ChatInv, NothingMissed, Coming, Elements
  <2>10. HistoryGoes
    BY <1>1, <1>3, <2>1, Basics DEF HistoryGoes
  <2>11. LoadsGo
    BY <1>1, LoadsStay
  <2> QED BY <1>1, <1>4, <2>8, <2>9, <2>10, <2>11, Basics, QuietStep
<1> QED BY <1>7, <1>8

(* The browser is told that it failed, which need not be so. *)
LEMMA PostFailsStep ==
  ASSUME ChatInv, NEW p \in Posts, PostFails(p)
  PROVE  ChatInv'
<1> DEFINE t == post[p].text
           unknown == {id \in Of(active, DOMAIN message) : post[p].id = id /\ Untold(id)}
<1>1. /\ UNCHANGED <<message, streaming, events, typed, active, load, overtook, refused>>
      /\ post[p] # Idle /\ post[p].heard
      /\ shown' = updatePendingMessage(t, "failed")
      /\ \/ post' = [post EXCEPT ![p] = Idle] /\ unsure' = unsure \cup unknown
         \/ /\ post[p].is \in {"asked", "forwards", "waits"}
            /\ post' = [post EXCEPT ![p].heard = FALSE] /\ unsure' = unsure
      /\ unheard' = unheard \cup {t}
  BY DEF PostFails, stream, person
<1>2. post[p] \in Underway /\ t \in Texts
  BY <1>1, Basics, PostIs DEF Underway
<1> HIDE DEF t
<1>3. /\ shown' \in Seq(Entries) /\ DOMAIN shown' = DOMAIN shown
      /\ \A i \in DOMAIN shown' : (shown'[i] = Temp(t, "failed") /\ IsTemp(shown[i], t)) \/ shown'[i] = shown[i]
      /\ \A i \in DOMAIN shown' : IsTemp(shown'[i], t) => shown'[i] = Temp(t, "failed")
      /\ \A id \in Ids : Shows(shown, id) => Shows(shown', id)
      /\ \A id \in Ids : Once(shown, id) => Once(shown', id)
      /\ \A o : OneTemp(shown, o) => OneTemp(shown', o)
  BY <1>1, <1>2, Basics, UpdatedEntries
<1>4. /\ PostsGo /\ \A q \in Posts \ {p} : post'[q] = post[q]
      /\ \A id \in Of(active, DOMAIN message) : Untold(id) => Untold(id)' \/ id \in unsure'
      /\ unsure \subseteq unsure' /\ unsure' \subseteq unsure \cup DOMAIN message
  <2>1. CASE post' = [post EXCEPT ![p] = Idle] /\ unsure' = unsure \cup unknown
    <3>1. /\ PostsGo /\ post'[p] = Idle /\ \A q \in Posts \ {p} : post'[q] = post[q]
          /\ \A id : Untold(id) => Untold(id)' \/ id = post[p].id
      BY <1>1, <2>1, PostEnds
    <3> QED BY <2>1, <3>1 DEF Of
  <2>2. CASE /\ post[p].is \in {"asked", "forwards", "waits"}
             /\ post' = [post EXCEPT ![p].heard = FALSE] /\ unsure' = unsure
    <3> DEFINE alone == [post[p] EXCEPT !.heard = FALSE]
    <3>1. /\ alone \in Underway /\ alone.id = post[p].id /\ alone.is = post[p].is
          /\ alone.text = post[p].text /\ alone.conversation = post[p].conversation
      BY <1>2 DEF Underway
    <3>2. post' = [post EXCEPT ![p] = alone]
      BY <2>2
    <3> HIDE DEF alone
    <3>3. /\ post' \in [Posts -> {Idle} \cup Underway]
          /\ post'[p] = alone /\ \A q \in Posts \ {p} : post'[q] = post[q]
      BY <3>1, <3>2, PostTypes, Basics
    <3>4. alone # Idle
      BY <3>1, IdleIs
    <3>5. PostsGo
      BY <1>1, <2>2, <3>1, <3>3 DEF PostsGo, t
    <3>6. \A id : Untold(id) => Untold(id)'
      BY <3>1, <3>3, <3>4 DEF Untold
    <3> QED BY <2>2, <3>3, <3>5, <3>6
  <2> QED BY <1>1, <2>1, <2>2
<1>5. ListGoes
  <2>1. \A i \in DOMAIN shown' : shown'[i].id # 0 => shown'[i].id \in DOMAIN message
    BY <1>2, <1>3, ListIs, TempIs
  <2>2. \A o : \A i \in DOMAIN shown' : IsTemp(shown'[i], o) => \E j \in DOMAIN shown : IsTemp(shown[j], o)
    BY <1>2, <1>3, TempIs
  <2>3. \A i \in DOMAIN shown', o \in Texts, is \in {"sending", "failed"} :
          shown'[i] = Temp(o, is) => (o = t /\ is = "failed") \/ (o # t /\ shown[i] = Temp(o, is))
    BY <1>2, <1>3, TempIs
  <2>4. \A i \in DOMAIN shown', o \in Texts \ unheard' : shown'[i] # Temp(o, "failed")
    BY <1>1, <1>3, <2>3, ListIs
  <2>5. ASSUME NEW o \in Texts \ refused', \E i \in DOMAIN shown' : shown'[i] = Temp(o, "sending")
        PROVE  /\ o \notin refused /\ \E j \in DOMAIN shown : shown[j] = Temp(o, "sending")
               /\ \A q \in Posts : post[q] # Idle /\ post[q].heard /\ post[q].text = o =>
                    post'[q] # Idle /\ post'[q].heard
    <3>1. o # t /\ \E j \in DOMAIN shown : shown[j] = Temp(o, "sending")
      BY <1>3, <2>3, <2>5
    <3>2. \A q \in Posts : post[q].text = o => post'[q] = post[q]
      BY <1>4, <3>1 DEF t
    <3> QED BY <1>1, <3>1, <3>2
  <2>6. \A id \in DOMAIN message \ overtook' : Once(shown', id)
    BY <1>1, <1>3, ListIs, Basics
  <2>7. \A o \in Texts : OneTemp(shown', o)
    BY <1>3, ListIs
  <2> QED BY <1>3, <2>1, <2>2, <2>4, <2>5, <2>6, <2>7 DEF ListGoes
<1>6. NothingMissed'
  <2>1. DOMAIN message \subseteq Ids
    BY Basics
  <2> QED BY <1>1, <1>3, <1>4, <2>1 DEF ChatInv, NothingMissed, Coming, Elements, Of
<1>7. LoadsGo
  BY <1>1, LoadsStay
<1>8. HistoryGoes
  BY <1>1, <1>2, <1>4, Basics DEF HistoryGoes
<1> QED BY <1>1, <1>4, <1>5, <1>6, <1>7, <1>8, Basics, QuietStep

--------------------------------------------------------------------------------
(* A POST is started, of what has been typed now or of what has failed: the   *)
(* entry of its text is pending.                                              *)
LEMMA StartStep ==
  ASSUME ChatInv, NEW p \in Posts, NEW t \in Texts, NEW retry \in BOOLEAN, StartPost(p, t, retry),
         active \in Conversations,
         UNCHANGED <<message, streaming, events, active, load, overtook, unheard, refused>>,
         t \in unheard \/ typed[t] = None,
         typed' \in [Texts -> Conversations \cup {None}],
         typed'[t] # None /\ \A o \in Texts \ {t} : typed'[o] = typed[o],
         shown' \in Seq(Entries),
         \A i \in DOMAIN shown' : shown'[i] = Temp(t, "sending") \/ Holds(shown, shown'[i]),
         \A i \in DOMAIN shown' : IsTemp(shown'[i], t) => shown'[i] = Temp(t, "sending"),
         \A id \in Ids : Shows(shown, id) => Shows(shown', id) \/ id \in unsure',
         \A id \in Ids : Once(shown, id) => Once(shown', id),
         \A o : OneTemp(shown, o) => OneTemp(shown', o),
         unsure \subseteq unsure', unsure' \subseteq Ids
  PROVE  ChatInv'
<1> DEFINE asked == [is |-> "asked", text |-> t, conversation |-> active, id |-> 0,
                     heard |-> TRUE, retry |-> retry]
<1>1. /\ post[p] = Idle /\ post' = [post EXCEPT ![p] = asked]
  BY DEF StartPost
<1>2. /\ asked \in Underway /\ asked.is = "asked" /\ asked.text = t /\ asked.id = 0 /\ asked.heard
      /\ asked # Idle
  <2>1. asked \in Underway
    BY DEF Underway
  <2> QED BY <2>1, IdleIs
<1> HIDE DEF asked
<1>3. /\ post' \in [Posts -> {Idle} \cup Underway]
      /\ post'[p] = asked /\ \A q \in Posts \ {p} : post'[q] = post[q]
  BY <1>1, <1>2, PostTypes, Basics
<1>4. TypeOK'
  <2>1. TypeOK
    BY Basics
  <2> QED BY <1>3, <2>1 DEF TypeOK, Underway
<1>5. \A i \in DOMAIN shown', o \in Texts, is \in {"sending", "failed"} :
        shown'[i] = Temp(o, is) => (o = t /\ is = "sending") \/ (o # t /\ Holds(shown, Temp(o, is)))
  BY TempIs
<1>6. Known'
  <2>1. \A i \in DOMAIN shown' : shown'[i].id # 0 => shown'[i].id \in DOMAIN message
    BY ListIs, TempIs DEF Holds
  <2>2. ASSUME NEW q \in Posts, post'[q] # Idle
        PROVE  /\ IF post'[q].is \in {"asked", "refused"} THEN post'[q].id = 0
                  ELSE /\ post'[q].id \in DOMAIN message
                       /\ message[post'[q].id] = Row(post'[q].conversation, post'[q].text)
               /\ post'[q].is \in {"answered", "refused"} => post'[q].heard
    <3>1. CASE q = p
      BY <1>2, <1>3, <3>1
    <3>2. CASE q # p
      <4>1. post'[q] = post[q]
        BY <1>3, <3>2
      <4> QED BY <2>2, <4>1 DEF ChatInv, Known
    <3> QED BY <3>1, <3>2
  <2>3. /\ \A i \in DOMAIN events : events[i] \in DOMAIN message
        /\ \A l \in Loads : load[l] # NoLoad => load[l].ids \subseteq DOMAIN message
    BY DEF ChatInv, Known
  <2> QED BY <2>1, <2>2, <2>3 DEF Known
<1>7. Heard'
  <2> SUFFICES ASSUME NEW o \in Texts \ unheard
               PROVE  /\ \A i \in DOMAIN shown' : shown'[i] # Temp(o, "failed")
                      /\ \A q \in Posts : post'[q] # Idle /\ post'[q].text = o => post'[q].heard
                      /\ \A q, r \in Posts :
                           post'[q] # Idle /\ post'[r] # Idle /\ post'[q].text = o /\ post'[r].text = o => q = r
                      /\ \A q \in Posts, id \in DOMAIN message :
                           post'[q] # Idle /\ post'[q].text = o /\ post'[q].is = "asked" => message[id].text # o
    BY DEF Heard
  <2>1. /\ \A i \in DOMAIN shown : shown[i] # Temp(o, "failed")
        /\ \A q \in Posts : post[q] # Idle /\ post[q].text = o => post[q].heard
        /\ \A q, r \in Posts :
             post[q] # Idle /\ post[r] # Idle /\ post[q].text = o /\ post[r].text = o => q = r
        /\ \A q \in Posts, id \in DOMAIN message :
             post[q] # Idle /\ post[q].text = o /\ post[q].is = "asked" => message[id].text # o
    BY DEF ChatInv, Heard
  <2>2. \A i \in DOMAIN shown' : shown'[i] # Temp(o, "failed")
    BY <1>5, <2>1 DEF Holds
  <2>3. CASE o = t
    <3>1. /\ \A q \in Posts : post[q] # Idle => post[q].text # t
          /\ \A id \in DOMAIN message : message[id].text # t
      BY <2>3 DEF ChatInv, Unsaid
    <3>2. \A q \in Posts : post'[q] # Idle /\ post'[q].text = t => q = p
      BY <1>3, <3>1
    <3> QED BY <1>2, <1>3, <2>2, <2>3, <3>1, <3>2
  <2>4. CASE o # t
    <3>1. \A q \in Posts : post'[q] # Idle /\ post'[q].text = o => post'[q] = post[q]
      BY <1>2, <1>3, <2>4
    <3> QED BY <2>1, <2>2, <3>1
  <2> QED BY <2>3, <2>4
<1>8. Unsaid'
  <2> SUFFICES ASSUME NEW o \in Texts, typed'[o] = None
               PROVE  /\ \A q \in Posts : post'[q] # Idle => post'[q].text # o
                      /\ \A id \in DOMAIN message : message[id].text # o
                      /\ \A i \in DOMAIN shown' : ~IsTemp(shown'[i], o)
    BY DEF Unsaid
  <2>1. o # t /\ typed[o] = None
    OBVIOUS
  <2>2. /\ \A q \in Posts : post[q] # Idle => post[q].text # o
        /\ \A id \in DOMAIN message : message[id].text # o
        /\ \A i \in DOMAIN shown : ~IsTemp(shown[i], o)
    BY <2>1 DEF ChatInv, Unsaid
  <2>3. \A q \in Posts : post'[q] # Idle => post'[q].text # o
    BY <1>2, <1>3, <2>1, <2>2
  <2>4. \A i \in DOMAIN shown' : ~IsTemp(shown'[i], o)
    BY <2>1, <2>2, TempIs DEF Holds
  <2> QED BY <2>2, <2>3, <2>4
<1>9. ShownOnce'
  <2>1. \A id \in DOMAIN message \ overtook : Once(shown', id)
    BY ListIs, Basics
  <2>2. \A o \in Texts : OneTemp(shown', o)
    BY ListIs
  <2> QED BY <2>1, <2>2 DEF ShownOnce, Once, OneTemp
<1>10. SendingIsSent'
  <2> SUFFICES ASSUME NEW o \in Texts \ refused, \E i \in DOMAIN shown' : shown'[i] = Temp(o, "sending")
               PROVE  \E q \in Posts : post'[q] # Idle /\ post'[q].heard /\ post'[q].text = o
    BY DEF SendingIsSent
  <2>1. CASE o = t
    BY <1>2, <1>3, <2>1
  <2>2. CASE o # t
    <3>1. \E j \in DOMAIN shown : shown[j] = Temp(o, "sending")
      BY <1>5, <2>2 DEF Holds
    <3>2. PICK q \in Posts : post[q] # Idle /\ post[q].heard /\ post[q].text = o
      BY <3>1 DEF ChatInv, SendingIsSent
    <3>3. post'[q] = post[q]
      BY <1>1, <1>3, <3>2
    <3> QED BY <3>2, <3>3
  <2> QED BY <2>1, <2>2
<1>11. SaidOnce'
  BY DEF ChatInv, SaidOnce
<1>12. NothingMissed'
  <2>1. DOMAIN message \subseteq Ids
    BY Basics
  <2>2. \A id : Untold(id) => Untold(id)'
    BY <1>1, <1>3 DEF Untold
  <2> QED BY <2>1, <2>2 DEF ChatInv, NothingMissed, Coming, Elements
<1> QED BY <1>4, <1>6, <1>7, <1>8, <1>9, <1>10, <1>11, <1>12 DEF ChatInv, Parameters

LEMMA SendStep ==
  ASSUME ChatInv, NEW p \in Posts, NEW t \in Texts, Send(p, t)
  PROVE  ChatInv'
<1>1. /\ UNCHANGED <<message, streaming, events, active, load, overtook, unheard, refused>>
      /\ active # None /\ typed[t] = None /\ typed' = [typed EXCEPT ![t] = active]
      /\ shown' = addChatMessage(shown, Temp(t, "sending"))
      /\ unsure' = unsure \cup PushedOut(shown, Temp(t, "sending"))
      /\ StartPost(p, t, FALSE)
  BY DEF Send, stream
<1>2. \A i \in DOMAIN shown : ~IsTemp(shown[i], t)
  BY <1>1 DEF ChatInv, Unsaid
<1>3. /\ shown' \in Seq(Entries)
      /\ \A i \in DOMAIN shown' : shown'[i] = Temp(t, "sending") \/ Holds(shown, shown'[i])
      /\ \A id \in Ids : Shows(shown, id) => Shows(shown', id) \/ id \in unsure'
      /\ \A id \in Ids : Once(shown, id) => Once(shown', id)
      /\ \A o : OneTemp(shown, o) => OneTemp(shown', o)
  BY <1>1, <1>2, Basics, TempAdded
<1>4. \A i \in DOMAIN shown' : IsTemp(shown'[i], t) => shown'[i] = Temp(t, "sending")
  BY <1>2, <1>3 DEF Holds
<1>5. unsure \subseteq unsure' /\ unsure' \subseteq Ids
  BY <1>1, Basics, PushedOutIs
<1>6. active \in Conversations /\ typed \in [Texts -> Conversations \cup {None}]
  BY <1>1, Basics DEF TypeOK
<1>7. /\ typed' \in [Texts -> Conversations \cup {None}]
      /\ typed'[t] # None /\ \A o \in Texts \ {t} : typed'[o] = typed[o]
  BY <1>1, <1>6
<1> QED BY <1>1, <1>3, <1>4, <1>5, <1>6, <1>7, StartStep

LEMMA RetryStep ==
  ASSUME ChatInv, NEW p \in Posts, NEW t \in Texts, Retry(p, t)
  PROVE  ChatInv'
<1>1. /\ UNCHANGED <<message, streaming, events, active, typed, load, overtook, unheard, refused, unsure>>
      /\ typed[t] = active /\ \E i \in DOMAIN shown : shown[i] = Temp(t, "failed")
      /\ shown' = updatePendingMessage(t, "sending") /\ StartPost(p, t, TRUE)
  BY DEF Retry, Failed, stream, person, history
<1>2. t \in unheard
  BY <1>1 DEF ChatInv, Heard
<1>3. /\ shown' \in Seq(Entries) /\ DOMAIN shown' = DOMAIN shown
      /\ \A i \in DOMAIN shown' : shown'[i] = Temp(t, "sending") \/ shown'[i] = shown[i]
      /\ \A i \in DOMAIN shown' : IsTemp(shown'[i], t) => shown'[i] = Temp(t, "sending")
      /\ \A id \in Ids : Shows(shown, id) => Shows(shown', id)
      /\ \A id \in Ids : Once(shown, id) => Once(shown', id)
      /\ \A o : OneTemp(shown, o) => OneTemp(shown', o)
  BY <1>1, Basics, UpdatedEntries
<1>4. \A i \in DOMAIN shown' : shown'[i] = Temp(t, "sending") \/ Holds(shown, shown'[i])
  BY <1>3 DEF Holds
<1>5. typed \in [Texts -> Conversations \cup {None}] /\ unsure \subseteq Ids
  BY Basics DEF TypeOK
<1>6. typed[t] # None
  <2>1. PICK i \in DOMAIN shown : IsTemp(shown[i], t)
    BY <1>1, TempIs
  <2> QED BY <2>1 DEF ChatInv, Unsaid
<1>7. active \in Conversations
  BY <1>1, <1>6, Basics
<1> QED BY <1>1, <1>2, <1>3, <1>4, <1>5, <1>6, <1>7, StartStep

LEMMA OnOpenStep ==
  ASSUME ChatInv, OnOpen
  PROVE  ChatInv'
<1>1. /\ UNCHANGED <<message, post, typed, active, shown, load, events, overtook, unheard, refused, unsure>>
      /\ streaming' = TRUE
  BY DEF OnOpen, server, person, history
<1>2. NothingMissed'
  BY <1>1 DEF ChatInv, NothingMissed, Untold, Coming, Elements
<1>3. PostsGo /\ HistoryGoes /\ ListGoes /\ LoadsGo
  BY <1>1, PostsStay, HistoryStays, ListStays, LoadsStay
<1> QED BY <1>1, <1>2, <1>3, Basics, QuietStep

--------------------------------------------------------------------------------
LEMMA ChatInit == Parameters /\ Init => ChatInv
<1> SUFFICES ASSUME Parameters, Init PROVE ChatInv
  OBVIOUS
<1>1. TypeOK
  <2>1. message = <<>> /\ MaxMessages \in Nat /\ Len(message) = 0
    BY DEF Init, Parameters
  <2>2. message \in Seq([conversation : Conversations, text : Said]) /\ Len(message) <= MaxMessages
    BY <2>1
  <2>3. shown \in Seq(Entries) /\ events \in Seq(Ids)
    BY DEF Init
  <2> QED BY <2>2, <2>3 DEF Init, TypeOK
<1>2. /\ DOMAIN message = {} /\ DOMAIN shown = {} /\ DOMAIN events = {}
      /\ \A p \in Posts : post[p] = Idle
      /\ \A l \in Loads : load[l] = NoLoad
  BY DEF Init
<1>3. Known /\ Heard /\ Unsaid
  BY <1>2 DEF Known, Heard, Unsaid
<1>4. ShownOnce /\ SendingIsSent /\ SaidOnce /\ NothingMissed
  BY <1>2 DEF ShownOnce, SendingIsSent, SaidOnce, NothingMissed
<1> QED BY <1>1, <1>3, <1>4 DEF ChatInv

LEMMA ChatNext == ChatInv /\ [Next]_vars => ChatInv'
<1> SUFFICES ASSUME ChatInv, [Next]_vars PROVE ChatInv'
  OBVIOUS
<1>1. ASSUME NEW p \in Posts, NEW t \in Texts, Send(p, t) \/ Retry(p, t) PROVE ChatInv'
  BY <1>1, SendStep, RetryStep
<1>2. ASSUME NEW p \in Posts,
             \/ Received(p) \/ Forwarded(p) \/ RunReported(p) \/ Refused(p)
             \/ Answered(p) \/ AnsweredWithout(p)
             \/ PostFails(p) \/ HandlerStops(p)
      PROVE  ChatInv'
  BY <1>2, ReceivedStep, ForwardedStep, RunReportedStep, RefusedStep, AnsweredStep,
     AnsweredWithoutStep, PostFailsStep, HandlerStopsStep
<1>3. ASSUME NEW t \in Texts, RemoveFailed(t) PROVE ChatInv'
  BY <1>3, RemoveFailedStep
<1>4. ASSUME NEW t \in OtherTexts, NEW c \in Conversations, OthersSend(t, c) PROVE ChatInv'
  BY <1>4, OthersSendStep
<1>5. ASSUME NEW l \in Loads, NEW c \in Conversations, OpenConversation(l, c) PROVE ChatInv'
  BY <1>5, OpenStep
<1>6. ASSUME NEW l \in Loads, Poll(l) \/ Served(l) \/ Loaded(l) \/ LoadFails(l) PROVE ChatInv'
  BY <1>6, LoadingSteps, LoadedStep
<1>7. CASE CloseConversation
  BY <1>7, CloseStep
<1>8. CASE OnOpen \/ OnError \/ OnMessage
  BY <1>8, OnOpenStep, ErrorStep, OnMessageStep
<1>9. CASE UNCHANGED vars
  <2>1. UNCHANGED <<message, post, streaming, events, active, typed, shown, load, overtook, unheard, refused, unsure>>
    BY <1>9 DEF vars, server, stream, person, history
  <2>2. NothingMissed'
    BY <2>1 DEF ChatInv, NothingMissed, Untold, Coming, Elements
  <2>3. PostsGo /\ HistoryGoes /\ ListGoes /\ LoadsGo
    BY <2>1, PostsStay, HistoryStays, ListStays, LoadsStay
  <2> QED BY <2>1, <2>2, <2>3, Basics, QuietStep
<1> QED BY <1>1, <1>2, <1>3, <1>4, <1>5, <1>6, <1>7, <1>8, <1>9 DEF Next

LEMMA ChatSafe == ChatInv => TypeOK /\ ChatIsTrue
BY DEF ChatInv, ChatIsTrue

(* What the person reads is what was said, whichever of the stream, the      *)
(* answers and the loads came first, for any number of conversations and of  *)
(* POSTs and loads under way, whatever the browser keeps.                    *)
THEOREM ChatTrue == Parameters /\ Spec => [](TypeOK /\ ChatIsTrue)
<1>1. Parameters /\ Init => ChatInv
  BY ChatInit
<1>2. ChatInv /\ [Next]_vars => ChatInv'
  BY ChatNext
<1>3. ChatInv => TypeOK /\ ChatIsTrue
  BY ChatSafe
<1> QED BY <1>1, <1>2, <1>3, PTL DEF Spec
================================================================================
