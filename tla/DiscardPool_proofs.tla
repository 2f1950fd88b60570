-------------------------- MODULE DiscardPool_proofs --------------------------
(***************************************************************************)
(* What DiscardPool promises, proved for every number of frames in flight, *)
(* every monitor configuration, every capacity of the recycling ring and   *)
(* every value of the two bounds: no handle is released while the GPU uses *)
(* it, released twice or lost, and dependents go before what they need.    *)
(***************************************************************************)
EXTENDS DiscardPool, SequenceTheorems, TLAPS

(* The entries and the items of one list of the pool.                      *)
EntriesOf(s) == {s[j] : j \in DOMAIN s}
ItemsOf(s) == {s[j].item : j \in DOMAIN s}

(* appendTimeline keeps a list ordered by tag, and no item enters it twice. *)
Ordered(s) ==
  /\ \A i, j \in DOMAIN s : i < j => s[i].tag <= s[j].tag
  /\ \A i, j \in DOMAIN s : s[i].item = s[j].item => i = j

-----------------------------------------------------------------------------
(* The inductive invariant *)

(* Where the destructors are: after vkDeviceWaitIdle, after                *)
(* cleanupVulkanResources, after the set layouts, after ~CommandPools.     *)
Sweeping(then) == pc = "sweep" /\ sweep.then \in then
Ending == \/ pc \in {"cleanup", "setLayouts", "pools", "discardPool", "done"}
          \/ Sweeping({"setLayouts", "pools", "done"})
Cleaned == Ending /\ pc # "cleanup"
LayoutsGone == pc \in {"pools", "discardPool", "done"} \/ Sweeping({"pools", "done"})
PoolsGone == pc \in {"discardPool", "done"} \/ Sweeping({"done"})
Emptied == pc \in {"setLayouts", "pools", "discardPool", "done"} \/ Sweeping({"done"})

(* The bounds leave room for what the rest of the frame creates.           *)
Room ==
  /\ (pc \in {"acquire", "render", "record"} \/ Sweeping({"acquire"})) => timeline < MaxTimeline
  /\ (pc \in {"acquire", "render"} \/ Sweeping({"acquire"})) => created + 3 <= MaxItems
  /\ pc = "record" => created + 2 <= MaxItems
  /\ pc \in {"present", "resize"} => created + 1 <= MaxItems

(* The timeline is ahead of everything that is compared with it, and has   *)
(* been waited for where the code relies on it.                            *)
Clock ==
  /\ counter <= timeline
  /\ \A i \in Items : lastUse[i] <= timeline
  /\ \A f \in Frames : fences[f] <= timeline
  /\ \A i \in Items, f \in Frames : bufferUse[i][f] <= fences[f]
  /\ pc \in {"render", "record"} => fences[frameIndex] <= counter
  /\ pc = "record" => active # Null
  /\ Ending => counter = timeline
  /\ timeline = 0 => staging = Null

(* A sweep has read the semaphore before, visits the views first, and has  *)
(* left nothing expired in the lists it is done with.                      *)
SweepFacts ==
  pc = "sweep" =>
    /\ sweep.then \in {"acquire", "setLayouts", "pools", "done"}
    /\ sweep.until <= counter
    /\ Ending => sweep.until = counter
    /\ sweep.force => Ending
    /\ \A j \in DOMAIN sweep.todo : sweep.todo[j] = "imageView" => j = 1
    /\ \A k \in Kinds : (\A j \in DOMAIN sweep.todo : sweep.todo[j] # k) =>
         \A e \in EntriesOf(discarded[k]) : ~Expired(e)

(* The lists are ordered, no tag is in the future, and an item was last    *)
(* used no later than its tag says (the staging buffers are an exception). *)
Lists ==
  \A k \in Kinds :
    /\ Ordered(discarded[k])
    /\ \A e \in EntriesOf(discarded[k]) :
         e.tag <= timeline /\ (e.item # staging => lastUse[e.item] <= e.tag)

(* Item i exists as a thing of kind k, wherever it is kept.                *)
IsA(k, i) ==
  \/ i \in ItemsOf(discarded[k])
  \/ <<k, i>> \in destroyed
  \/ k = "commandPool" /\ (i \in RecycledItems \/ (i = active /\ active # Null))
  \/ k \in GenerationKinds /\ i = generation /\ generation # Null

(* An item plays one role: command pool, generation, staging or constant.  *)
Roles ==
  /\ 2 <= created /\ staging <= created /\ staging # Constant
  /\ Cleaned <=> generation = Null
  /\ \A k \in Kinds, i \in Items : IsA(k, i) =>
       /\ i <= created
       /\ k \in ConstantKinds => i \in {Constant, staging}
       /\ k \in GenerationKinds \cup {"commandPool"} => i # staging
       /\ k = "commandPool" => \A g \in GenerationKinds : ~IsA(g, i)
  /\ \A k \in Kinds : IsA(k, Constant) =>
       /\ Cleaned /\ k \in ConstantKinds \cup {"image", "imageView"}
       /\ k \in {"image", "imageView"} => LayoutsGone

(* A handle is kept in one place.                                          *)
Places ==
  /\ \A k \in Kinds : \A i \in ItemsOf(discarded[k]) : <<k, i>> \notin destroyed
  /\ \A i, j \in DOMAIN recycled : recycled[i] = recycled[j] => i = j
  /\ \A i \in RecycledItems :
       i \notin ItemsOf(discarded["commandPool"]) /\ <<"commandPool", i>> \notin destroyed
  /\ active # Null =>
       /\ active \notin ItemsOf(discarded["commandPool"]) \cup RecycledItems
       /\ <<"commandPool", active>> \notin destroyed
  /\ generation # Null => \A k \in GenerationKinds :
       generation \notin ItemsOf(discarded[k]) /\ <<k, generation>> \notin destroyed

(* Nothing is forgotten, and the destructors have emptied what they swept. *)
Accounted ==
  /\ \A i \in 1 .. created : (i = Constant /\ ~Cleaned) \/ \E k \in Kinds : IsA(k, i)
  /\ Cleaned => IsA("pipelineLayout", Constant)
  /\ Emptied => \A k \in Kinds : discarded[k] = <<>>
  /\ PoolsGone => active = Null /\ recycled = <<>>

(* The list of views holds the last of the entries of the list of images;  *)
(* the views of the others are gone.                                       *)
ViewsFirst ==
  /\ EntriesOf(discarded["imageView"]) \subseteq EntriesOf(discarded["image"])
  /\ \A i \in ItemsOf(discarded["image"]) :
       i \in ItemsOf(discarded["imageView"]) \/ <<"imageView", i>> \in destroyed
  /\ \A i \in Items : <<"image", i>> \in destroyed => <<"imageView", i>> \in destroyed

PoolInv == /\ TypeOK /\ Room /\ Clock /\ SweepFacts /\ Lists /\ Roles
           /\ Places /\ Accounted /\ ReleasedUnused /\ ViewsFirst

-----------------------------------------------------------------------------
(* Lists *)

(* The items of a list are those of its entries.                           *)
LEMMA ItemsOfEntries ==
  ASSUME NEW s, NEW i
  PROVE  i \in ItemsOf(s) <=> \E e \in EntriesOf(s) : e.item = i
BY DEF ItemsOf, EntriesOf

(* An empty list has neither.                                              *)
LEMMA EmptyList == EntriesOf(<<>>) = {} /\ ItemsOf(<<>>) = {} /\ Ordered(<<>>)
BY DEF EntriesOf, ItemsOf, Ordered

(* appendTimeline adds an entry at the end; with the youngest tag and an   *)
(* item that is not in the list it keeps the list ordered.                 *)
LEMMA AppendEntry ==
  ASSUME NEW s \in Seq(Entries), NEW e \in Entries
  PROVE  /\ Append(s, e) \in Seq(Entries)
         /\ EntriesOf(Append(s, e)) = EntriesOf(s) \cup {e}
         /\ ItemsOf(Append(s, e)) = ItemsOf(s) \cup {e.item}
         /\ Ordered(s) /\ (\A x \in EntriesOf(s) : x.tag <= e.tag) /\ e.item \notin ItemsOf(s)
              => Ordered(Append(s, e))
<1> DEFINE t == Append(s, e)
           n == Len(s)
<1>1. /\ t \in Seq(Entries) /\ n \in Nat /\ DOMAIN s = 1 .. n /\ DOMAIN t = 1 .. n + 1
      /\ \A j \in 1 .. n : t[j] = s[j]
      /\ t[n + 1] = e
  BY AppendProperties, LenProperties
<1> HIDE DEF t, n
<1>2. EntriesOf(t) = EntriesOf(s) \cup {e}
  BY <1>1 DEF EntriesOf
<1>3. ItemsOf(t) = ItemsOf(s) \cup {e.item}
  BY <1>2, ItemsOfEntries
<1>4. ASSUME Ordered(s), \A x \in EntriesOf(s) : x.tag <= e.tag, e.item \notin ItemsOf(s)
      PROVE  Ordered(t)
  <2>1. ASSUME NEW i \in DOMAIN t, NEW j \in DOMAIN t, i < j
        PROVE  t[i].tag <= t[j].tag
    BY <1>1, <1>4, <2>1 DEF Ordered, EntriesOf
  <2>2. ASSUME NEW i \in DOMAIN t, NEW j \in DOMAIN t, t[i].item = t[j].item
        PROVE  i = j
    BY <1>1, <1>4, <2>2 DEF Ordered, ItemsOf
  <2> QED BY <2>1, <2>2 DEF Ordered
<1> QED BY <1>1, <1>2, <1>3, <1>4 DEF t

(* removeOld takes the first entry away: the oldest one, and the only one  *)
(* of its item.                                                            *)
LEMMA RemoveEntry ==
  ASSUME NEW s \in Seq(Entries), s # <<>>
  PROVE  /\ Tail(s) \in Seq(Entries) /\ Head(s) \in Entries /\ Head(s) \in EntriesOf(s)
         /\ EntriesOf(s) = EntriesOf(Tail(s)) \cup {Head(s)}
         /\ ItemsOf(s) = ItemsOf(Tail(s)) \cup {Head(s).item}
         /\ Ordered(s) => /\ Ordered(Tail(s)) /\ Head(s).item \notin ItemsOf(Tail(s))
                          /\ \A e \in EntriesOf(s) : Head(s).tag <= e.tag
<1> DEFINE t == Tail(s)
           h == Head(s)
           n == Len(s)
<1>1. /\ t \in Seq(Entries) /\ h \in Entries /\ n \in Nat \ {0}
      /\ DOMAIN s = 1 .. n /\ DOMAIN t = 1 .. n - 1
      /\ \A j \in 1 .. n - 1 : t[j] = s[j + 1]
      /\ h = s[1]
  BY HeadTailProperties, LenProperties, EmptySeq
<1> HIDE DEF t, h, n
<1>2. EntriesOf(s) = EntriesOf(t) \cup {h} /\ h \in EntriesOf(s)
  <2>1. ASSUME NEW j \in 1 .. n PROVE s[j] \in EntriesOf(t) \cup {h}
    <3>1. CASE j = 1 BY <1>1, <3>1
    <3>2. CASE j # 1
      <4>1. j - 1 \in 1 .. n - 1 /\ t[j - 1] = s[j]
        BY <1>1, <3>2
      <4> QED BY <1>1, <4>1 DEF EntriesOf
    <3> QED BY <3>1, <3>2
  <2>2. EntriesOf(t) \subseteq EntriesOf(s) /\ h \in EntriesOf(s)
    BY <1>1 DEF EntriesOf
  <2>3. ASSUME NEW x \in EntriesOf(s) PROVE x \in EntriesOf(t) \cup {h}
    <3>1. PICK j \in 1 .. n : x = s[j]
      BY <1>1 DEF EntriesOf
    <3> QED BY <2>1, <3>1
  <2> QED BY <2>2, <2>3
<1>3. ItemsOf(s) = ItemsOf(t) \cup {h.item}
  BY <1>2, ItemsOfEntries
<1>4. ASSUME Ordered(s) PROVE /\ Ordered(t) /\ h.item \notin ItemsOf(t)
                              /\ \A e \in EntriesOf(s) : h.tag <= e.tag
  <2>1. Ordered(t)
    <3>1. ASSUME NEW i \in DOMAIN t, NEW j \in DOMAIN t
          PROVE  /\ i < j => t[i].tag <= t[j].tag
                 /\ t[i].item = t[j].item => i = j
      <4>1. /\ i + 1 \in DOMAIN s /\ j + 1 \in DOMAIN s /\ i \in Nat /\ j \in Nat
            /\ t[i] = s[i + 1] /\ t[j] = s[j + 1]
        BY <1>1
      <4> QED BY <1>4, <4>1 DEF Ordered
    <3> QED BY <3>1 DEF Ordered
  <2>2. ASSUME NEW j \in DOMAIN t PROVE t[j].item # h.item
    <3>1. j + 1 \in DOMAIN s /\ 1 \in DOMAIN s /\ j + 1 # 1 /\ t[j] = s[j + 1] /\ h = s[1]
      BY <1>1
    <3> QED BY <1>4, <3>1 DEF Ordered
  <2>3. ASSUME NEW j \in 1 .. n PROVE h.tag <= s[j].tag
    <3>1. CASE j = 1 BY <1>1, <3>1 DEF Entries
    <3>2. CASE j # 1 BY <1>1, <1>4, <3>2 DEF Ordered
    <3> QED BY <3>1, <3>2
  <2> QED BY <1>1, <2>1, <2>2, <2>3 DEF EntriesOf, ItemsOf
<1> QED BY <1>1, <1>2, <1>3, <1>4 DEF t, h

(* The ring of recycled command pools gives out its oldest pool.           *)
LEMMA RingGives ==
  ASSUME NEW S, NEW s \in Seq(S), s # <<>>,
         \A i, j \in DOMAIN s : s[i] = s[j] => i = j
  PROVE  /\ Tail(s) \in Seq(S) /\ Head(s) \in S
         /\ EntriesOf(s) = EntriesOf(Tail(s)) \cup {Head(s)}
         /\ Head(s) \notin EntriesOf(Tail(s))
         /\ \A i, j \in DOMAIN Tail(s) : Tail(s)[i] = Tail(s)[j] => i = j
<1> DEFINE t == Tail(s)
           n == Len(s)
<1>1. /\ t \in Seq(S) /\ Head(s) \in S /\ n \in Nat \ {0}
      /\ DOMAIN s = 1 .. n /\ DOMAIN t = 1 .. n - 1
      /\ \A j \in 1 .. n - 1 : t[j] = s[j + 1]
      /\ Head(s) = s[1]
  BY HeadTailProperties, LenProperties, EmptySeq
<1> HIDE DEF t, n
<1>2. ASSUME NEW j \in 1 .. n - 1
      PROVE  j + 1 \in DOMAIN s /\ 1 \in DOMAIN s /\ j + 1 # 1 /\ t[j] = s[j + 1]
  BY <1>1
<1>3. ASSUME NEW x \in EntriesOf(s) PROVE x \in EntriesOf(t) \cup {Head(s)}
  <2>1. PICK j \in 1 .. n : x = s[j]
    BY <1>1 DEF EntriesOf
  <2>2. CASE j = 1 BY <1>1, <2>1, <2>2
  <2>3. CASE j # 1
    <3>1. j - 1 \in 1 .. n - 1 /\ t[j - 1] = s[j]
      BY <1>1, <2>3
    <3> QED BY <1>1, <2>1, <3>1 DEF EntriesOf
  <2> QED BY <2>2, <2>3
<1>4. EntriesOf(t) \cup {Head(s)} \subseteq EntriesOf(s)
  BY <1>1, <1>2 DEF EntriesOf
<1>5. Head(s) \notin EntriesOf(t)
  BY <1>1, <1>2 DEF EntriesOf
<1>6. ASSUME NEW i \in DOMAIN t, NEW j \in DOMAIN t, t[i] = t[j] PROVE i = j
  <2>1. i + 1 = j + 1
    BY <1>1, <1>2, <1>6
  <2> QED BY <1>1, <2>1
<1> QED BY <1>1, <1>3, <1>4, <1>5, <1>6 DEF t

(* CommandPools::recycle puts a pool at the end of the ring.               *)
LEMMA RingTakes ==
  ASSUME NEW S, NEW s \in Seq(S), NEW x \in S, x \notin EntriesOf(s),
         \A i, j \in DOMAIN s : s[i] = s[j] => i = j
  PROVE  /\ Append(s, x) \in Seq(S)
         /\ EntriesOf(Append(s, x)) = EntriesOf(s) \cup {x}
         /\ \A i, j \in DOMAIN Append(s, x) : Append(s, x)[i] = Append(s, x)[j] => i = j
<1> DEFINE t == Append(s, x)
           n == Len(s)
<1>1. /\ t \in Seq(S) /\ n \in Nat /\ DOMAIN s = 1 .. n /\ DOMAIN t = 1 .. n + 1
      /\ \A j \in 1 .. n : t[j] = s[j]
      /\ t[n + 1] = x
  BY AppendProperties, LenProperties
<1> HIDE DEF t, n
<1>2. EntriesOf(t) = EntriesOf(s) \cup {x}
  BY <1>1 DEF EntriesOf
<1>3. ASSUME NEW i \in DOMAIN t, NEW j \in DOMAIN t, t[i] = t[j] PROVE i = j
  BY <1>1, <1>3 DEF EntriesOf
<1> QED BY <1>1, <1>2, <1>3 DEF t

(* DiscardPool::discard*: every list of the kinds in ks grows by the item, *)
(* tagged with the current value of the timeline.                          *)
LEMMA DiscardFacts ==
  ASSUME NEW lists \in [Kinds -> Seq(Entries)], NEW ks, NEW item \in Items,
         timeline \in 0 .. MaxTimeline
  PROVE  /\ Discard(lists, ks, item) \in [Kinds -> Seq(Entries)]
         /\ \A k \in Kinds \ ks : Discard(lists, ks, item)[k] = lists[k]
         /\ \A k \in Kinds \cap ks :
              /\ EntriesOf(Discard(lists, ks, item)[k]) =
                   EntriesOf(lists[k]) \cup {[tag |-> timeline, item |-> item]}
              /\ ItemsOf(Discard(lists, ks, item)[k]) = ItemsOf(lists[k]) \cup {item}
              /\ Ordered(lists[k]) /\ (\A e \in EntriesOf(lists[k]) : e.tag <= timeline)
                   /\ item \notin ItemsOf(lists[k]) => Ordered(Discard(lists, ks, item)[k])
<1> DEFINE e == [tag |-> timeline, item |-> item]
           D == Discard(lists, ks, item)
<1>1. e \in Entries /\ e.tag = timeline /\ e.item = item
  BY DEF Entries
<1>2. D = [k \in Kinds |-> IF k \in ks THEN Append(lists[k], e) ELSE lists[k]]
  BY DEF Discard, Tag
<1> HIDE DEF e, D
<1>3. \A k \in Kinds : Append(lists[k], e) \in Seq(Entries)
  BY <1>1, AppendEntry
<1>4. D \in [Kinds -> Seq(Entries)]
  BY <1>2, <1>3
<1>5. ASSUME NEW k \in Kinds \cap ks
      PROVE  /\ EntriesOf(D[k]) = EntriesOf(lists[k]) \cup {e}
             /\ ItemsOf(D[k]) = ItemsOf(lists[k]) \cup {item}
             /\ Ordered(lists[k]) /\ (\A x \in EntriesOf(lists[k]) : x.tag <= timeline)
                  /\ item \notin ItemsOf(lists[k]) => Ordered(D[k])
  <2>1. D[k] = Append(lists[k], e)
    BY <1>2
  <2> QED BY <1>1, <2>1, AppendEntry
<1> QED BY <1>2, <1>4, <1>5 DEF D, e

(* destroyDiscardedResources visits every list, the views first.           *)
LEMMA SweepOrderFacts ==
  /\ SweepOrder \in Seq(Kinds)
  /\ \A k \in Kinds : \E j \in DOMAIN SweepOrder : SweepOrder[j] = k
  /\ \A j \in DOMAIN SweepOrder : SweepOrder[j] = "imageView" => j = 1
<1>1. /\ SweepOrder \in Seq(Kinds) /\ DOMAIN SweepOrder = 1 .. 9
      /\ SweepOrder[1] = "imageView" /\ SweepOrder[2] = "image" /\ SweepOrder[3] = "buffer"
      /\ SweepOrder[4] = "pipeline" /\ SweepOrder[5] = "pipelineLayout"
      /\ SweepOrder[6] = "shaderModule" /\ SweepOrder[7] = "commandPool"
      /\ SweepOrder[8] = "renderPass" /\ SweepOrder[9] = "framebuffer"
  BY DEF SweepOrder, Kinds, GenerationKinds, ConstantKinds
<1> HIDE DEF SweepOrder
<1>2. \A k \in Kinds : \E j \in DOMAIN SweepOrder : SweepOrder[j] = k
  BY <1>1 DEF Kinds, GenerationKinds, ConstantKinds
<1>3. \A j \in DOMAIN SweepOrder : SweepOrder[j] = "imageView" => j = 1
  BY <1>1
<1> QED BY <1>1, <1>2, <1>3

-----------------------------------------------------------------------------
(* Steps *)

(* A step that moves no handle and uses none keeps what is said of them.   *)
LEMMA HandlesStay ==
  ASSUME TypeOK, Lists, Roles, Places, ReleasedUnused, ViewsFirst,
         UNCHANGED <<timeline, discarded, created, generation, active, recycled, staging,
                     destroyed, lastUse>>,
         counter <= counter', counter' \in Nat,
         Cleaned' <=> Cleaned, LayoutsGone' <=> LayoutsGone
  PROVE  /\ Lists' /\ Roles' /\ Places' /\ ReleasedUnused' /\ ViewsFirst'
         /\ \A k \in Kinds, i \in Items : IsA(k, i)' <=> IsA(k, i)
<1>1. \A k, i : IsA(k, i)' <=> IsA(k, i)
  BY DEF IsA, RecycledItems
<1>2. Lists'
  BY DEF Lists
<1>3. Roles'
  BY <1>1 DEF Roles
<1>4. Places'
  BY DEF Places, RecycledItems
<1>5. ReleasedUnused'
  <2>1. \A i \in Items : lastUse[i] \in Nat
    BY DEF TypeOK
  <2>2. /\ \A o \in destroyed : o[2] \in Items
        /\ RecycledItems \subseteq Items
    BY DEF TypeOK, Objects, RecycledItems
  <2>3. counter \in Nat
    BY DEF TypeOK
  <2> QED BY <2>1, <2>2, <2>3 DEF ReleasedUnused, RecycledItems
<1>6. ViewsFirst'
  BY DEF ViewsFirst
<1> QED BY <1>1, <1>2, <1>3, <1>4, <1>5, <1>6

(* Every reachable state of the discard pool and of what feeds it.         *)
THEOREM PoolInvariant == Spec => []PoolInv
<1> USE DiscardPoolAssumption DEF Null, Constant
<1>1. Init => PoolInv
  <2> SUFFICES ASSUME Init PROVE PoolInv
    OBVIOUS
  <2> USE DEF Init
  <2>1. TypeOK
    BY EmptySeq DEF TypeOK, PCs, Items, Frames, Entries
  <2>2. \A k \in Kinds : discarded[k] = <<>>
    OBVIOUS
  <2>3. ~Ending /\ ~LayoutsGone /\ ~PoolsGone /\ ~Emptied /\ ~Cleaned
    BY DEF Ending, LayoutsGone, PoolsGone, Emptied, Cleaned, Sweeping
  <2>4. RecycledItems = {}
    BY DEF RecycledItems
  <2>5. \A k \in Kinds, i \in Items : IsA(k, i) <=> k \in GenerationKinds /\ i = 2
    BY <2>2, <2>4, EmptyList DEF IsA, GenerationKinds
  <2>6. Room /\ Clock /\ SweepFacts
    BY <2>3 DEF Room, Clock, SweepFacts, Sweeping, Items, Frames
  <2>7. Lists
    BY <2>2, EmptyList DEF Lists
  <2>8. Roles
    BY <2>3, <2>5
    DEF Roles, Items, GenerationKinds, ConstantKinds, Kinds
  <2>9. Places
    BY <2>2, <2>4, EmptyList DEF Places, Kinds, GenerationKinds
  <2>10. Accounted
    <3>1. IsA("image", 2) /\ "image" \in Kinds
      BY <2>5 DEF Kinds, GenerationKinds, Items
    <3> QED BY <2>3, <3>1 DEF Accounted
  <2>11. ReleasedUnused
    BY <2>4 DEF ReleasedUnused
  <2>12. ViewsFirst
    BY <2>2, EmptyList DEF ViewsFirst, Kinds, GenerationKinds
  <2> QED BY <2>1, <2>6, <2>7, <2>8, <2>9, <2>10, <2>11, <2>12 DEF PoolInv
<1>2. PoolInv /\ [Next]_vars => PoolInv'
  <2> SUFFICES ASSUME PoolInv, [Next]_vars PROVE PoolInv'
    OBVIOUS
  <2>1. TypeOK /\ Room /\ Clock /\ SweepFacts /\ Lists /\ Roles /\ Places /\ Accounted
        /\ ReleasedUnused /\ ViewsFirst
    BY DEF PoolInv
  <2>2. /\ counter \in Nat /\ timeline \in Nat /\ counter <= MaxTimeline
        /\ timeline <= MaxTimeline /\ fences \in [Frames -> 0 .. MaxTimeline]
        /\ sweep.until \in Nat /\ frameIndex \in Frames /\ frameCounter \in Nat
        /\ sweep.todo \in Seq(Kinds) /\ sweep.then \in PCs /\ sweep.force \in BOOLEAN
        /\ recycled \in Seq(Items) /\ created \in Nat /\ created <= MaxItems
    <3>1. counter \in 0 .. MaxTimeline /\ timeline \in 0 .. MaxTimeline
      BY <2>1 DEF TypeOK
    <3>2. created \in 0 .. MaxItems
      BY <2>1 DEF TypeOK, Items
    <3> QED BY <2>1, <3>1, <3>2 DEF TypeOK
  \* steps that move no handle
  <2>3. ASSUME UNCHANGED <<timeline, discarded, created, generation, active, recycled, staging,
                           destroyed, lastUse, bufferUse, fences, frameIndex>>,
               counter <= counter', counter' \in Nat,
               Cleaned' <=> Cleaned, LayoutsGone' <=> LayoutsGone, PoolsGone' <=> PoolsGone,
               Emptied' => Emptied \/ \A k \in Kinds : discarded[k] = <<>>,
               TypeOK', Room', Clock', SweepFacts'
        PROVE  PoolInv'
    <3>1. /\ Lists' /\ Roles' /\ Places' /\ ReleasedUnused' /\ ViewsFirst'
          /\ \A k \in Kinds, i \in Items : IsA(k, i)' <=> IsA(k, i)
      BY <2>1, <2>3, HandlesStay
    <3>2. Accounted'
      <4>1. 1 .. created \subseteq Items /\ 1 \in Items /\ "pipelineLayout" \in Kinds
        BY <2>2 DEF Items, Kinds, ConstantKinds
      <4> QED BY <2>1, <2>3, <3>1, <4>1 DEF Accounted
    <3> QED BY <2>3, <3>1, <3>2 DEF PoolInv
  <2>4. CASE Complete
    <3> USE DEF Complete, frameVars, poolVars, useVars, Sweeping, Ending, Cleaned, LayoutsGone,
                PoolsGone, Emptied
    <3>1. counter' = counter + 1 /\ counter' <= timeline /\ ~Ending
      BY <2>1, <2>2, <2>4 DEF Clock
    <3>2. TypeOK'
      <4>1. counter' \in 0 .. MaxTimeline
        BY <2>2, <3>1
      <4> QED BY <2>1, <2>4, <4>1 DEF TypeOK
    <3>3. Room'
      BY <2>1, <2>4 DEF Room
    <3>4. Clock'
      BY <2>1, <2>2, <2>4, <3>1 DEF Clock, TypeOK
    <3>5. SweepFacts'
      BY <2>1, <2>2, <2>4, <3>1 DEF SweepFacts, Expired
    <3> QED BY <2>2, <2>3, <2>4, <3>1, <3>2, <3>3, <3>4, <3>5
  \* a sweep starts: the semaphore is read once, before the first list
  <2>5. ASSUME NEW force \in BOOLEAN, NEW then \in {"acquire", "setLayouts", "pools", "done"},
               BeginSweep(force, then), counter' = counter, timeline' = timeline,
               force => Ending', Ending' => counter = timeline
        PROVE  SweepFacts' /\ sweep' \in [until : 0 .. MaxTimeline, force : BOOLEAN,
                                          todo : Seq(Kinds), then : PCs]
    <3>1. /\ sweep' = [until |-> counter, force |-> force, todo |-> SweepOrder, then |-> then]
          /\ pc' = "sweep" /\ counter \in 0 .. MaxTimeline
      BY <2>2, <2>5 DEF BeginSweep
    <3>2. sweep'.todo = SweepOrder /\ sweep'.until = counter /\ sweep'.force = force
          /\ sweep'.then = then
      BY <3>1
    <3>3. SweepFacts'
      BY <2>2, <2>5, <3>1, <3>2, SweepOrderFacts DEF SweepFacts
    <3> QED BY <3>1, <3>3, SweepOrderFacts DEF PCs
  <2>6. CASE OnFrame
    <3> USE DEF OnFrame, gpuVars, frameVars, poolVars, useVars, Sweeping, Ending, Cleaned,
                LayoutsGone, PoolsGone, Emptied
    <3>1. CASE BeginSweep(FALSE, "acquire")
      <4>1. sweep'.then = "acquire" /\ pc' = "sweep" /\ frameCounter' \in Nat
        BY <2>2, <2>6, <3>1 DEF BeginSweep
      <4>2. SweepFacts' /\ sweep' \in [until : 0 .. MaxTimeline, force : BOOLEAN,
                                       todo : Seq(Kinds), then : PCs]
        BY <2>5, <2>6, <3>1, <4>1
      <4>3. TypeOK'
        BY <2>1, <2>6, <4>1, <4>2 DEF TypeOK, PCs
      <4>4. Room' /\ Clock'
        BY <2>1, <2>6, <4>1 DEF Room, Clock
      <4> QED BY <2>2, <2>3, <2>6, <4>1, <4>2, <4>3, <4>4
    <3>2. CASE pc' = "acquire" /\ UNCHANGED sweep
      <4>1. frameCounter' \in Nat
        BY <2>2, <2>6
      <4>2. TypeOK'
        BY <2>1, <2>6, <3>2, <4>1 DEF TypeOK, PCs
      <4>3. Room' /\ Clock' /\ SweepFacts'
        BY <2>1, <2>6, <3>2 DEF Room, Clock, SweepFacts
      <4> QED BY <2>2, <2>3, <2>6, <3>2, <4>2, <4>3
    <3> QED BY <2>6, <3>1, <3>2
  <2>7. ASSUME pc = "sweep", sweep.todo # <<>>, KeepRest(Head(sweep.todo)),
               UNCHANGED <<gpuVars, frameVars, frameCounter, created, generation, active, useVars>>
        PROVE  PoolInv'
    <3> USE DEF KeepRest, gpuVars, frameVars, poolVars, useVars, Sweeping, Ending, Cleaned,
                LayoutsGone, PoolsGone, Emptied
    <3> DEFINE kind == Head(sweep.todo)
               rest == Tail(sweep.todo)
               n == Len(sweep.todo)
    <3>1. sweep' = [sweep EXCEPT !.todo = rest] /\ UNCHANGED pc
      BY <2>7
    <3>2. /\ rest \in Seq(Kinds) /\ kind \in Kinds /\ n \in Nat \ {0}
          /\ DOMAIN sweep.todo = 1 .. n /\ DOMAIN rest = 1 .. n - 1
          /\ \A j \in 1 .. n - 1 : rest[j] = sweep.todo[j + 1]
          /\ kind = sweep.todo[1]
      BY <2>2, <2>7, HeadTailProperties, LenProperties, EmptySeq
    <3> HIDE DEF rest, kind, n
    <3>3. TypeOK'
      BY <2>1, <2>7, <3>1, <3>2 DEF TypeOK
    <3>4. /\ sweep'.todo = rest /\ sweep'.then = sweep.then /\ sweep'.until = sweep.until
          /\ sweep'.force = sweep.force
      BY <2>1, <3>1 DEF TypeOK
    <3>5. Room' /\ Clock'
      BY <2>1, <2>7, <3>1, <3>4 DEF Room, Clock
    <3>6. ASSUME NEW k \in Kinds, \A j \in DOMAIN rest : rest[j] # k
          PROVE  \A e \in EntriesOf(discarded[k]) : ~Expired(e)
      <4>1. CASE k = kind
        <5>1. CASE discarded[k] = <<>>
          BY <5>1, EmptyList
        <5>2. CASE discarded[k] # <<>>
          <6>1. ~Expired(Head(discarded[k])) /\ discarded[k] \in Seq(Entries)
            BY <2>1, <2>7, <4>1, <5>2 DEF kind, TypeOK
          <6>2. \A e \in EntriesOf(discarded[k]) : Head(discarded[k]).tag <= e.tag
            BY <2>1, <5>2, <6>1, RemoveEntry DEF Lists
          <6>3. /\ \A e \in EntriesOf(discarded[k]) : e \in Entries
                /\ Head(discarded[k]) \in Entries
            BY <5>2, <6>1, RemoveEntry, LenProperties, ElementOfSeq DEF EntriesOf
          <6> QED BY <2>2, <6>1, <6>2, <6>3 DEF Expired, Entries
        <5> QED BY <5>1, <5>2
      <4>2. CASE k # kind
        <5>1. \A j \in DOMAIN sweep.todo : sweep.todo[j] # k
          <6>1. ASSUME NEW j \in 1 .. n, j # 1 PROVE sweep.todo[j] # k
            <7>1. j - 1 \in 1 .. n - 1 /\ rest[j - 1] = sweep.todo[j]
              BY <3>2, <6>1
            <7> QED BY <3>2, <3>6, <7>1
          <6> QED BY <3>2, <4>2, <6>1
        <5> QED BY <2>1, <2>7, <5>1 DEF SweepFacts
      <4> QED BY <4>1, <4>2
    <3>7. \A j \in DOMAIN rest : rest[j] # "imageView"
      <4> SUFFICES ASSUME NEW j \in 1 .. n - 1 PROVE rest[j] # "imageView"
        BY <3>2
      <4>1. j + 1 \in 1 .. n /\ j + 1 # 1 /\ rest[j] = sweep.todo[j + 1]
        BY <3>2
      <4> QED BY <2>1, <2>7, <3>2, <4>1 DEF SweepFacts
    <3>8. SweepFacts'
      BY <2>1, <2>7, <3>1, <3>4, <3>6, <3>7 DEF SweepFacts, Expired
    <3> QED BY <2>2, <2>3, <2>7, <3>1, <3>3, <3>4, <3>5, <3>8
  \* a sweep ends: the destructors leave nothing behind that had expired
  <2>8. ASSUME pc = "sweep", EndSweep,
               UNCHANGED <<gpuVars, frameVars, frameCounter, created, generation, active, useVars>>
        PROVE  PoolInv'
    <3> USE DEF EndSweep, gpuVars, frameVars, poolVars, useVars, Sweeping, Ending, Cleaned,
                LayoutsGone, PoolsGone, Emptied
    <3>1. pc' = sweep.then /\ sweep.then \in {"acquire", "setLayouts", "pools", "done"}
      BY <2>1, <2>8 DEF SweepFacts
    <3>2. TypeOK'
      BY <2>1, <2>8, <3>1 DEF TypeOK, PCs
    <3>3. Room' /\ Clock' /\ SweepFacts'
      BY <2>1, <2>8, <3>1 DEF Room, Clock, SweepFacts
    <3>4. ASSUME Ending, NEW k \in Kinds PROVE discarded[k] = <<>>
      <4>1. \A e \in EntriesOf(discarded[k]) : ~Expired(e) /\ e.tag <= timeline
        <5>1. DOMAIN sweep.todo = {}
          BY <2>8
        <5> QED BY <2>1, <2>8, <5>1 DEF SweepFacts, Lists
      <4>2. sweep.until = timeline
        BY <2>1, <2>8, <3>4 DEF SweepFacts, Clock
      <4>3. discarded[k] \in Seq(Entries)
        BY <2>1 DEF TypeOK
      <4>4. ASSUME discarded[k] # <<>> PROVE FALSE
        <5>1. Head(discarded[k]) \in EntriesOf(discarded[k]) /\ Head(discarded[k]) \in Entries
          BY <4>3, <4>4, RemoveEntry
        <5> QED BY <2>2, <4>1, <4>2, <5>1 DEF Expired, Entries
      <4> QED BY <4>4
    <3> QED BY <2>2, <2>3, <2>8, <3>1, <3>2, <3>3, <3>4
  <2>9. CASE Acquire
    <3> USE DEF Acquire, gpuVars, frameVars, poolVars, useVars, Sweeping, Ending, Cleaned,
                LayoutsGone, PoolsGone, Emptied
    <3>1. TypeOK'
      BY <2>1, <2>9 DEF TypeOK, PCs
    <3>2. Room' /\ SweepFacts'
      BY <2>1, <2>2, <2>9 DEF Room, SweepFacts
    <3>3. Clock'
      BY <2>1, <2>9 DEF Clock, FenceSignalled
    <3> QED BY <2>2, <2>3, <2>9, <3>1, <3>2, <3>3
  <2>10. CASE Present \/ Destruct
    <3> USE DEF Present, Destruct, gpuVars, frameVars, poolVars, useVars, Sweeping, Ending, Cleaned,
                LayoutsGone, PoolsGone, Emptied
    <3>1. TypeOK'
      BY <2>1, <2>10 DEF TypeOK, PCs
    <3>2. Room' /\ SweepFacts' /\ Clock'
      BY <2>1, <2>10 DEF Room, SweepFacts, Clock
    <3> QED BY <2>2, <2>3, <2>10, <3>1, <3>2
  <2>11. CASE WaitIdle
    <3> USE DEF WaitIdle, gpuVars, frameVars, poolVars, useVars, Sweeping, Ending, Cleaned,
                LayoutsGone, PoolsGone, Emptied
    <3>1. TypeOK'
      BY <2>1, <2>11 DEF TypeOK, PCs
    <3>2. Room' /\ SweepFacts' /\ Clock'
      BY <2>1, <2>11 DEF Room, SweepFacts, Clock, Idle
    <3> QED BY <2>2, <2>3, <2>11, <3>1, <3>2
  <2>12. CASE DestroyDiscardPool
    <3> USE DEF DestroyDiscardPool, gpuVars, frameVars, poolVars, useVars, Sweeping, Ending, Cleaned,
                LayoutsGone, PoolsGone, Emptied
    <3>1. sweep'.then = "done" /\ pc' = "sweep"
      BY <2>12 DEF BeginSweep
    <3>2. SweepFacts' /\ sweep' \in [until : 0 .. MaxTimeline, force : BOOLEAN,
                                     todo : Seq(Kinds), then : PCs]
      BY <2>1, <2>5, <2>12, <3>1 DEF Clock
    <3>3. TypeOK'
      BY <2>1, <2>12, <3>1, <3>2 DEF TypeOK, PCs
    <3>4. Room' /\ Clock'
      BY <2>1, <2>12, <3>1 DEF Room, Clock
    <3> QED BY <2>2, <2>3, <2>12, <3>1, <3>2, <3>3, <3>4
  <2>13. CASE UNCHANGED vars
    <3> USE DEF vars, Sweeping, Ending, Cleaned, LayoutsGone, PoolsGone, Emptied
    <3>1. TypeOK' /\ Room' /\ Clock' /\ SweepFacts'
      BY <2>1, <2>13 DEF TypeOK, Room, Clock, SweepFacts, Expired
    <3> QED BY <2>2, <2>3, <2>13, <3>1
  \* a pool to record in: the one in use, a recycled one or a new one
  <2>14. CASE AllocatePrimary
    <3> USE DEF AllocatePrimary, gpuVars, frameVars, poolVars, useVars, Sweeping, Ending, Cleaned,
                LayoutsGone, PoolsGone, Emptied
    <3>1. pc = "render" /\ pc' = "record" /\ SweepFacts'
      BY <2>14 DEF SweepFacts
    <3>2. RecycledItems = EntriesOf(recycled) /\ RecycledItems' = EntriesOf(recycled')
      BY DEF RecycledItems, EntriesOf
    <3>3. CASE active # Null
      <4>1. UNCHANGED <<active, recycled, created>>
        BY <2>14, <3>3
      <4>2. TypeOK'
        BY <2>1, <2>14, <4>1 DEF TypeOK, PCs
      <4>3. Room' /\ Clock'
        BY <2>1, <2>2, <2>14, <3>3, <4>1 DEF Room, Clock
      <4> QED BY <2>2, <2>3, <2>14, <3>1, <4>1, <4>2, <4>3
    <3>4. CASE active = Null /\ recycled # <<>>
      <4>1. active' = Head(recycled) /\ recycled' = Tail(recycled) /\ UNCHANGED created
        BY <2>14, <3>4
      <4>2. /\ recycled' \in Seq(Items) /\ active' \in Items
            /\ RecycledItems = RecycledItems' \cup {active'} /\ active' \notin RecycledItems'
            /\ \A i, j \in DOMAIN recycled' : recycled'[i] = recycled'[j] => i = j
        BY <2>1, <2>2, <3>2, <3>4, <4>1, RingGives DEF Places
      <4>3. TypeOK'
        <5>1. {created', generation', active', staging'} \subseteq Items \cup {Null}
          BY <2>1, <2>14, <4>1, <4>2 DEF TypeOK
        <5> QED BY <2>1, <2>14, <4>2, <5>1 DEF TypeOK, PCs
      <4>4. Room' /\ Clock'
        BY <2>1, <2>2, <2>14, <4>1, <4>2 DEF Room, Clock, Items
      <4>5. \A k \in Kinds, i \in Items : IsA(k, i)' <=> IsA(k, i)
        BY <2>14, <3>4, <4>1, <4>2 DEF IsA, Items
      <4>6. Lists' /\ ViewsFirst'
        BY <2>1, <2>14, <4>1 DEF Lists, ViewsFirst
      <4>7. Roles'
        <5>1. GenerationKinds \subseteq Kinds /\ 1 \in Items
          BY <2>2 DEF Kinds, Items
        <5> QED BY <2>1, <2>14, <4>1, <4>5, <5>1 DEF Roles
      <4>8. Places'
        BY <2>1, <2>14, <3>4, <4>1, <4>2 DEF Places
      <4>9. Accounted'
        <5>1. \A i \in 1 .. created : i \in Items
          BY <2>2 DEF Items
        <5> QED BY <2>1, <2>14, <4>1, <4>5, <5>1 DEF Accounted
      <4>10. ReleasedUnused'
        BY <2>1, <2>14, <4>1, <4>2 DEF ReleasedUnused
      <4> QED BY <3>1, <4>3, <4>4, <4>6, <4>7, <4>8, <4>9, <4>10 DEF PoolInv
    <3>5. CASE active = Null /\ recycled = <<>>
      <4>1. active' = created + 1 /\ created' = created + 1 /\ UNCHANGED recycled
        BY <2>14, <3>5
      <4>2. active' \in Items /\ RecycledItems' = RecycledItems /\ 2 <= created
        BY <2>1, <2>2, <3>1, <3>2, <4>1 DEF Room, Items, Roles
      <4>3. TypeOK'
        BY <2>1, <2>14, <4>1, <4>2 DEF TypeOK, PCs
      <4>4. Room' /\ Clock'
        BY <2>1, <2>2, <2>14, <4>1, <4>2 DEF Room, Clock, Items
      <4>5. \A k \in Kinds, i \in Items :
              IsA(k, i)' <=> IsA(k, i) \/ (k = "commandPool" /\ i = created + 1)
        BY <2>14, <3>5, <4>1, <4>2 DEF IsA, Items
      <4>6. \A k \in Kinds, i \in Items : IsA(k, i) => i <= created
        BY <2>1 DEF Roles
      <4>7. Lists' /\ ViewsFirst'
        BY <2>1, <2>14, <4>1 DEF Lists, ViewsFirst
      <4>8. Roles'
        <5>1. GenerationKinds \subseteq Kinds /\ 1 \in Items /\ created \in Nat
              /\ "commandPool" \notin GenerationKinds \cup ConstantKinds
              /\ staging \in Int
          BY <2>1, <2>2 DEF Kinds, GenerationKinds, ConstantKinds, Items, TypeOK
        <5>2. ~IsA("commandPool", Constant)' /\ \A k \in Kinds : IsA(k, Constant)' <=> IsA(k, Constant)
          BY <2>1, <4>2, <4>5, <5>1 DEF Roles, Kinds
        <5>3. ASSUME NEW k \in Kinds, NEW i \in Items, IsA(k, i)'
              PROVE  /\ i <= created'
                     /\ k \in ConstantKinds => i \in {Constant, staging'}
                     /\ k \in GenerationKinds \cup {"commandPool"} => i # staging'
                     /\ k = "commandPool" => \A g \in GenerationKinds : ~IsA(g, i)'
          <6>1. CASE IsA(k, i)
            <7>1. i <= created /\ i # created + 1 /\ UNCHANGED staging
              BY <2>2, <2>14, <4>6, <6>1 DEF Items
            <7> QED BY <2>1, <2>2, <4>1, <4>5, <5>1, <6>1, <7>1 DEF Roles, Items
          <6>2. CASE k = "commandPool" /\ i = created + 1
            <7>1. \A g \in GenerationKinds : ~IsA(g, i)
              BY <2>2, <4>6, <5>1, <6>2
            <7> QED BY <2>1, <2>2, <2>14, <4>1, <4>5, <5>1, <6>2, <7>1 DEF Roles
          <6> QED BY <4>5, <5>3, <6>1, <6>2
        <5>4. 2 <= created' /\ staging' <= created' /\ staging' # Constant
              /\ (Cleaned' <=> generation' = Null)
          BY <2>1, <2>2, <2>14, <4>1, <5>1 DEF Roles
        <5>5. \A k \in Kinds : IsA(k, Constant)' =>
                /\ Cleaned' /\ k \in ConstantKinds \cup {"image", "imageView"}
                /\ k \in {"image", "imageView"} => LayoutsGone'
          BY <2>1, <2>14, <5>2 DEF Roles
        <5> QED BY <5>3, <5>4, <5>5 DEF Roles
      <4>9. Places'
        <5>1. /\ created + 1 \notin ItemsOf(discarded["commandPool"]) \cup RecycledItems
              /\ <<"commandPool", created + 1>> \notin destroyed
          <6>1. "commandPool" \in Kinds /\ created + 1 \in Items
            BY <4>1, <4>2 DEF Kinds
          <6>2. ~IsA("commandPool", created + 1)
            <7>1. ~(created + 1 <= created)
              BY <2>2
            <7> QED BY <4>6, <6>1, <7>1
          <6> QED BY <6>2 DEF IsA
        <5> QED BY <2>1, <2>14, <4>1, <4>2, <5>1 DEF Places
      <4>10. Accounted'
        <5>1. 1 .. created' \subseteq Items /\ "commandPool" \in Kinds /\ "pipelineLayout" \in Kinds
              /\ 1 .. created' = 1 .. created \cup {created + 1}
          BY <2>2, <4>1, <4>2 DEF Items, Kinds, ConstantKinds
        <5> QED BY <2>1, <2>2, <2>14, <4>1, <4>5, <5>1 DEF Accounted
      <4>11. ReleasedUnused'
        BY <2>1, <2>14, <4>1, <4>2 DEF ReleasedUnused
      <4> QED BY <3>1, <4>3, <4>4, <4>7, <4>8, <4>9, <4>10, <4>11 DEF PoolInv
    <3> QED BY <3>3, <3>4, <3>5
  \* an expired item goes, or a command pool goes back to its ring
  <2>15. ASSUME pc = "sweep", sweep.todo # <<>>, RemoveOld(Head(sweep.todo)),
                UNCHANGED <<gpuVars, frameVars, frameCounter, created, generation, active, useVars>>
         PROVE  PoolInv'
    <3> USE DEF gpuVars, frameVars, poolVars, useVars, Sweeping, Ending, Cleaned,
                LayoutsGone, PoolsGone, Emptied
    <3> DEFINE kind == Head(sweep.todo)
               h == Head(discarded[kind])
               item == h.item
               rest == Tail(discarded[kind])
               kept == kind = "commandPool" /\ Len(recycled) + 1 < SpscCapacity
    <3>1. /\ discarded[kind] # <<>> /\ Expired(h)
          /\ discarded' = [discarded EXCEPT ![kind] = rest]
          /\ recycled' = IF kept THEN Append(recycled, item) ELSE recycled
          /\ destroyed' = IF kept THEN destroyed ELSE destroyed \cup {<<kind, item>>}
          /\ UNCHANGED <<pc, sweep>>
      BY <2>15 DEF RemoveOld
    <3>2. kind \in Kinds /\ kind = sweep.todo[1] /\ 1 \in DOMAIN sweep.todo
      BY <2>2, <2>15, HeadTailProperties, LenProperties, EmptySeq
    <3> HIDE DEF kind
    <3>3. discarded[kind] \in Seq(Entries) /\ Ordered(discarded[kind])
      BY <2>1, <3>2 DEF TypeOK, Lists
    <3>4. /\ rest \in Seq(Entries) /\ h \in Entries /\ h \in EntriesOf(discarded[kind])
          /\ EntriesOf(discarded[kind]) = EntriesOf(rest) \cup {h}
          /\ ItemsOf(discarded[kind]) = ItemsOf(rest) \cup {item}
          /\ Ordered(rest) /\ item \notin ItemsOf(rest)
      BY <3>1, <3>3, RemoveEntry
    <3> HIDE DEF h, rest
    <3>5. item \in Items /\ h.tag \in 0 .. MaxTimeline
      BY <3>4 DEF Entries
    <3>6. RecycledItems = EntriesOf(recycled) /\ RecycledItems' = EntriesOf(recycled')
      BY DEF RecycledItems, EntriesOf
    <3>7. kind = "commandPool" =>
            item \notin RecycledItems /\ (active # Null => active # item)
      BY <2>1, <3>4 DEF Places
    <3>8. /\ recycled' \in Seq(Items)
          /\ RecycledItems' = IF kept THEN RecycledItems \cup {item} ELSE RecycledItems
          /\ \A i, j \in DOMAIN recycled' : recycled'[i] = recycled'[j] => i = j
      <4>1. CASE kept
        <5>1. recycled' = Append(recycled, item) /\ item \notin EntriesOf(recycled)
          BY <3>1, <3>6, <3>7, <4>1
        <5>2. \A i, j \in DOMAIN recycled : recycled[i] = recycled[j] => i = j
          BY <2>1 DEF Places
        <5> HIDE DEF item, kept
        <5>3. /\ Append(recycled, item) \in Seq(Items)
              /\ EntriesOf(Append(recycled, item)) = EntriesOf(recycled) \cup {item}
              /\ \A i, j \in DOMAIN Append(recycled, item) :
                   Append(recycled, item)[i] = Append(recycled, item)[j] => i = j
          BY <2>2, <3>5, <5>1, <5>2, RingTakes
        <5> QED BY <3>6, <4>1, <5>1, <5>3
      <4>2. CASE ~kept
        <5>1. recycled' = recycled
          BY <3>1, <4>2
        <5> QED BY <2>1, <2>2, <3>6, <4>2, <5>1 DEF Places
      <4> QED BY <4>1, <4>2
    <3>9. /\ discarded' \in [Kinds -> Seq(Entries)] /\ discarded'[kind] = rest
          /\ \A k \in Kinds : k # kind => discarded'[k] = discarded[k]
      BY <2>1, <3>1, <3>2, <3>4 DEF TypeOK
    <3>10. destroyed' = IF kept THEN destroyed ELSE destroyed \cup {<<kind, item>>}
      BY <3>1
    <3>11. kept => kind = "commandPool"
      OBVIOUS
    <3> HIDE DEF item, kept
    <3>12. TypeOK'
      <4>1. destroyed' \subseteq Objects
        BY <2>1, <3>2, <3>5, <3>10 DEF TypeOK, Objects
      <4>2. UNCHANGED <<pc, counter, timeline, frameIndex, fences, frameCounter, sweep, created,
                        generation, active, staging, lastUse, bufferUse>>
        BY <2>15, <3>1
      <4> QED BY <2>1, <3>8, <3>9, <4>1, <4>2 DEF TypeOK
    <3>13. Room' /\ Clock'
      BY <2>1, <2>15, <3>1 DEF Room, Clock
    <3>14. \A k \in Kinds : EntriesOf(discarded'[k]) \subseteq EntriesOf(discarded[k])
      BY <3>4, <3>9
    <3>15. SweepFacts'
      BY <2>1, <2>15, <3>1, <3>14 DEF SweepFacts, Expired
    <3>16. Lists'
      BY <2>1, <2>15, <3>4, <3>9, <3>14 DEF Lists
    <3>17. \A k \in Kinds, i \in Items : IsA(k, i)' <=> IsA(k, i)
      <4> SUFFICES ASSUME NEW k \in Kinds, NEW i \in Items PROVE IsA(k, i)' <=> IsA(k, i)
        OBVIOUS
      <4>1. i \in ItemsOf(discarded'[k]) \/ (k = kind /\ i = item) <=> i \in ItemsOf(discarded[k])
        BY <3>4, <3>9 DEF item
      <4>2. <<k, i>> \in destroyed' <=> \/ <<k, i>> \in destroyed
                                        \/ k = kind /\ i = item /\ ~kept
        BY <3>10
      <4>3. i \in RecycledItems' <=> i \in RecycledItems \/ (i = item /\ kept)
        BY <3>8
      <4> QED BY <2>15, <3>11, <4>1, <4>2, <4>3 DEF IsA
    <3>18. ~PoolsGone /\ ~Emptied
      BY <2>1, <2>15, <3>1, <3>2 DEF Accounted
    <3>19. Roles'
      <4>1. GenerationKinds \subseteq Kinds /\ 1 \in Items
        BY <2>2 DEF Kinds, Items
      <4> QED BY <2>1, <2>15, <3>1, <3>17, <4>1 DEF Roles
    <3>20. Accounted'
      <4>1. 1 .. created \subseteq Items /\ 1 \in Items /\ "pipelineLayout" \in Kinds
        BY <2>2 DEF Items, Kinds, ConstantKinds
      <4> QED BY <2>1, <2>15, <3>1, <3>17, <3>18, <4>1 DEF Accounted
    <3>21. Places'
      <4>1. \A k \in Kinds : ItemsOf(discarded'[k]) \subseteq ItemsOf(discarded[k])
        BY <3>4, <3>9 DEF item
      <4>2. \A k \in Kinds : \A i \in ItemsOf(discarded'[k]) : <<k, i>> \notin destroyed'
        BY <2>1, <3>4, <3>9, <3>10, <4>1 DEF Places, item
      <4>3. \A i \in RecycledItems' : /\ i \notin ItemsOf(discarded'["commandPool"])
                                      /\ <<"commandPool", i>> \notin destroyed'
        <5>1. "commandPool" \in Kinds
          BY DEF Kinds
        <5>2. \A i \in RecycledItems : /\ i \notin ItemsOf(discarded'["commandPool"])
                                       /\ <<"commandPool", i>> \notin destroyed'
          BY <2>1, <3>7, <3>10, <4>1, <5>1 DEF Places
        <5>3. kept => /\ item \notin ItemsOf(discarded'["commandPool"])
                      /\ <<"commandPool", item>> \notin destroyed'
          <6>1. kept => kind = "commandPool" /\ destroyed' = destroyed
            BY <3>10, <3>11
          <6>2. item \in ItemsOf(discarded[kind]) /\ item \notin ItemsOf(discarded'[kind])
            BY <3>4, <3>9
          <6> QED BY <2>1, <3>2, <6>1, <6>2 DEF Places
        <5> QED BY <3>8, <5>2, <5>3
      <4>4. active # Null =>
              /\ active \notin ItemsOf(discarded'["commandPool"]) \cup RecycledItems'
              /\ <<"commandPool", active>> \notin destroyed'
        BY <2>1, <3>7, <3>8, <3>10, <3>11, <4>1 DEF Places, Kinds
      <4>5. generation # Null => \A k \in GenerationKinds :
              generation \notin ItemsOf(discarded'[k]) /\ <<k, generation>> \notin destroyed'
        BY <2>1, <3>4, <3>10, <4>1 DEF Places, Kinds, item
      <4> QED BY <2>15, <3>8, <4>2, <4>3, <4>4, <4>5 DEF Places
    <3>22. ReleasedUnused'
      <4>1. item # staging => lastUse[item] <= counter
        <5>1. h.tag <= counter
          <6>1. CASE h.tag <= sweep.until
            BY <2>1, <2>2, <2>15, <3>5, <6>1 DEF SweepFacts
          <6>2. CASE sweep.force
            BY <2>1, <2>2, <2>15, <3>2, <3>4, <3>5, <6>2 DEF SweepFacts, Clock, Lists
          <6> QED BY <3>1, <6>1, <6>2 DEF Expired
        <5>2. item # staging => lastUse[item] <= h.tag
          BY <2>1, <3>2, <3>4 DEF Lists, item
        <5>3. lastUse[item] \in Nat
          BY <2>1, <3>5 DEF TypeOK
        <5> QED BY <2>2, <3>5, <5>1, <5>2, <5>3
      <4>2. kept => item # staging
        <5>1. IsA(kind, item)
          BY <3>4 DEF IsA, item
        <5> QED BY <2>1, <3>2, <3>5, <3>11, <5>1 DEF Roles
      <4> QED BY <2>1, <2>15, <3>8, <3>10, <4>1, <4>2 DEF ReleasedUnused
    <3>23. ViewsFirst'
      <4>1. {"image", "imageView"} \subseteq Kinds
        BY DEF Kinds, GenerationKinds
      <4>2. CASE kind = "image"
        <5>1. h \notin EntriesOf(discarded["imageView"])
          <6>1. \A j \in DOMAIN sweep.todo : sweep.todo[j] # "imageView"
            BY <2>1, <2>15, <3>2, <4>2 DEF SweepFacts
          <6> QED BY <2>1, <2>15, <3>1, <4>1, <6>1 DEF SweepFacts
        <5>2. EntriesOf(discarded'["imageView"]) \subseteq EntriesOf(discarded'["image"])
          BY <2>1, <3>4, <3>9, <4>1, <4>2, <5>1 DEF ViewsFirst
        <5>3. item \notin ItemsOf(discarded["imageView"])
          <6>1. discarded'["imageView"] = discarded["imageView"] /\ discarded'["image"] = rest
            BY <3>9, <4>1, <4>2
          <6> QED BY <3>4, <5>2, <6>1, ItemsOfEntries DEF item
        <5>4. <<"imageView", item>> \in destroyed
          BY <2>1, <3>4, <4>2, <5>3 DEF ViewsFirst, item
        <5>5. ~kept
          BY <3>11, <4>2
        <5>6. \A i \in ItemsOf(discarded'["image"]) :
                i \in ItemsOf(discarded'["imageView"]) \/ <<"imageView", i>> \in destroyed'
          BY <2>1, <3>4, <3>9, <3>10, <4>1, <4>2 DEF ViewsFirst
        <5> QED BY <2>1, <3>10, <5>2, <5>4, <5>5, <5>6 DEF ViewsFirst
      <4>3. CASE kind = "imageView"
        <5>1. ~kept
          BY <3>11, <4>3
        <5> QED BY <2>1, <3>4, <3>9, <3>10, <4>1, <4>3, <5>1 DEF ViewsFirst, item
      <4>4. CASE kind \notin {"image", "imageView"}
        BY <2>1, <3>9, <3>10, <4>1, <4>4 DEF ViewsFirst
      <4> QED BY <4>2, <4>3, <4>4
    <3> QED BY <3>12, <3>13, <3>15, <3>16, <3>19, <3>20, <3>21, <3>22, <3>23 DEF PoolInv
  <2>16. CASE DestroyCommandPools
    <3> USE DEF DestroyCommandPools, gpuVars, frameVars, poolVars, useVars, Sweeping, Ending,
                Cleaned, LayoutsGone, PoolsGone, Emptied
    <3>1. /\ pc = "pools" /\ pc' = "discardPool" /\ active' = Null /\ recycled' = <<>>
          /\ UNCHANGED <<discarded, created, generation, staging, timeline, counter, lastUse>>
      BY <2>16
    <3>2. /\ OwnedPools = RecycledItems \cup ({active} \ {Null}) /\ OwnedPools \subseteq Items
          /\ RecycledItems' = {} /\ recycled' \in Seq(Items)
      BY <2>1, <3>1, EmptySeq DEF OwnedPools, RecycledItems, TypeOK
    <3>3. destroyed' = destroyed \cup ({"commandPool"} \X OwnedPools)
      BY <2>16
    <3>4. /\ TypeOK' /\ Room' /\ Clock' /\ SweepFacts'
      <4>1. TypeOK'
        BY <2>1, <2>16, <3>1, <3>2, <3>3 DEF TypeOK, PCs, Objects, Kinds
      <4>2. Room' /\ Clock' /\ SweepFacts'
        BY <2>1, <2>16 DEF Room, Clock, SweepFacts
      <4> QED BY <4>1, <4>2
    <3>5. \A k \in Kinds : discarded[k] = <<>>
      BY <2>1, <3>1 DEF Accounted
    <3>6. \A k \in Kinds, i \in Items : IsA(k, i)' <=> IsA(k, i)
      BY <3>1, <3>2, <3>3 DEF IsA
    <3>7. Lists'
      BY <2>1, <3>1 DEF Lists
    <3>8. Roles'
      <4>1. GenerationKinds \subseteq Kinds /\ 1 \in Items
        BY <2>2 DEF Kinds, Items
      <4> QED BY <2>1, <3>1, <3>6, <4>1 DEF Roles
    <3>9. Places'
      <4>1. generation = Null
        BY <2>1, <3>1 DEF Roles
      <4> QED BY <3>1, <3>2, <3>5, <4>1, EmptyList DEF Places
    <3>10. Accounted'
      <4>1. 1 .. created \subseteq Items /\ 1 \in Items /\ "pipelineLayout" \in Kinds
        BY <2>2 DEF Items, Kinds, ConstantKinds
      <4> QED BY <2>1, <3>1, <3>5, <3>6, <4>1 DEF Accounted
    <3>11. ReleasedUnused'
      <4>1. \A i \in OwnedPools : lastUse[i] <= counter
        BY <2>1, <3>1, <3>2 DEF Clock
      <4> QED BY <2>1, <3>1, <3>2, <3>3, <4>1 DEF ReleasedUnused
    <3>12. ViewsFirst'
      BY <2>1, <3>1, <3>3 DEF ViewsFirst
    <3> QED BY <3>4, <3>7, <3>8, <3>9, <3>10, <3>11, <3>12 DEF PoolInv
  \* nothing was made with the number of the next item
  <2>17. /\ \A k \in Kinds, i \in Items : IsA(k, i) => i <= created
         /\ created + 1 \in Items => \A k \in Kinds : ~IsA(k, created + 1)
         /\ 2 <= created /\ Constant \in Items /\ staging \in 0 .. created
         /\ GenerationKinds \cup ConstantKinds \cup {"commandPool"} = Kinds
         /\ "commandPool" \notin GenerationKinds \cup ConstantKinds
         /\ GenerationKinds \cap ConstantKinds = {}
         /\ {"image", "imageView"} \subseteq GenerationKinds /\ "buffer" \in ConstantKinds
         /\ "pipelineLayout" \in ConstantKinds
    <3>1. \A k \in Kinds, i \in Items : IsA(k, i) => i <= created
      BY <2>1 DEF Roles
    <3>2. ASSUME created + 1 \in Items, NEW k \in Kinds PROVE ~IsA(k, created + 1)
      <4>1. ~(created + 1 <= created)
        BY <2>2
      <4> QED BY <3>1, <3>2, <4>1
    <3>3. staging \in Nat
      BY <2>1 DEF TypeOK, Items
    <3> QED BY <2>1, <2>2, <3>1, <3>2, <3>3
        DEF Roles, Items, Kinds, GenerationKinds, ConstantKinds
  \* the resources of one generation and the active command pool are discarded
  <2>18. CASE OnResize
    <3> USE DEF gpuVars, frameVars, poolVars, useVars, Sweeping, Ending, Cleaned,
                LayoutsGone, PoolsGone, Emptied
    <3> DEFINE lists == IF active = Null THEN discarded
                                         ELSE Discard(discarded, {"commandPool"}, active)
               new == created + 1
               entry == [tag |-> timeline, item |-> generation]
    <3>1. /\ pc = "resize" /\ pc' = "frame" /\ active' = Null
          /\ discarded' = Discard(lists, GenerationKinds, generation)
          /\ generation' = new /\ created' = new
          /\ UNCHANGED <<counter, timeline, frameIndex, fences, staging, frameCounter, sweep,
                         recycled, destroyed, lastUse, bufferUse>>
      BY <2>18 DEF OnResize, ActiveLeft
    <3>2. new \in Items /\ generation \in Items /\ generation # Null /\ generation <= created
      <4>1. generation # Null
        BY <2>1, <3>1 DEF Roles
      <4>2. generation \in Items
        BY <2>1, <4>1 DEF TypeOK
      <4>3. IsA("image", generation)
        BY <2>17, <4>1 DEF IsA
      <4> QED BY <2>1, <2>2, <2>17, <3>1, <4>1, <4>2, <4>3 DEF Items, Room
    <3>3. /\ discarded \in [Kinds -> Seq(Entries)] /\ timeline \in 0 .. MaxTimeline
          /\ active # Null => active \in Items
          /\ \A k \in Kinds : Ordered(discarded[k]) /\ \A e \in EntriesOf(discarded[k]) : e.tag <= timeline
      BY <2>1 DEF TypeOK, Lists
    <3>4. /\ lists \in [Kinds -> Seq(Entries)]
          /\ \A k \in Kinds \ {"commandPool"} : lists[k] = discarded[k]
          /\ Ordered(lists["commandPool"])
          /\ EntriesOf(lists["commandPool"]) =
               EntriesOf(discarded["commandPool"]) \cup
                 (IF active = Null THEN {} ELSE {[tag |-> timeline, item |-> active]})
          /\ ItemsOf(lists["commandPool"]) =
               ItemsOf(discarded["commandPool"]) \cup (IF active = Null THEN {} ELSE {active})
      <4>1. CASE active = Null
        BY <2>17, <3>3, <4>1
      <4>2. CASE active # Null
        <5>1. active \notin ItemsOf(discarded["commandPool"]) /\ "commandPool" \in Kinds \cap {"commandPool"}
          BY <2>1, <2>17, <4>2 DEF Places
        <5>2. lists = Discard(discarded, {"commandPool"}, active)
          BY <4>2
        <5> HIDE DEF lists
        <5> DEFINE D == Discard(discarded, {"commandPool"}, active)
        <5>3. /\ D \in [Kinds -> Seq(Entries)]
              /\ \A k \in Kinds \ {"commandPool"} : D[k] = discarded[k]
              /\ \A k \in Kinds \cap {"commandPool"} :
                   /\ EntriesOf(D[k]) = EntriesOf(discarded[k]) \cup {[tag |-> timeline, item |-> active]}
                   /\ ItemsOf(D[k]) = ItemsOf(discarded[k]) \cup {active}
                   /\ Ordered(discarded[k]) /\ (\A e \in EntriesOf(discarded[k]) : e.tag <= timeline)
                        /\ active \notin ItemsOf(discarded[k]) => Ordered(D[k])
          BY <3>3, <4>2, DiscardFacts
        <5> HIDE DEF D
        <5>4. lists = D
          BY <5>2 DEF D
        <5>5. Ordered(D["commandPool"])
          BY <3>3, <5>1, <5>3
        <5> QED BY <4>2, <5>1, <5>3, <5>4, <5>5
      <4> QED BY <4>1, <4>2
    <3> HIDE DEF lists
    <3>5. /\ discarded' \in [Kinds -> Seq(Entries)]
          /\ \A k \in Kinds \ GenerationKinds : discarded'[k] = lists[k]
          /\ \A k \in GenerationKinds :
               /\ EntriesOf(discarded'[k]) = EntriesOf(discarded[k]) \cup {entry}
               /\ ItemsOf(discarded'[k]) = ItemsOf(discarded[k]) \cup {generation}
               /\ Ordered(discarded'[k])
      <4>1. \A k \in GenerationKinds : k \in Kinds \cap GenerationKinds /\ k # "commandPool"
        BY <2>17
      <4>2. \A k \in GenerationKinds : generation \notin ItemsOf(lists[k])
        BY <2>1, <2>17, <3>2, <3>4, <4>1 DEF Places
      <4> DEFINE D == Discard(lists, GenerationKinds, generation)
      <4>3. /\ D \in [Kinds -> Seq(Entries)]
            /\ \A k \in Kinds \ GenerationKinds : D[k] = lists[k]
            /\ \A k \in Kinds \cap GenerationKinds :
                 /\ EntriesOf(D[k]) = EntriesOf(lists[k]) \cup {entry}
                 /\ ItemsOf(D[k]) = ItemsOf(lists[k]) \cup {generation}
                 /\ Ordered(lists[k]) /\ (\A e \in EntriesOf(lists[k]) : e.tag <= timeline)
                      /\ generation \notin ItemsOf(lists[k]) => Ordered(D[k])
        BY <3>2, <3>3, <3>4, DiscardFacts
      <4> HIDE DEF D, entry
      <4>4. discarded' = D
        BY <3>1 DEF D
      <4> QED BY <3>3, <3>4, <4>1, <4>2, <4>3, <4>4
    <3>6. \A k \in ConstantKinds : discarded'[k] = discarded[k]
      BY <2>17, <3>4, <3>5
    <3>7. discarded'["commandPool"] = lists["commandPool"]
      BY <2>17, <3>5
    <3>8. RecycledItems' = RecycledItems
      BY <3>1 DEF RecycledItems
    <3>9. TypeOK'
      <4>1. {created', generation', active', staging'} \subseteq Items \cup {Null}
        BY <2>1, <3>1, <3>2 DEF TypeOK
      <4> QED BY <2>1, <3>1, <3>5, <4>1 DEF TypeOK, PCs
    <3>10. Room' /\ Clock' /\ SweepFacts'
      BY <2>1, <3>1 DEF Room, Clock, SweepFacts
    <3>11. Lists'
      <4> SUFFICES ASSUME NEW k \in Kinds
                   PROVE  /\ Ordered(discarded'[k])
                          /\ \A e \in EntriesOf(discarded'[k]) :
                               e.tag <= timeline /\ (e.item # staging => lastUse[e.item] <= e.tag)
        BY <3>1 DEF Lists
      <4>1. \A e \in EntriesOf(discarded[k]) :
               e.tag <= timeline /\ (e.item # staging => lastUse[e.item] <= e.tag)
        BY <2>1 DEF Lists
      <4>2. \A i \in Items : lastUse[i] <= timeline
        BY <2>1 DEF Clock
      <4>3. CASE k \in GenerationKinds
        BY <2>2, <3>2, <3>5, <4>1, <4>2, <4>3
      <4>4. CASE k = "commandPool"
        BY <2>2, <3>3, <3>4, <3>7, <4>1, <4>2, <4>4
      <4>5. CASE k \in ConstantKinds
        BY <3>3, <3>6, <4>1, <4>5
      <4> QED BY <2>17, <4>3, <4>4, <4>5
    <3>12. \A k \in Kinds, i \in Items :
             IsA(k, i)' <=> IsA(k, i) \/ (k \in GenerationKinds /\ i = new)
      <4> SUFFICES ASSUME NEW k \in Kinds, NEW i \in Items
                   PROVE  IsA(k, i)' <=> IsA(k, i) \/ (k \in GenerationKinds /\ i = new)
        OBVIOUS
      <4>1. CASE k \in GenerationKinds
        <5>1. k # "commandPool" /\ new # Null
          BY <2>2, <2>17, <4>1
        <5>2. i \in ItemsOf(discarded'[k]) <=> i \in ItemsOf(discarded[k]) \/ i = generation
          BY <3>5, <4>1
        <5> HIDE DEF new
        <5> QED BY <3>1, <3>2, <4>1, <5>1, <5>2 DEF IsA
      <4>2. CASE k = "commandPool"
        BY <2>17, <3>1, <3>4, <3>7, <3>8, <4>2 DEF IsA
      <4>3. CASE k \in ConstantKinds
        BY <2>17, <3>1, <3>6, <4>3 DEF IsA
      <4> QED BY <2>17, <4>1, <4>2, <4>3
    <3>13. Roles'
      <4>1. ASSUME NEW k \in Kinds, NEW i \in Items, IsA(k, i)'
            PROVE  /\ i <= created'
                   /\ k \in ConstantKinds => i \in {Constant, staging'}
                   /\ k \in GenerationKinds \cup {"commandPool"} => i # staging'
                   /\ k = "commandPool" => \A g \in GenerationKinds : ~IsA(g, i)'
        <5>1. CASE IsA(k, i)
          <6>1. i <= created /\ i # new /\ i \in Nat
            BY <2>2, <2>17, <5>1 DEF Items
          <6> QED BY <2>1, <2>2, <2>17, <3>1, <3>12, <5>1, <6>1 DEF Roles
        <5>2. CASE k \in GenerationKinds /\ i = new
          BY <2>2, <2>17, <3>1, <5>2
        <5> QED BY <3>12, <4>1, <5>1, <5>2
      <4>2. \A k \in Kinds : ~IsA(k, Constant)'
        BY <2>1, <2>2, <2>17, <3>1, <3>12 DEF Roles
      <4>3. 2 <= created' /\ staging' <= created' /\ staging' # Constant
            /\ (Cleaned' <=> generation' = Null)
        BY <2>1, <2>2, <2>17, <3>1 DEF Roles
      <4> QED BY <4>1, <4>2, <4>3 DEF Roles
    <3>14. Places'
      <4>1. \A k \in Kinds : new \notin ItemsOf(discarded[k]) /\ <<k, new>> \notin destroyed
        BY <2>17, <3>2 DEF IsA
      <4>2. \A k \in Kinds : \A i \in ItemsOf(discarded'[k]) : <<k, i>> \notin destroyed'
        <5> SUFFICES ASSUME NEW k \in Kinds, NEW i \in ItemsOf(discarded'[k])
                     PROVE  <<k, i>> \notin destroyed
          BY <3>1
        <5>1. CASE k \in GenerationKinds
          BY <2>1, <3>2, <3>5, <5>1 DEF Places
        <5>2. CASE k = "commandPool"
          BY <2>1, <3>4, <3>7, <5>2 DEF Places
        <5>3. CASE k \in ConstantKinds
          BY <2>1, <3>6, <5>3 DEF Places
        <5> QED BY <2>17, <5>1, <5>2, <5>3
      <4>3. \A i \in RecycledItems' : /\ i \notin ItemsOf(discarded'["commandPool"])
                                      /\ <<"commandPool", i>> \notin destroyed'
        BY <2>1, <3>1, <3>4, <3>7, <3>8 DEF Places
      <4>4. \A k \in GenerationKinds : /\ generation' \notin ItemsOf(discarded'[k])
                                       /\ <<k, generation'>> \notin destroyed'
        <5> SUFFICES ASSUME NEW k \in GenerationKinds
                     PROVE  new \notin ItemsOf(discarded'[k]) /\ <<k, new>> \notin destroyed
          BY <3>1
        <5>1. k \in Kinds /\ new # generation
          BY <2>2, <2>17, <3>2
        <5> HIDE DEF new
        <5> QED BY <3>5, <4>1, <5>1
      <4> QED BY <2>1, <3>1, <4>2, <4>3, <4>4 DEF Places
    <3>15. Accounted'
      <4>1. 1 .. created' = 1 .. created \cup {new} /\ 1 .. created' \subseteq Items
        <5>1. new <= MaxItems
          BY <2>2, <3>2 DEF Items
        <5> QED BY <2>2, <3>1, <5>1 DEF Items
      <4>2. \A i \in 1 .. created' : (i = Constant /\ ~Cleaned') \/ \E k \in Kinds : IsA(k, i)'
        BY <2>1, <2>17, <3>1, <3>12, <4>1 DEF Accounted
      <4> QED BY <3>1, <4>2 DEF Accounted
    <3>16. ReleasedUnused'
      BY <2>1, <3>1, <3>8 DEF ReleasedUnused
    <3>17. ViewsFirst'
      BY <2>1, <2>17, <3>1, <3>5 DEF ViewsFirst
    <3> QED BY <3>9, <3>10, <3>11, <3>13, <3>14, <3>15, <3>16, <3>17 DEF PoolInv
  \* after vkDeviceWaitIdle: the last generation, then what was made once
  <2>19. CASE Cleanup
    <3> USE DEF gpuVars, frameVars, poolVars, useVars, Sweeping, Ending, Cleaned,
                LayoutsGone, PoolsGone, Emptied
    <3> DEFINE lists == Discard(discarded, GenerationKinds, generation)
               D == Discard(lists, ConstantKinds, Constant)
               entry == [tag |-> timeline, item |-> generation]
               constant == [tag |-> timeline, item |-> Constant]
    <3>1. /\ pc = "cleanup" /\ discarded' = D /\ generation' = Null
          /\ BeginSweep(FALSE, "setLayouts")
          /\ UNCHANGED <<counter, timeline, frameIndex, fences, staging, frameCounter, created,
                         active, recycled, destroyed, lastUse, bufferUse>>
      BY <2>19 DEF Cleanup
    <3>2. pc' = "sweep" /\ sweep'.then = "setLayouts"
      BY <3>1 DEF BeginSweep
    <3>3. generation \in Items /\ generation # Null /\ counter = timeline
      BY <2>1, <3>1 DEF Roles, TypeOK, Clock
    <3>4. /\ discarded \in [Kinds -> Seq(Entries)] /\ timeline \in 0 .. MaxTimeline
          /\ \A k \in Kinds : Ordered(discarded[k]) /\ \A e \in EntriesOf(discarded[k]) : e.tag <= timeline
      BY <2>1 DEF TypeOK, Lists
    <3>5. \A k \in Kinds : ~IsA(k, Constant)
      BY <2>1, <3>1 DEF Roles
    <3>6. /\ lists \in [Kinds -> Seq(Entries)]
          /\ \A k \in Kinds \ GenerationKinds : lists[k] = discarded[k]
          /\ \A k \in Kinds \cap GenerationKinds :
               /\ EntriesOf(lists[k]) = EntriesOf(discarded[k]) \cup {entry}
               /\ ItemsOf(lists[k]) = ItemsOf(discarded[k]) \cup {generation}
               /\ Ordered(discarded[k]) /\ (\A e \in EntriesOf(discarded[k]) : e.tag <= timeline)
                    /\ generation \notin ItemsOf(discarded[k]) => Ordered(lists[k])
      BY <3>3, <3>4, DiscardFacts
    <3> HIDE DEF lists
    <3>7. /\ D \in [Kinds -> Seq(Entries)]
          /\ \A k \in Kinds \ ConstantKinds : D[k] = lists[k]
          /\ \A k \in Kinds \cap ConstantKinds :
               /\ EntriesOf(D[k]) = EntriesOf(lists[k]) \cup {constant}
               /\ ItemsOf(D[k]) = ItemsOf(lists[k]) \cup {Constant}
               /\ Ordered(lists[k]) /\ (\A e \in EntriesOf(lists[k]) : e.tag <= timeline)
                    /\ Constant \notin ItemsOf(lists[k]) => Ordered(D[k])
      BY <2>17, <3>4, <3>6, DiscardFacts
    <3> HIDE DEF D
    <3>8. /\ discarded' \in [Kinds -> Seq(Entries)]
          /\ discarded'["commandPool"] = discarded["commandPool"]
          /\ \A k \in GenerationKinds :
               /\ EntriesOf(discarded'[k]) = EntriesOf(discarded[k]) \cup {entry}
               /\ ItemsOf(discarded'[k]) = ItemsOf(discarded[k]) \cup {generation}
               /\ Ordered(discarded'[k])
          /\ \A k \in ConstantKinds :
               /\ EntriesOf(discarded'[k]) = EntriesOf(discarded[k]) \cup {constant}
               /\ ItemsOf(discarded'[k]) = ItemsOf(discarded[k]) \cup {Constant}
               /\ Ordered(discarded'[k])
      <4>1. \A k \in GenerationKinds :
              k \in Kinds \cap GenerationKinds /\ k \notin ConstantKinds
              /\ generation \notin ItemsOf(discarded[k])
        BY <2>1, <2>17, <3>3 DEF Places
      <4>2. \A k \in ConstantKinds :
              k \in Kinds \cap ConstantKinds /\ k \notin GenerationKinds
              /\ Constant \notin ItemsOf(discarded[k])
        BY <2>17, <3>5 DEF IsA
      <4> HIDE DEF entry, constant
      <4> QED BY <2>17, <3>1, <3>4, <3>6, <3>7, <4>1, <4>2
    <3>9. TypeOK' /\ SweepFacts'
      <4>1. SweepFacts' /\ sweep' \in [until : 0 .. MaxTimeline, force : BOOLEAN,
                                       todo : Seq(Kinds), then : PCs]
        BY <2>5, <3>1, <3>3
      <4>2. TypeOK'
        BY <2>1, <3>1, <3>2, <3>8, <4>1 DEF TypeOK, PCs
      <4> QED BY <4>1, <4>2
    <3>10. Room' /\ Clock'
      BY <2>1, <3>1, <3>2 DEF Room, Clock
    <3>11. Lists'
      <4> SUFFICES ASSUME NEW k \in Kinds
                   PROVE  /\ Ordered(discarded'[k])
                          /\ \A e \in EntriesOf(discarded'[k]) :
                               e.tag <= timeline /\ (e.item # staging => lastUse[e.item] <= e.tag)
        BY <3>1 DEF Lists
      <4>1. \A e \in EntriesOf(discarded[k]) :
               e.tag <= timeline /\ (e.item # staging => lastUse[e.item] <= e.tag)
        BY <2>1 DEF Lists
      <4>2. \A i \in Items : lastUse[i] <= timeline
        BY <2>1 DEF Clock
      <4>3. CASE k \in GenerationKinds
        BY <2>2, <3>3, <3>8, <4>1, <4>2, <4>3
      <4>4. CASE k = "commandPool"
        BY <3>4, <3>8, <4>1, <4>4
      <4>5. CASE k \in ConstantKinds
        BY <2>2, <2>17, <3>8, <4>1, <4>2, <4>5
      <4> QED BY <2>17, <4>3, <4>4, <4>5
    <3>12. RecycledItems' = RecycledItems
      BY <3>1 DEF RecycledItems
    <3>13. \A k \in Kinds, i \in Items :
             IsA(k, i)' <=> IsA(k, i) \/ (k \in ConstantKinds /\ i = Constant)
      <4> SUFFICES ASSUME NEW k \in Kinds, NEW i \in Items
                   PROVE  IsA(k, i)' <=> IsA(k, i) \/ (k \in ConstantKinds /\ i = Constant)
        OBVIOUS
      <4>1. CASE k \in GenerationKinds
        <5>1. k # "commandPool" /\ k \notin ConstantKinds
          BY <2>17, <4>1
        <5>2. i \in ItemsOf(discarded'[k]) <=> i \in ItemsOf(discarded[k]) \/ i = generation
          BY <3>8, <4>1
        <5> QED BY <3>1, <3>3, <4>1, <5>1, <5>2 DEF IsA
      <4>2. CASE k = "commandPool"
        BY <2>17, <3>1, <3>8, <3>12, <4>2 DEF IsA
      <4>3. CASE k \in ConstantKinds
        <5>1. k # "commandPool" /\ k \notin GenerationKinds
          BY <2>17, <4>3
        <5>2. i \in ItemsOf(discarded'[k]) <=> i \in ItemsOf(discarded[k]) \/ i = Constant
          BY <3>8, <4>3
        <5> QED BY <3>1, <4>3, <5>1, <5>2 DEF IsA
      <4> QED BY <2>17, <4>1, <4>2, <4>3
    <3>14. Roles'
      <4>1. ASSUME NEW k \in Kinds, NEW i \in Items, IsA(k, i)'
            PROVE  /\ i <= created'
                   /\ k \in ConstantKinds => i \in {Constant, staging'}
                   /\ k \in GenerationKinds \cup {"commandPool"} => i # staging'
                   /\ k = "commandPool" => \A g \in GenerationKinds : ~IsA(g, i)'
        <5>1. CASE IsA(k, i)
          BY <2>1, <2>17, <3>1, <3>13, <5>1 DEF Roles
        <5>2. CASE k \in ConstantKinds /\ i = Constant
          BY <2>2, <2>17, <3>1, <5>2
        <5> QED BY <3>13, <4>1, <5>1, <5>2
      <4>2. \A k \in Kinds : IsA(k, Constant)' =>
              k \in ConstantKinds /\ k \notin {"image", "imageView"}
        BY <2>17, <3>5, <3>13
      <4>3. 2 <= created' /\ staging' <= created' /\ staging' # Constant
            /\ Cleaned' /\ generation' = Null
        BY <2>1, <3>1, <3>2 DEF Roles
      <4> QED BY <4>1, <4>2, <4>3 DEF Roles
    <3>15. Places'
      <4>1. \A k \in Kinds : \A i \in ItemsOf(discarded'[k]) : <<k, i>> \notin destroyed'
        <5> SUFFICES ASSUME NEW k \in Kinds, NEW i \in ItemsOf(discarded'[k])
                     PROVE  <<k, i>> \notin destroyed
          BY <3>1
        <5>1. CASE k \in GenerationKinds
          <6>1. i \in ItemsOf(discarded[k]) \/ i = generation
            BY <3>8, <5>1
          <6> QED BY <2>1, <3>3, <5>1, <6>1 DEF Places
        <5>2. CASE k = "commandPool"
          BY <2>1, <3>8, <5>2 DEF Places
        <5>3. CASE k \in ConstantKinds
          <6>1. i \in ItemsOf(discarded[k]) \/ i = Constant
            BY <3>8, <5>3
          <6>2. <<k, Constant>> \notin destroyed
            BY <3>5 DEF IsA
          <6> QED BY <2>1, <6>1, <6>2 DEF Places
        <5> QED BY <2>17, <5>1, <5>2, <5>3
      <4> QED BY <2>1, <3>1, <3>8, <3>12, <4>1 DEF Places
    <3>16. Accounted'
      <4>1. \A i \in 1 .. created : i \in Items
        BY <2>2 DEF Items
      <4>2. \A i \in 1 .. created' : \E k \in Kinds : IsA(k, i)'
        BY <2>1, <2>17, <3>1, <3>13, <4>1 DEF Accounted
      <4>3. IsA("pipelineLayout", Constant)'
        BY <2>17, <3>13
      <4> QED BY <3>2, <4>2, <4>3 DEF Accounted
    <3>17. ReleasedUnused'
      BY <2>1, <3>1, <3>12 DEF ReleasedUnused
    <3>18. ViewsFirst'
      BY <2>1, <2>17, <3>1, <3>8 DEF ViewsFirst
    <3> QED BY <3>9, <3>10, <3>11, <3>14, <3>15, <3>16, <3>17, <3>18 DEF PoolInv
  \* the texture and its view are the last to be discarded
  <2>20. CASE DestroySetLayouts
    <3> USE DEF gpuVars, frameVars, poolVars, useVars, Sweeping, Ending, Cleaned,
                LayoutsGone, PoolsGone, Emptied
    <3> DEFINE ks == {"image", "imageView"}
               D == Discard(discarded, ks, Constant)
               constant == [tag |-> timeline, item |-> Constant]
    <3>1. /\ pc = "setLayouts" /\ discarded' = D /\ BeginSweep(TRUE, "pools")
          /\ UNCHANGED <<counter, timeline, frameIndex, fences, staging, frameCounter, created,
                         generation, active, recycled, destroyed, lastUse, bufferUse>>
      BY <2>20 DEF DestroySetLayouts
    <3>2. pc' = "sweep" /\ sweep'.then = "pools"
      BY <3>1 DEF BeginSweep
    <3>3. generation = Null /\ counter = timeline /\ \A k \in Kinds : discarded[k] = <<>>
      BY <2>1, <3>1 DEF Roles, Clock, Accounted
    <3>4. /\ discarded \in [Kinds -> Seq(Entries)] /\ timeline \in 0 .. MaxTimeline
      BY <2>1 DEF TypeOK
    <3>5. /\ D \in [Kinds -> Seq(Entries)]
          /\ \A k \in Kinds \ ks : D[k] = discarded[k]
          /\ \A k \in Kinds \cap ks :
               /\ EntriesOf(D[k]) = EntriesOf(discarded[k]) \cup {constant}
               /\ ItemsOf(D[k]) = ItemsOf(discarded[k]) \cup {Constant}
               /\ Ordered(discarded[k]) /\ (\A e \in EntriesOf(discarded[k]) : e.tag <= timeline)
                    /\ Constant \notin ItemsOf(discarded[k]) => Ordered(D[k])
      BY <2>17, <3>4, DiscardFacts
    <3> HIDE DEF D
    <3>6. /\ discarded' \in [Kinds -> Seq(Entries)]
          /\ \A k \in Kinds : Ordered(discarded'[k])
          /\ \A k \in Kinds \ ks : EntriesOf(discarded'[k]) = {} /\ ItemsOf(discarded'[k]) = {}
          /\ \A k \in ks : /\ EntriesOf(discarded'[k]) = {constant}
                           /\ ItemsOf(discarded'[k]) = {Constant}
      <4> HIDE DEF constant
      <4> QED BY <2>17, <3>1, <3>3, <3>5, EmptyList
    <3>7. \A k \in ks : k \in Kinds /\ k # "commandPool" /\ k \notin ConstantKinds
                        /\ k \in GenerationKinds /\ ~IsA(k, Constant)
      <4>1. \A k \in ks : k \in Kinds /\ k # "commandPool" /\ k \notin ConstantKinds
                          /\ k \in GenerationKinds
        BY <2>17
      <4> QED BY <2>1, <3>1, <4>1 DEF Roles
    <3>8. TypeOK' /\ SweepFacts'
      <4>1. SweepFacts' /\ sweep' \in [until : 0 .. MaxTimeline, force : BOOLEAN,
                                       todo : Seq(Kinds), then : PCs]
        BY <2>5, <3>1, <3>2, <3>3
      <4>2. TypeOK'
        BY <2>1, <3>1, <3>2, <3>6, <4>1 DEF TypeOK, PCs
      <4> QED BY <4>1, <4>2
    <3>9. Room' /\ Clock'
      BY <2>1, <3>1, <3>2 DEF Room, Clock
    <3>10. Lists'
      <4> SUFFICES ASSUME NEW k \in Kinds
                   PROVE  \A e \in EntriesOf(discarded'[k]) :
                            e.tag <= timeline /\ (e.item # staging => lastUse[e.item] <= e.tag)
        BY <3>1, <3>6 DEF Lists
      <4>1. lastUse[Constant] <= timeline
        BY <2>1, <2>17 DEF Clock
      <4>2. ASSUME NEW e \in EntriesOf(discarded'[k]) PROVE e.tag = timeline /\ e.item = Constant
        BY <3>6
      <4> QED BY <2>2, <4>1, <4>2
    <3>11. RecycledItems' = RecycledItems
      BY <3>1 DEF RecycledItems
    <3>12. \A k \in Kinds, i \in Items : IsA(k, i)' <=> IsA(k, i) \/ (k \in ks /\ i = Constant)
      BY <3>1, <3>3, <3>6, <3>11, EmptyList DEF IsA
    <3>13. Roles'
      <4>1. ASSUME NEW k \in Kinds, NEW i \in Items, IsA(k, i)'
            PROVE  /\ i <= created'
                   /\ k \in ConstantKinds => i \in {Constant, staging'}
                   /\ k \in GenerationKinds \cup {"commandPool"} => i # staging'
                   /\ k = "commandPool" => \A g \in GenerationKinds : ~IsA(g, i)'
        <5>1. CASE IsA(k, i)
          <6>1. k = "commandPool" => i # Constant
            BY <2>1, <2>17, <5>1 DEF Roles
          <6> QED BY <2>1, <2>17, <3>1, <3>12, <5>1, <6>1 DEF Roles
        <5>2. CASE k \in ks /\ i = Constant
          BY <2>1, <2>2, <2>17, <3>1, <3>7, <5>2 DEF Roles
        <5> QED BY <3>12, <4>1, <5>1, <5>2
      <4>2. \A k \in Kinds : IsA(k, Constant)' => k \in ConstantKinds \cup {"image", "imageView"}
        BY <2>1, <2>17, <3>12 DEF Roles
      <4>3. 2 <= created' /\ staging' <= created' /\ staging' # Constant
            /\ Cleaned' /\ LayoutsGone' /\ generation' = Null
        BY <2>1, <3>1, <3>2, <3>3 DEF Roles
      <4> QED BY <4>1, <4>2, <4>3 DEF Roles
    <3>14. Places'
      <4>1. \A k \in Kinds : \A i \in ItemsOf(discarded'[k]) : <<k, i>> \notin destroyed'
        <5> SUFFICES ASSUME NEW k \in Kinds, NEW i \in ItemsOf(discarded'[k])
                     PROVE  <<k, i>> \notin destroyed
          BY <3>1
        <5>1. k \in ks /\ i = Constant
          BY <3>6
        <5>2. <<k, Constant>> \notin destroyed
          BY <3>7, <5>1 DEF IsA
        <5> QED BY <5>1, <5>2
      <4>2. ItemsOf(discarded'["commandPool"]) = {}
        BY <2>17, <3>6
      <4> QED BY <2>1, <3>1, <3>3, <3>11, <4>1, <4>2 DEF Places
    <3>15. Accounted'
      <4>1. \A i \in 1 .. created : i \in Items
        BY <2>2 DEF Items
      <4>2. \A i \in 1 .. created' : \E k \in Kinds : IsA(k, i)'
        BY <2>1, <2>17, <3>1, <3>12, <4>1 DEF Accounted
      <4>3. IsA("pipelineLayout", Constant)'
        BY <2>1, <2>17, <3>1, <3>12 DEF Accounted
      <4> QED BY <3>2, <4>2, <4>3 DEF Accounted
    <3>16. ReleasedUnused'
      BY <2>1, <3>1, <3>11 DEF ReleasedUnused
    <3>17. ViewsFirst'
      BY <2>1, <2>17, <3>1, <3>6 DEF ViewsFirst
    <3> QED BY <3>8, <3>9, <3>10, <3>13, <3>14, <3>15, <3>16, <3>17 DEF PoolInv
  \* a frame is submitted: what it uses is neither waiting nor gone
  <2>21. CASE Submit
    <3> USE DEF gpuVars, frameVars, poolVars, useVars, Sweeping, Ending, Cleaned,
                LayoutsGone, PoolsGone, Emptied
    <3> DEFINE new == created + 1
               grown == staging' # staging
               entry == [tag |-> timeline, item |-> new]
               Uses(i) == i \in {Constant, generation, active} \/ (grown /\ i = new)
    <3>1. /\ pc = "record" /\ pc' = "present" /\ timeline' = timeline + 1
          /\ lastUse' = [i \in Items |->
                           IF i \in {Constant, generation, active} \/ (i = staging' /\ staging = Null)
                           THEN timeline + 1 ELSE lastUse[i]]
          /\ bufferUse' = [bufferUse EXCEPT ![active][frameIndex] = timeline + 1]
          /\ fences' = [fences EXCEPT ![frameIndex] = timeline + 1]
          /\ frameIndex' = (frameIndex % FrameCount) + 1
          /\ UNCHANGED <<counter, frameCounter, sweep, generation, active, recycled, destroyed>>
      BY <2>21 DEF Submit, NextTimeline, NextFrame
    <3>2. /\ active \in Items /\ generation \in Items /\ active # Null /\ generation # Null
          /\ new \in Items /\ created + 2 <= MaxItems /\ timeline < MaxTimeline
      <4>1. active # Null /\ generation # Null
        BY <2>1, <3>1 DEF Clock, Roles
      <4>2. created + 2 <= MaxItems /\ timeline < MaxTimeline
        BY <2>1, <3>1 DEF Room
      <4> QED BY <2>1, <2>2, <4>1, <4>2 DEF TypeOK, Items
    <3>3. /\ discarded \in [Kinds -> Seq(Entries)] /\ timeline \in 0 .. MaxTimeline
          /\ \A k \in Kinds : Ordered(discarded[k]) /\ \A e \in EntriesOf(discarded[k]) : e.tag <= timeline
      BY <2>1 DEF TypeOK, Lists
    <3>4. \A k \in Kinds : new \notin ItemsOf(discarded[k]) /\ <<k, new>> \notin destroyed
      BY <2>17, <3>2 DEF IsA
    <3>5. /\ created' = (IF grown THEN new ELSE created)
          /\ staging' = (IF grown THEN new ELSE staging)
          /\ grown => staging = Null
          /\ discarded' \in [Kinds -> Seq(Entries)]
          /\ \A k \in Kinds : Ordered(discarded'[k])
          /\ \A k \in Kinds \ {"buffer"} : discarded'[k] = discarded[k]
          /\ EntriesOf(discarded'["buffer"]) =
               EntriesOf(discarded["buffer"]) \cup (IF grown THEN {entry} ELSE {})
          /\ ItemsOf(discarded'["buffer"]) =
               ItemsOf(discarded["buffer"]) \cup (IF grown THEN {new} ELSE {})
      <4>1. CASE UNCHANGED <<staging, created, discarded>>
        BY <3>3, <4>1
      <4>2. CASE /\ timeline = 0 /\ staging' = new /\ created' = new
                 /\ discarded' = Discard(discarded, {"buffer"}, new)
        <5> DEFINE D == Discard(discarded, {"buffer"}, new)
        <5>1. staging = Null /\ grown
          BY <2>1, <2>2, <4>2 DEF Clock
        <5>2. /\ D \in [Kinds -> Seq(Entries)]
              /\ \A k \in Kinds \ {"buffer"} : D[k] = discarded[k]
              /\ \A k \in Kinds \cap {"buffer"} :
                   /\ EntriesOf(D[k]) = EntriesOf(discarded[k]) \cup {entry}
                   /\ ItemsOf(D[k]) = ItemsOf(discarded[k]) \cup {new}
                   /\ Ordered(discarded[k]) /\ (\A e \in EntriesOf(discarded[k]) : e.tag <= timeline)
                        /\ new \notin ItemsOf(discarded[k]) => Ordered(D[k])
          BY <3>2, <3>3, DiscardFacts
        <5> HIDE DEF D, entry
        <5>3. discarded' = D
          BY <4>2 DEF D
        <5>4. "buffer" \in Kinds \cap {"buffer"}
          BY <2>17
        <5>5. \A k \in Kinds : Ordered(D[k])
          BY <3>3, <3>4, <5>2
        <5> HIDE DEF grown
        <5> QED BY <4>2, <5>1, <5>2, <5>3, <5>4, <5>5
      <4> QED BY <2>21, <4>1, <4>2 DEF Submit, Stage
    <3>6. RecycledItems' = RecycledItems /\ RecycledItems \subseteq Items
      BY <2>2, <3>1 DEF RecycledItems
    <3> HIDE DEF grown, entry
    <3>7. \A i \in Items : lastUse'[i] = IF Uses(i) THEN timeline + 1 ELSE lastUse[i]
      <4>1. \A i \in Items : (i = staging' /\ staging = Null) <=> (grown /\ i = new)
        BY <2>2, <3>2, <3>5 DEF grown, Items
      <4> QED BY <3>1, <4>1
    \* the generation, the pool being recorded and the constant resources are live
    <3>8. ASSUME NEW k \in Kinds, NEW i \in Items,
                 i \in ItemsOf(discarded[k]) \/ <<k, i>> \in destroyed
          PROVE  ~Uses(i)
      <4>1. IsA(k, i)
        BY <3>8 DEF IsA
      <4>2. i # Constant
        BY <2>1, <3>1, <4>1 DEF Roles
      <4>3. IsA("image", generation) /\ generation # staging /\ generation # Constant
        <5>1. IsA("image", generation) /\ "image" \in Kinds
          BY <2>17, <3>2 DEF IsA
        <5> QED BY <2>1, <2>17, <3>1, <3>2, <5>1 DEF Roles
      <4>4. /\ IsA("commandPool", active) /\ active # staging /\ active # Constant
            /\ \A g \in GenerationKinds : ~IsA(g, active)
        <5>1. IsA("commandPool", active) /\ "commandPool" \in Kinds
          BY <2>17, <3>2 DEF IsA
        <5> QED BY <2>1, <2>17, <3>1, <3>2, <5>1 DEF Roles
      <4>5. i # generation
        <5>1. CASE k \in GenerationKinds
          BY <2>1, <3>2, <3>8, <5>1 DEF Places
        <5>2. CASE k = "commandPool"
          BY <2>1, <2>17, <4>1, <4>3, <5>2 DEF Roles
        <5>3. CASE k \in ConstantKinds
          BY <2>1, <4>1, <4>3, <5>3 DEF Roles
        <5> QED BY <2>17, <5>1, <5>2, <5>3
      <4>6. i # active
        <5>1. CASE k \in GenerationKinds
          BY <4>1, <4>4, <5>1
        <5>2. CASE k = "commandPool"
          BY <2>1, <3>2, <3>8, <5>2 DEF Places
        <5>3. CASE k \in ConstantKinds
          BY <2>1, <4>1, <4>4, <5>3 DEF Roles
        <5> QED BY <2>17, <5>1, <5>2, <5>3
      <4>7. i # new
        BY <3>4, <3>8
      <4> QED BY <4>2, <4>5, <4>6, <4>7
    <3>9. \A i \in RecycledItems : ~Uses(i)
      <4> SUFFICES ASSUME NEW i \in RecycledItems PROVE ~Uses(i)
        OBVIOUS
      <4>1. i \in Items /\ IsA("commandPool", i) /\ "commandPool" \in Kinds
        BY <2>17, <3>6 DEF IsA
      <4>2. i # Constant /\ i # new /\ \A g \in GenerationKinds : ~IsA(g, i)
        BY <2>1, <2>17, <3>1, <3>2, <4>1 DEF Roles
      <4>3. IsA("image", generation)
        BY <2>17, <3>2 DEF IsA
      <4>4. i # active
        BY <2>1, <3>2 DEF Places
      <4> QED BY <2>17, <4>2, <4>3, <4>4
    <3> HIDE DEF Uses, new
    <3>10. lastUse' \in [Items -> 0 .. MaxTimeline] /\ timeline + 1 \in 0 .. MaxTimeline
      <4>1. timeline + 1 \in 0 .. MaxTimeline
        BY <2>2, <3>2
      <4> QED BY <2>1, <3>1, <4>1 DEF TypeOK
    <3>11. TypeOK'
      <4>1. {created', generation', active', staging'} \subseteq Items \cup {Null}
        BY <2>1, <3>1, <3>2, <3>5 DEF TypeOK
      <4>2. frameIndex' \in Frames
        <5>1. frameIndex \in Nat /\ FrameCount \in Nat /\ FrameCount > 0
          BY <2>2, DiscardPoolAssumption DEF Frames
        <5>2. frameIndex % FrameCount \in 0 .. FrameCount - 1
          BY <5>1
        <5> QED BY <3>1, <5>1, <5>2 DEF Frames
      <4>3. fences' \in [Frames -> 0 .. MaxTimeline]
        BY <2>2, <3>1, <3>10
      <4>4. bufferUse' \in [Items -> [Frames -> 0 .. MaxTimeline]]
        <5>1. bufferUse \in [Items -> [Frames -> 0 .. MaxTimeline]]
          BY <2>1 DEF TypeOK
        <5> QED BY <2>2, <3>1, <3>2, <3>10, <5>1
      <4> QED BY <2>1, <3>1, <3>5, <3>10, <4>1, <4>2, <4>3, <4>4 DEF TypeOK, PCs
    <3>12. Room' /\ SweepFacts'
      BY <2>1, <2>2, <3>1, <3>2, <3>5 DEF Room, SweepFacts, new
    <3>13. Clock'
      <4>1. \A i \in Items : lastUse'[i] <= timeline'
        <5> SUFFICES ASSUME NEW i \in Items PROVE lastUse'[i] <= timeline'
          OBVIOUS
        <5>1. lastUse[i] \in Nat /\ lastUse[i] <= timeline
          BY <2>1 DEF Clock, TypeOK
        <5>2. lastUse'[i] = timeline + 1 \/ lastUse'[i] = lastUse[i]
          BY <3>7
        <5> QED BY <2>2, <3>1, <5>1, <5>2
      <4>2. \A f \in Frames : fences'[f] = IF f = frameIndex THEN timeline + 1 ELSE fences[f]
        BY <2>2, <3>1
      <4>3. \A f \in Frames : fences'[f] <= timeline'
        BY <2>1, <2>2, <3>1, <4>2 DEF Clock
      <4>4. \A i \in Items, f \in Frames : bufferUse'[i][f] <= fences'[f]
        <5> SUFFICES ASSUME NEW i \in Items, NEW f \in Frames PROVE bufferUse'[i][f] <= fences'[f]
          OBVIOUS
        <5>1. bufferUse \in [Items -> [Frames -> 0 .. MaxTimeline]]
          BY <2>1 DEF TypeOK
        <5>2. bufferUse'[i][f] = IF i = active /\ f = frameIndex THEN timeline + 1 ELSE bufferUse[i][f]
          BY <2>2, <3>1, <3>2, <5>1
        <5>3. bufferUse[i][f] \in Nat /\ fences[f] \in Nat /\ bufferUse[i][f] <= fences[f]
              /\ fences[f] <= timeline
          BY <2>1, <2>2, <5>1 DEF Clock
        <5> QED BY <2>2, <4>2, <5>2, <5>3
      <4> QED BY <2>1, <2>2, <3>1, <4>1, <4>3, <4>4 DEF Clock
    <3>14. Lists'
      <4> SUFFICES ASSUME NEW k \in Kinds, NEW e \in EntriesOf(discarded'[k])
                   PROVE  e.tag <= timeline' /\ (e.item # staging' => lastUse'[e.item] <= e.tag)
        BY <3>5 DEF Lists
      <4>1. CASE e \in EntriesOf(discarded[k])
        <5>1. /\ e.tag <= timeline /\ (e.item # staging => lastUse[e.item] <= e.tag)
              /\ e.item \in ItemsOf(discarded[k]) /\ e \in Entries
          BY <2>1, <3>3, <4>1, LenProperties, ElementOfSeq DEF Lists, EntriesOf, ItemsOf
        <5>2. e.item \in Items /\ e.tag \in Nat
          BY <5>1 DEF Entries
        <5>3. lastUse'[e.item] = lastUse[e.item]
          BY <3>7, <3>8, <5>1, <5>2
        <5>4. e.item # staging' => e.item # staging
          BY <3>5, <5>2 DEF Items
        <5> QED BY <2>2, <3>1, <5>1, <5>2, <5>3, <5>4
      <4>2. CASE grown /\ e = entry
        BY <2>2, <3>1, <3>5, <4>2 DEF entry
      <4> QED BY <3>5, <4>1, <4>2
    <3>15. \A k \in Kinds, i \in Items :
             IsA(k, i)' <=> IsA(k, i) \/ (k = "buffer" /\ grown /\ i = new)
      <4> SUFFICES ASSUME NEW k \in Kinds, NEW i \in Items
                   PROVE  IsA(k, i)' <=> IsA(k, i) \/ (k = "buffer" /\ grown /\ i = new)
        OBVIOUS
      <4>1. i \in ItemsOf(discarded'[k]) <=>
              i \in ItemsOf(discarded[k]) \/ (k = "buffer" /\ grown /\ i = new)
        BY <3>5
      <4> QED BY <3>1, <3>6, <4>1 DEF IsA
    <3>16. Roles'
      <4>1. ASSUME NEW k \in Kinds, NEW i \in Items, IsA(k, i)'
            PROVE  /\ i <= created'
                   /\ k \in ConstantKinds => i \in {Constant, staging'}
                   /\ k \in GenerationKinds \cup {"commandPool"} => i # staging'
                   /\ k = "commandPool" => \A g \in GenerationKinds : ~IsA(g, i)'
        <5>1. CASE IsA(k, i)
          <6>1. i <= created /\ i # new /\ i # Null /\ i \in Nat
            BY <2>2, <2>17, <5>1 DEF Items, new
          <6>2. \A g \in GenerationKinds : g \in Kinds /\ (IsA(g, i)' <=> IsA(g, i))
            BY <2>17, <3>15, <6>1
          <6>3. /\ k \in ConstantKinds => i \in {Constant, staging}
                /\ k \in GenerationKinds \cup {"commandPool"} => i # staging
                /\ k = "commandPool" => \A g \in GenerationKinds : ~IsA(g, i)
            BY <2>1, <5>1 DEF Roles
          <6>4. i <= created' /\ (i = staging => staging' = staging)
            BY <2>2, <3>5, <6>1 DEF new
          <6>5. i # staging => i # staging'
            BY <3>5, <6>1
          <6> QED BY <6>2, <6>3, <6>4, <6>5
        <5>2. CASE k = "buffer" /\ grown /\ i = new
          BY <2>2, <2>17, <3>5, <5>2 DEF new
        <5> QED BY <3>15, <4>1, <5>1, <5>2
      <4>2. \A k \in Kinds : ~IsA(k, Constant)'
        BY <2>1, <2>2, <2>17, <3>1, <3>15 DEF Roles, new
      <4>3. 2 <= created' /\ staging' <= created' /\ staging' # Constant
            /\ (Cleaned' <=> generation' = Null)
        <5>1. CASE grown
          <6>1. 2 <= created /\ created' = created + 1 /\ staging' = created + 1
            BY <2>1, <3>5, <5>1 DEF Roles, new
          <6>2. ~Cleaned' /\ generation' # Null
            BY <3>1, <3>2
          <6> QED BY <2>2, <6>1, <6>2
        <5>2. CASE ~grown
          BY <2>1, <2>17, <3>1, <3>2, <3>5, <5>2 DEF Roles
        <5> QED BY <5>1, <5>2
      <4> QED BY <4>1, <4>2, <4>3 DEF Roles
    <3>17. Places'
      <4>1. \A k \in Kinds : \A i \in ItemsOf(discarded'[k]) : <<k, i>> \notin destroyed'
        <5> SUFFICES ASSUME NEW k \in Kinds, NEW i \in ItemsOf(discarded'[k])
                     PROVE  <<k, i>> \notin destroyed
          BY <3>1
        <5>1. i \in ItemsOf(discarded[k]) \/ i = new
          BY <3>5
        <5> QED BY <2>1, <3>4, <5>1 DEF Places
      <4>2. discarded'["commandPool"] = discarded["commandPool"]
            /\ \A k \in GenerationKinds : discarded'[k] = discarded[k]
        BY <2>17, <3>5
      <4> QED BY <2>1, <3>1, <3>6, <4>1, <4>2 DEF Places
    <3>18. Accounted'
      <4>1. \A i \in 1 .. created' : i \in Items /\ (i \in 1 .. created \/ (grown /\ i = new))
        BY <2>2, <3>2, <3>5 DEF Items, new
      <4>2. \A i \in 1 .. created' : (i = Constant /\ ~Cleaned') \/ \E k \in Kinds : IsA(k, i)'
        BY <2>1, <2>17, <3>1, <3>15, <4>1 DEF Accounted
      <4> QED BY <3>1, <4>2 DEF Accounted
    <3>19. ReleasedUnused'
      <4>1. ASSUME NEW o \in destroyed, o[2] # staging' PROVE lastUse'[o[2]] <= counter
        <5>1. o[1] \in Kinds /\ o[2] \in Items /\ o = <<o[1], o[2]>>
          <6>1. o \in Kinds \X Items
            BY <2>1 DEF TypeOK, Objects
          <6> HIDE DEF Kinds, Items
          <6> QED BY <6>1
        <5>2. o[2] # staging
          BY <3>5, <4>1, <5>1 DEF Items
        <5>3. lastUse'[o[2]] = lastUse[o[2]]
          BY <3>7, <3>8, <5>1
        <5> QED BY <2>1, <5>2, <5>3 DEF ReleasedUnused
      <4>2. \A i \in RecycledItems : lastUse'[i] = lastUse[i]
        BY <3>6, <3>7, <3>9
      <4> QED BY <2>1, <3>1, <3>6, <4>1, <4>2 DEF ReleasedUnused
    <3>20. ViewsFirst'
      <4>1. discarded'["image"] = discarded["image"] /\ discarded'["imageView"] = discarded["imageView"]
        BY <2>17, <3>5
      <4> QED BY <2>1, <3>1, <4>1 DEF ViewsFirst
    <3> QED BY <3>11, <3>12, <3>13, <3>14, <3>16, <3>17, <3>18, <3>19, <3>20 DEF PoolInv
  <2> QED
    BY <2>4, <2>6, <2>7, <2>8, <2>9, <2>10, <2>11, <2>12, <2>13, <2>14, <2>15, <2>16, <2>18,
       <2>19, <2>20, <2>21
    DEF Next, Sweep, Terminated
<1> QED BY <1>1, <1>2, PTL DEF Spec

-----------------------------------------------------------------------------
(* What follows *)

(* Every variable keeps its type, whatever the bounds.                     *)
THEOREM PoolTyping == Spec => []TypeOK
<1>1. PoolInv => TypeOK
  BY DEF PoolInv
<1> QED BY <1>1, PoolInvariant, PTL

(* Every list stays sorted by the value of the timeline, on which removeOld *)
(* relies when it stops at the first young item.                            *)
THEOREM TagsStaySorted == Spec => []TagsSorted
<1>1. PoolInv => TagsSorted
  BY DEF PoolInv, Lists, Ordered, TagsSorted
<1> QED BY <1>1, PoolInvariant, PTL

(* Nothing is destroyed or recycled while a submission that uses it runs,   *)
(* except the staging buffers.                                              *)
THEOREM NothingReleasedInUse == Spec => []ReleasedUnused
<1>1. PoolInv => ReleasedUnused
  BY DEF PoolInv
<1> QED BY <1>1, PoolInvariant, PTL

(* No handle is discarded twice or kept in two places, and when the         *)
(* application is gone every item it created has been destroyed.            *)
THEOREM HandlesOwnedOnce == Spec => []OwnedOnce
<1>1. PoolInv => OwnedOnce
  <2> SUFFICES ASSUME PoolInv PROVE OwnedOnce
    OBVIOUS
  <2>1. TypeOK /\ Lists /\ Roles /\ Places /\ Accounted
    BY DEF PoolInv
  <2>2. \A k : PendingItems(k) = ItemsOf(discarded[k])
    BY DEF PendingItems, ItemsOf
  <2>3. \A k \in Kinds : \A i, j \in DOMAIN discarded[k] :
          discarded[k][i].item = discarded[k][j].item => i = j
    BY <2>1 DEF Lists, Ordered
  <2>4. "commandPool" \in Kinds /\ GenerationKinds \subseteq Kinds
    BY DEF Kinds
  <2>5. \A k \in GenerationKinds : generation \notin ItemsOf(discarded[k])
    <3> SUFFICES ASSUME NEW k \in GenerationKinds, generation = Null
                 PROVE  generation \notin ItemsOf(discarded[k])
      BY <2>1 DEF Places
    <3>1. discarded[k] \in Seq(Entries)
      BY <2>1, <2>4 DEF TypeOK
    <3>2. \A j \in DOMAIN discarded[k] : discarded[k][j].item \in Items
      <4>1. \A j \in DOMAIN discarded[k] : discarded[k][j] \in Entries
        BY <3>1, ElementOfSeq, LenProperties
      <4> QED BY <4>1 DEF Entries
    <3> QED BY <3>2 DEF ItemsOf, Items, Null
  <2>6. ASSUME pc = "done"
        PROVE  /\ \A k \in Kinds : discarded[k] = <<>>
               /\ \A i \in 1 .. created : \E k \in Kinds : <<k, i>> \in destroyed
    <3>1. Emptied /\ PoolsGone /\ Cleaned
      BY <2>6 DEF Emptied, PoolsGone, Cleaned, Ending
    <3>2. /\ \A k \in Kinds : discarded[k] = <<>>
          /\ active = Null /\ recycled = <<>> /\ generation = Null
      BY <2>1, <3>1 DEF Accounted, Roles
    <3>3. \A k \in Kinds : ItemsOf(discarded[k]) = {}
      BY <3>2, EmptyList
    <3>4. RecycledItems = {}
      BY <3>2 DEF RecycledItems
    <3>5. \A k \in Kinds : \A i : IsA(k, i) => <<k, i>> \in destroyed
      BY <3>2, <3>3, <3>4 DEF IsA
    <3> QED BY <2>1, <3>1, <3>2, <3>5 DEF Accounted
  <2> QED BY <2>1, <2>2, <2>3, <2>4, <2>5, <2>6 DEF Places, OwnedOnce
<1> QED BY <1>1, PoolInvariant, PTL

(* The command buffer a frame records is not being executed.                *)
THEOREM CommandBuffersIdle == Spec => []CommandBufferIdle
<1>1. PoolInv => CommandBufferIdle
  <2> SUFFICES ASSUME PoolInv, pc = "record" PROVE bufferUse[active][frameIndex] <= counter
    BY DEF CommandBufferIdle
  <2>1. active \in Items /\ frameIndex \in Frames
    BY DEF PoolInv, Clock, TypeOK
  <2>2. /\ bufferUse[active][frameIndex] <= fences[frameIndex]
        /\ fences[frameIndex] <= counter
    BY <2>1 DEF PoolInv, Clock
  <2>3. /\ bufferUse[active][frameIndex] \in 0 .. MaxTimeline
        /\ fences[frameIndex] \in 0 .. MaxTimeline /\ counter \in 0 .. MaxTimeline
    BY <2>1 DEF PoolInv, TypeOK
  <2> QED BY <2>2, <2>3
<1> QED BY <1>1, PoolInvariant, PTL

(* Views go before their images, the pipeline layouts before the set        *)
(* layouts, and the command pools are gone before the last sweep.           *)
THEOREM OrderOfDestruction == Spec => []DestroyOrder
<1>1. PoolInv => DestroyOrder
  <2> SUFFICES ASSUME PoolInv PROVE DestroyOrder
    OBVIOUS
  <2>1. \A i \in Items : <<"image", i>> \in destroyed => <<"imageView", i>> \in destroyed
    BY DEF PoolInv, ViewsFirst
  <2>2. ASSUME pc = "setLayouts" PROVE <<"pipelineLayout", Constant>> \in destroyed
    <3>1. Emptied /\ Cleaned
      BY <2>2 DEF Emptied, Cleaned, Ending
    <3>2. "pipelineLayout" \in Kinds \ (GenerationKinds \cup {"commandPool"})
      BY DEF Kinds, GenerationKinds, ConstantKinds
    <3>3. IsA("pipelineLayout", Constant) /\ discarded["pipelineLayout"] = <<>>
      BY <3>1, <3>2 DEF PoolInv, Accounted
    <3> QED BY <3>2, <3>3, EmptyList DEF IsA
  <2>3. ASSUME pc = "discardPool" PROVE discarded["commandPool"] = <<>>
    <3>1. Emptied /\ "commandPool" \in Kinds
      BY <2>3 DEF Emptied, Kinds
    <3> QED BY <3>1 DEF PoolInv, Accounted
  <2> QED BY <2>1, <2>2, <2>3 DEF DestroyOrder
<1> QED BY <1>1, PoolInvariant, PTL
=============================================================================
