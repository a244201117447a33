--------------------------- MODULE FontPool_proofs ---------------------------
(***************************************************************************)
(* Proofs about FontPool.  As long as only last blocks were deleted, the   *)
(* counter is above every block, and the blocks are apart: what a load     *)
(* writes, it writes where nothing is.                                     *)
(***************************************************************************)
EXTENDS FontPool, TLAPS, FiniteSetTheorems

End(s) == slot[s].at + slot[s].len

\* No key is twice in a table, so that "broken" speaks of one slot.
KeysDiffer == \A s, t \in Slots : s # t /\ Used(s) => slot[s].key # slot[t].key

\* A free slot has no block.
FreeIsEmpty == \A s \in Slots : ~Used(s) => slot[s].len = 0

Below == \A s \in Slots : slot[s].len > 0 => End(s) <= counter

Apart == \A s, t \in Slots :
  s # t /\ slot[s].len > 0 /\ slot[t].len > 0 => End(s) <= slot[t].at \/ End(t) <= slot[s].at

Whole == \A s \in Slots :
  Used(s) /\ slot[s].key \notin broken
    => slot[s].len > 0 /\ \A w \in Block(s) : buffer[w] = slot[s].key

\* Until an image is deleted, the table is filled in order, and no name is part
\* of an earlier one.
InOrder == \A s, t \in ImageSlots :
  t < s /\ Used(s) => Used(t) /\ ~(slot[s].key \subseteq slot[t].key)

PoolInv ==
  /\ TypeOK /\ KeysDiffer /\ FreeIsEmpty /\ counter <= PoolSize
  /\ ~holes => Below /\ Apart /\ Whole

SearchInv == ~freed => InOrder /\ IdsKnown

-----------------------------------------------------------------------------
\* The tables of fonts and of images have no slot in common.
LEMMA TwoTables == FontSlots \cap ImageSlots = {} /\ Slots \subseteq Nat
BY PoolAssumption DEF Slots, FontSlots, ImageSlots

\* A new key goes into a free slot and differs from every key in the tables.
LEMMA NewFont ==
  ASSUME TypeOK, NEW f \in Fonts, SearchFontIndex(f) = {},
         NEW s \in FontSlots, First(s, FreeSlots(FontSlots))
  PROVE  s \in Slots /\ ~Used(s) /\ f # None /\ \A t \in Slots : slot[t].key # f
<1>1. \A t \in ImageSlots : slot[t].key # f
  BY PoolAssumption DEF TypeOK
<1>2. QED BY <1>1, PoolAssumption DEF First, FreeSlots, SearchFontIndex, Slots

LEMMA NewImage ==
  ASSUME TypeOK, NEW n \in Images, SearchImageName(n) = {},
         NEW s \in ImageSlots, First(s, FreeSlots(ImageSlots))
  PROVE  /\ s \in Slots /\ ~Used(s) /\ n # None /\ \A t \in Slots : slot[t].key # n
         /\ \A t \in ImageSlots : t < s => Used(t)
         /\ \A t \in ImageSlots : Used(t) => ~(n \subseteq slot[t].key)
<1>1. \A t \in FontSlots : slot[t].key # n
  BY PoolAssumption DEF TypeOK
<1>2. n # None
  BY PoolAssumption
<1>3. \A t \in ImageSlots : Used(t) => ~(n \subseteq slot[t].key)
  BY DEF SearchImageName
<1>4. \A t \in ImageSlots : slot[t].key # n
  BY <1>2, <1>3 DEF Used
<1>5. \A t \in ImageSlots : t < s => Used(t)
  BY TwoTables DEF First, FreeSlots, Slots
<1>6. QED BY <1>1, <1>2, <1>3, <1>4, <1>5 DEF First, FreeSlots, Slots

-----------------------------------------------------------------------------
\* What the steps of a load do to the tables and the buffer.

\* A key without a block: it is broken, and nothing else changes.
LEMMA KeyOnly ==
  ASSUME PoolInv, NEW s \in Slots, ~Used(s), NEW k \in Keys, k # None,
         \A t \in Slots : slot[t].key # k,
         s \in FontSlots => k \in Fonts, s \in ImageSlots => k \in Images,
         NoFile(s, k), FontID' \in [FontIds -> Fonts \cup {None}],
         UNCHANGED <<holes, freed>>
  PROVE  PoolInv'
<1> USE TwoTables DEF PoolInv
<1>1. /\ slot' \in [Slots -> Entry] /\ slot'[s].key = k
      /\ \A t \in Slots : slot'[t].at = slot[t].at /\ slot'[t].len = slot[t].len
      /\ \A t \in Slots \ {s} : slot'[t] = slot[t]
  BY DEF NoFile, TypeOK, Entry
<1>2. TypeOK'
  BY <1>1 DEF NoFile, TypeOK, Slots
<1>3. KeysDiffer' /\ FreeIsEmpty'
  BY <1>1 DEF KeysDiffer, FreeIsEmpty, Used
<1>4. counter' <= PoolSize
  BY DEF NoFile
<1>5. ~holes => Below' /\ Apart'
  BY <1>1 DEF NoFile, Below, Apart, End
<1>6. ~holes => Whole'
  BY <1>1 DEF NoFile, Whole, Used, Block
<1>7. QED BY <1>2, <1>3, <1>4, <1>5, <1>6

\* A block at the counter, of which n words are written.
LEMMA Stored ==
  ASSUME PoolInv, NEW s \in Slots, ~Used(s), NEW k \in Keys, k # None,
         \A t \in Slots : slot[t].key # k,
         s \in FontSlots => k \in Fonts, s \in ImageSlots => k \in Images,
         NEW size \in FileSizes, Fits(size), Allocate(s, k, size),
         NEW n \in 0..size, Written(k, n),
         broken' = broken \cup {k} \/ (broken' = broken /\ n = size),
         FontID' \in [FontIds -> Fonts \cup {None}], UNCHANGED <<holes, freed>>
  PROVE  PoolInv'
<1> USE TwoTables, PoolAssumption DEF PoolInv
<1>1. /\ slot'[s] = [key |-> k, at |-> counter, len |-> size]
      /\ \A t \in Slots \ {s} : slot'[t] = slot[t]
      /\ counter \in Nat /\ size \in Nat \ {0}
      /\ counter' = counter + size
  BY DEF Allocate, TypeOK
<1>2. slot' \in [Slots -> Entry]
  BY <1>1 DEF Allocate, TypeOK, Entry
<1>3. buffer' \in [Words -> Keys \cup {None}]
  BY DEF Written, TypeOK
<1>4. TypeOK'
  BY <1>1, <1>2, <1>3 DEF TypeOK, Slots
<1>5. KeysDiffer' /\ FreeIsEmpty'
  BY <1>1 DEF KeysDiffer, FreeIsEmpty, Used
<1>6. counter' <= PoolSize
  BY <1>1 DEF Fits
<1>7. \A t \in Slots : slot[t].at \in Nat /\ slot[t].len \in Nat
  BY DEF TypeOK, Entry
<1>8. ASSUME ~holes PROVE Below' /\ Apart'
  <2>1. \A t \in Slots \ {s} : slot[t].len > 0 => End(t) <= counter
    BY <1>8 DEF Below
  <2>2. Below'
    BY <1>1, <1>7, <2>1 DEF Below, End
  <2>3. Apart'
    <3> SUFFICES ASSUME NEW t \in Slots, NEW u \in Slots,
                        t # u, slot'[t].len > 0, slot'[u].len > 0
                 PROVE  End(t)' <= slot'[u].at \/ End(u)' <= slot'[t].at
      BY DEF Apart
    <3>1. CASE t # s /\ u # s
      BY <1>1, <1>8, <3>1 DEF Apart, End
    <3>2. CASE t = s \/ u = s
      BY <1>1, <1>7, <2>1, <3>2 DEF End
    <3>3. QED BY <3>1, <3>2
  <2>4. QED BY <2>2, <2>3
<1>9. ASSUME ~holes PROVE Whole'
  <2> SUFFICES ASSUME NEW t \in Slots, Used(t)', slot'[t].key \notin broken'
               PROVE  slot'[t].len > 0 /\ \A w \in Block(t)' : buffer'[w] = slot'[t].key
    BY DEF Whole
  <2>1. CASE t = s
    <3>1. n = size
      BY <1>1, <2>1
    <3>2. \A w \in counter .. counter + size - 1 : w \in Words
      BY <1>1 DEF Fits, Words
    <3>3. QED BY <1>1, <2>1, <3>1, <3>2 DEF Block, Written
  <2>2. CASE t # s
    <3>1. slot[t].len > 0 /\ \A w \in Block(t) : buffer[w] = slot[t].key
      BY <1>1, <1>9, <2>2 DEF Whole, Used
    <3>2. End(t) <= counter
      BY <1>9, <3>1 DEF Below
    <3>3. \A w \in Block(t) : w \in Words /\ w \notin counter .. counter + n - 1
      BY <1>1, <1>7, <3>2 DEF Block, End, Words
    <3>4. \A w \in Block(t) : buffer'[w] = buffer[w]
      BY <3>3 DEF Written
    <3>5. QED BY <1>1, <2>2, <3>1, <3>4 DEF Block
  <2>3. QED BY <2>1, <2>2
<1>10. QED BY <1>4, <1>5, <1>6, <1>8, <1>9

\* Taking a block away: if it was the last one, the counter is at its place.
LEMMA Deleted ==
  ASSUME PoolInv, NEW s \in Slots, Used(s), Delete(s)
  PROVE  PoolInv'
<1> USE TwoTables, PoolAssumption DEF PoolInv
<1>1. /\ slot'[s] = Free /\ \A t \in Slots \ {s} : slot'[t] = slot[t]
      /\ counter \in Nat /\ \A t \in Slots : slot[t].at \in Nat /\ slot[t].len \in Nat
  BY DEF Delete, TypeOK, Entry
<1>2. counter' \in Nat /\ counter' <= PoolSize
  BY <1>1 DEF Delete
<1>3. TypeOK'
  <2>1. slot' \in [Slots -> Entry]
    BY DEF Delete, TypeOK, Entry, Free
  <2>2. broken' \subseteq Keys /\ holes' \in BOOLEAN /\ freed' \in BOOLEAN
    BY DEF Delete, TypeOK
  <2>3. UNCHANGED <<FontID, buffer>>
    BY DEF Delete
  <2>4. QED BY <1>1, <1>2, <2>1, <2>2, <2>3 DEF TypeOK, Slots, Free
<1>4. KeysDiffer' /\ FreeIsEmpty'
  <2>1. slot'[s].key = None /\ slot'[s].len = 0
    BY <1>1 DEF Free
  <2>2. KeysDiffer'
    BY <1>1, <2>1 DEF KeysDiffer, Used
  <2>3. FreeIsEmpty'
    BY <1>1, <2>1 DEF FreeIsEmpty, Used
  <2>4. QED BY <2>2, <2>3
<1>5. ASSUME ~holes' PROVE Below' /\ Apart' /\ Whole'
  <2>1. ~holes /\ (slot[s].len > 0 => End(s) = counter)
    BY <1>5 DEF Delete, TypeOK, End
  <2>2. counter' = counter - slot[s].len
    BY <1>1, <2>1 DEF Delete, End
  <2>3. Below'
    <3> SUFFICES ASSUME NEW t \in Slots, slot'[t].len > 0 PROVE End(t)' <= counter'
      BY DEF Below
    <3>1. t # s /\ slot'[t] = slot[t]
      BY <1>1 DEF Free
    <3>2. End(t) <= counter
      BY <2>1, <3>1 DEF Below
    <3>3. CASE slot[s].len = 0
      BY <1>1, <2>2, <3>1, <3>2, <3>3 DEF End
    <3>4. CASE slot[s].len > 0
      <4>1. End(s) <= slot[t].at \/ End(t) <= slot[s].at
        BY <2>1, <3>1, <3>4 DEF Apart
      <4>2. QED BY <1>1, <2>1, <2>2, <3>1, <3>2, <3>4, <4>1 DEF End
    <3>5. QED BY <1>1, <3>3, <3>4
  <2>4. Apart'
    <3> SUFFICES ASSUME NEW t \in Slots, NEW u \in Slots,
                        t # u, slot'[t].len > 0, slot'[u].len > 0
                 PROVE  End(t)' <= slot'[u].at \/ End(u)' <= slot'[t].at
      BY DEF Apart
    <3>1. slot'[t] = slot[t] /\ slot'[u] = slot[u]
      BY <1>1 DEF Free
    <3>2. End(t) <= slot[u].at \/ End(u) <= slot[t].at
      BY <2>1, <3>1 DEF Apart
    <3>3. QED BY <3>1, <3>2 DEF End
  <2>5. Whole'
    <3> SUFFICES ASSUME NEW t \in Slots, Used(t)', slot'[t].key \notin broken'
                 PROVE  slot'[t].len > 0 /\ \A w \in Block(t)' : buffer'[w] = slot'[t].key
      BY DEF Whole
    <3>1. t # s /\ slot'[t] = slot[t]
      BY <1>1 DEF Used, Free
    <3>2. slot[t].key \notin broken
      BY <3>1 DEF Delete, KeysDiffer
    <3>3. QED BY <2>1, <3>1, <3>2 DEF Whole, Used, Block, Delete
  <2>6. QED BY <2>3, <2>4, <2>5
<1>6. QED BY <1>2, <1>3, <1>4, <1>5

-----------------------------------------------------------------------------
LEMMA PoolInit == Init => PoolInv
<1> SUFFICES ASSUME Init PROVE PoolInv
  OBVIOUS
<1>1. \A s \in Slots : slot[s] = Free
  BY DEF Init
<1>2. TypeOK /\ counter <= PoolSize
  <2>1. Free \in Entry /\ Free.key = None
    BY DEF Free, Entry
  <2>2. slot \in [Slots -> Entry] /\ FontID \in [FontIds -> Fonts \cup {None}]
    BY <2>1 DEF Init
  <2>3. buffer \in [Words -> Keys \cup {None}] /\ counter = 0
    BY DEF Init
  <2>4. broken \subseteq Keys /\ holes \in BOOLEAN /\ freed \in BOOLEAN
    BY DEF Init
  <2>5. QED BY <1>1, <2>1, <2>2, <2>3, <2>4, PoolAssumption DEF TypeOK, Slots
<1>3. QED BY <1>1, <1>2 DEF PoolInv, KeysDiffer, FreeIsEmpty, Below, Apart, Whole, Free, Used

LEMMA PoolStep == PoolInv /\ [Next]_vars => PoolInv'
<1> SUFFICES ASSUME PoolInv, [Next]_vars PROVE PoolInv'
  OBVIOUS
<1>1. TypeOK
  BY DEF PoolInv
<1>2. ASSUME LCD_DeleteAllFontAndImages PROVE PoolInv'
  <2>1. \A s \in Slots : slot'[s] = Free
    BY <1>2 DEF LCD_DeleteAllFontAndImages
  <2>2. TypeOK' /\ counter' <= PoolSize
    <3>1. Free \in Entry /\ Free.key = None
      BY DEF Free, Entry
    <3>2. slot' \in [Slots -> Entry] /\ FontID' \in [FontIds -> Fonts \cup {None}]
      BY <1>2, <3>1 DEF LCD_DeleteAllFontAndImages
    <3>3. buffer' \in [Words -> Keys \cup {None}] /\ counter' = 0
      BY <1>1, <1>2 DEF LCD_DeleteAllFontAndImages, TypeOK
    <3>4. broken' \subseteq Keys /\ holes' \in BOOLEAN /\ freed' \in BOOLEAN
      BY <1>2 DEF LCD_DeleteAllFontAndImages
    <3>5. QED BY <2>1, <3>1, <3>2, <3>3, <3>4, PoolAssumption DEF TypeOK, Slots
  <2>3. QED BY <2>1, <2>2 DEF PoolInv, KeysDiffer, FreeIsEmpty, Below, Apart, Whole, Free, Used
<1>3. ASSUME NEW f \in Fonts, NEW id \in FontIds \cup {NoId}, LoadFontAgain(f, id)
      PROVE  PoolInv'
  <2>1. FontID' \in [FontIds -> Fonts \cup {None}] /\ UNCHANGED <<slot, counter, buffer, broken, holes>>
    BY <1>1, <1>3 DEF LoadFontAgain, SetFontID, TypeOK
  <2>2. UNCHANGED freed
    BY <1>3 DEF LoadFontAgain
  <2>3. QED BY <2>1, <2>2 DEF PoolInv, TypeOK, KeysDiffer, FreeIsEmpty, Below, Apart, Whole,
               Used, Block, End
<1>4. ASSUME NEW f \in Fonts, NEW id \in FontIds \cup {NoId}, LoadFont(f, id)
      PROVE  PoolInv'
  <2>1. PICK s \in FontSlots :
          /\ First(s, FreeSlots(FontSlots))
          /\ \/ NoFile(s, f)
             \/ \E size \in FileSizes :
                  \/ NotRead(s, f, size)
                  \/ Read(s, f, size) /\ UNCHANGED broken
    BY <1>4 DEF LoadFont
  <2>2. /\ s \in Slots /\ ~Used(s) /\ f # None /\ \A t \in Slots : slot[t].key # f
        /\ f \in Keys /\ s \notin ImageSlots
    BY <1>1, <1>4, <2>1, NewFont, TwoTables DEF LoadFont, Keys
  <2>3. FontID' \in [FontIds -> Fonts \cup {None}] /\ UNCHANGED <<holes, freed>>
    BY <1>1, <1>4 DEF LoadFont, SetFontID, TypeOK
  <2>4. CASE NoFile(s, f)
    BY <2>2, <2>3, <2>4, KeyOnly
  <2>5. ASSUME NEW size \in FileSizes, NotRead(s, f, size) PROVE PoolInv'
    BY <2>2, <2>3, <2>5, Stored DEF NotRead
  <2>6. ASSUME NEW size \in FileSizes, Read(s, f, size), UNCHANGED broken PROVE PoolInv'
    <3>1. size \in 0..size
      BY PoolAssumption
    <3>2. QED BY <2>2, <2>3, <2>6, <3>1, Stored DEF Read
  <2>7. QED BY <2>1, <2>4, <2>5, <2>6
<1>5. ASSUME NEW n \in Images, LoadImage(n) PROVE PoolInv'
  <2>1. PICK s \in ImageSlots :
          /\ First(s, FreeSlots(ImageSlots))
          /\ \/ NoFile(s, n)
             \/ \E size \in FileSizes :
                  \/ NotRead(s, n, size)
                  \/ Read(s, n, size) /\ UNCHANGED broken
    BY <1>5 DEF LoadImage
  <2>2. /\ s \in Slots /\ ~Used(s) /\ n # None /\ \A t \in Slots : slot[t].key # n
        /\ n \in Keys /\ s \notin FontSlots
    BY <1>1, <1>5, <2>1, NewImage, TwoTables DEF LoadImage, Keys
  <2>3. FontID' \in [FontIds -> Fonts \cup {None}] /\ UNCHANGED <<holes, freed>>
    BY <1>1, <1>5 DEF LoadImage, TypeOK
  <2>4. CASE NoFile(s, n)
    BY <2>2, <2>3, <2>4, KeyOnly
  <2>5. ASSUME NEW size \in FileSizes, NotRead(s, n, size) PROVE PoolInv'
    BY <2>2, <2>3, <2>5, Stored DEF NotRead
  <2>6. ASSUME NEW size \in FileSizes, Read(s, n, size), UNCHANGED broken PROVE PoolInv'
    <3>1. size \in 0..size
      BY PoolAssumption
    <3>2. QED BY <2>2, <2>3, <2>6, <3>1, Stored DEF Read
  <2>7. QED BY <2>1, <2>4, <2>5, <2>6
<1>6. ASSUME NEW f \in Fonts, LCD_DeleteFont(f) PROVE PoolInv'
  <2>1. PICK s \in FontSlots : s \in SearchFontIndex(f) /\ Delete(s)
    BY <1>6 DEF LCD_DeleteFont, First
  <2>2. s \in Slots /\ Used(s)
    BY <2>1, PoolAssumption DEF SearchFontIndex, Slots, Used
  <2>3. QED BY <2>1, <2>2, Deleted
<1>7. ASSUME NEW n \in Images, LCD_DeleteImage(n) PROVE PoolInv'
  <2>1. PICK s \in ImageSlots : s \in SearchImageName(n) /\ Delete(s)
    BY <1>7 DEF LCD_DeleteImage, First
  <2>2. s \in Slots /\ Used(s)
    BY <2>1 DEF SearchImageName, Slots
  <2>3. QED BY <2>1, <2>2, Deleted
<1>8. CASE UNCHANGED vars
  BY <1>8 DEF vars, PoolInv, TypeOK, KeysDiffer, FreeIsEmpty, Below, Apart, Whole, Used, Block, End
<1>9. QED BY <1>2, <1>3, <1>4, <1>5, <1>6, <1>7, <1>8 DEF Next

\* The pool's invariant, of which the theorems below are parts.
THEOREM PoolSafe == Spec => []PoolInv
BY PoolInit, PoolStep, PTL DEF Spec

\* Both tables, the counter and the buffer keep their types (fonts_images.c 60-80).
THEOREM TypeCorrect == Spec => []TypeOK
<1>1. PoolInv => TypeOK
  BY DEF PoolInv
<1>2. QED BY <1>1, PoolSafe, PTL

\* Fonts and images never share memory, nor leave the buffer, however often
\* loads fail, until a block that is not the last is deleted.
THEOREM BlocksNeverOverlap == Spec => []BlocksApart
<1>1. ASSUME PoolInv PROVE BlocksApart
  <2> SUFFICES ASSUME ~holes PROVE BlocksApart
    BY DEF BlocksApart
  <2>1. \A s \in Slots : slot[s].at \in Nat /\ slot[s].len \in Nat
    BY <1>1 DEF PoolInv, TypeOK, Entry
  <2>2. \A s \in Slots : Block(s) \subseteq Words
    BY <1>1, <2>1, PoolAssumption DEF PoolInv, TypeOK, Below, Block, Words, End
  <2>3. \A s, t \in Slots : s # t => Block(s) \cap Block(t) = {}
    BY <1>1, <2>1 DEF PoolInv, Apart, Block, End
  <2>4. QED BY <2>2, <2>3 DEF BlocksApart
<1>2. QED BY <1>1, PoolSafe, PTL

\* What was loaded is not overwritten by what is loaded later.
THEOREM LoadedDataStays == Spec => []DataIntact
<1>1. ASSUME PoolInv PROVE DataIntact
  <2> SUFFICES ASSUME ~holes, NEW s \in Slots, Used(s), slot[s].key \notin broken
               PROVE  Block(s) # {} /\ \A w \in Block(s) : buffer[w] = slot[s].key
    BY DEF DataIntact
  <2>1. slot[s].at \in Nat /\ slot[s].len \in Nat /\ slot[s].len > 0
    BY <1>1 DEF PoolInv, TypeOK, Entry, Whole
  <2>2. slot[s].at \in Block(s)
    BY <2>1 DEF Block
  <2>3. QED BY <1>1, <2>2 DEF PoolInv, Whole
<1>2. QED BY <1>1, PoolSafe, PTL

-----------------------------------------------------------------------------
LEMMA SearchInit == Init => SearchInv
BY TwoTables DEF Init, SearchInv, InOrder, IdsKnown, Used, Free, Slots

LEMMA SearchStep == PoolInv /\ SearchInv /\ [Next]_vars => SearchInv'
<1> SUFFICES ASSUME PoolInv, SearchInv, [Next]_vars, ~freed' PROVE InOrder' /\ IdsKnown'
  BY DEF SearchInv
<1>1. TypeOK
  BY DEF PoolInv
<1>2. CASE LCD_DeleteAllFontAndImages
  BY <1>2 DEF LCD_DeleteAllFontAndImages, InOrder, IdsKnown, Used, Free, Slots
<1>3. ASSUME NEW f \in Fonts, NEW id \in FontIds \cup {NoId}, LoadFontAgain(f, id)
      PROVE  InOrder' /\ IdsKnown'
  <2>1. InOrder /\ IdsKnown /\ UNCHANGED slot
    BY <1>3 DEF LoadFontAgain, SearchInv
  <2>2. InOrder'
    BY <2>1 DEF InOrder, Used
  <2>3. IdsKnown'
    BY <1>3, <2>1 DEF LoadFontAgain, SetFontID, IdsKnown, SearchFontIndex
  <2>4. QED BY <2>2, <2>3
<1>4. ASSUME NEW f \in Fonts, NEW id \in FontIds \cup {NoId}, LoadFont(f, id)
      PROVE  InOrder' /\ IdsKnown'
  <2>1. PICK s \in FontSlots :
          /\ First(s, FreeSlots(FontSlots))
          /\ \/ NoFile(s, f)
             \/ \E size \in FileSizes : Allocate(s, f, size)
    BY <1>4 DEF LoadFont, NotRead, Read
  <2>2. s \in Slots /\ ~Used(s)
    BY <1>1, <1>4, <2>1, NewFont DEF LoadFont
  <2>3. slot'[s].key = f /\ \A t \in Slots \ {s} : slot'[t] = slot[t]
    BY <1>1, <2>1, <2>2 DEF NoFile, Allocate, TypeOK, Entry
  <2>4. InOrder /\ IdsKnown
    BY <1>4 DEF LoadFont, SearchInv
  <2>5. InOrder'
    BY <2>1, <2>3, <2>4, TwoTables DEF InOrder, Used, Slots
  <2>6. \A g \in Fonts : SearchFontIndex(g) # {} => SearchFontIndex(g)' # {}
    BY <2>2, <2>3, PoolAssumption DEF SearchFontIndex, Used, Slots
  <2>7. SearchFontIndex(f)' # {}
    BY <2>1, <2>3 DEF SearchFontIndex
  <2>8. FontID' = FontID \/ SetFontID(f, id)
    BY <1>4 DEF LoadFont
  <2>9. IdsKnown'
    BY <1>1, <1>4, <2>4, <2>6, <2>7, <2>8 DEF IdsKnown, SetFontID, LoadFont, TypeOK
  <2>10. QED BY <2>5, <2>9
<1>5. ASSUME NEW n \in Images, LoadImage(n) PROVE InOrder' /\ IdsKnown'
  <2>1. PICK s \in ImageSlots :
          /\ First(s, FreeSlots(ImageSlots))
          /\ \/ NoFile(s, n)
             \/ \E size \in FileSizes : Allocate(s, n, size)
    BY <1>5 DEF LoadImage, NotRead, Read
  <2>2. /\ s \in Slots /\ ~Used(s) /\ n # None
        /\ \A t \in ImageSlots : t < s => Used(t)
        /\ \A t \in ImageSlots : Used(t) => ~(n \subseteq slot[t].key)
    BY <1>1, <1>5, <2>1, NewImage DEF LoadImage
  <2>3. slot'[s].key = n /\ \A t \in Slots \ {s} : slot'[t] = slot[t]
    BY <1>1, <2>1, <2>2 DEF NoFile, Allocate, TypeOK, Entry
  <2>4. InOrder /\ IdsKnown
    BY <1>5 DEF LoadImage, SearchInv
  <2>5. InOrder'
    <3> SUFFICES ASSUME NEW u \in ImageSlots, NEW t \in ImageSlots, t < u, Used(u)'
                 PROVE  Used(t)' /\ ~(slot'[u].key \subseteq slot'[t].key)
      BY DEF InOrder
    <3>1. CASE u = s
      BY <2>2, <2>3, <3>1, TwoTables DEF Used, Slots
    <3>2. CASE t = s
      BY <2>2, <2>3, <2>4, <3>2, TwoTables DEF Used, Slots, InOrder
    <3>3. CASE u # s /\ t # s
      BY <2>3, <2>4, <3>3 DEF Used, Slots, InOrder
    <3>4. QED BY <3>1, <3>2, <3>3
  <2>6. \A t \in FontSlots : slot'[t] = slot[t]
    BY <2>1, <2>3, TwoTables DEF Slots
  <2>7. IdsKnown'
    BY <1>5, <2>4, <2>6 DEF IdsKnown, LoadImage, SearchFontIndex
  <2>8. QED BY <2>5, <2>7
<1>6. \A f \in Fonts : ~LCD_DeleteFont(f)
  BY DEF LCD_DeleteFont, Delete
<1>7. \A n \in Images : ~LCD_DeleteImage(n)
  BY DEF LCD_DeleteImage, Delete
<1>8. CASE UNCHANGED vars
  BY <1>8 DEF vars, SearchInv, InOrder, IdsKnown, Used, SearchFontIndex
<1>9. QED BY <1>2, <1>3, <1>4, <1>5, <1>6, <1>7, <1>8 DEF Next

\* Text is drawn with a font that is in the table, whatever loads failed, as
\* long as no single font or image was deleted.
THEOREM IdsStayKnown == Spec => []IdsKnown
<1>1. SearchInv => IdsKnown
  BY DEF SearchInv, IdsKnown
<1>2. QED BY <1>1, PoolSafe, SearchInit, SearchStep, PTL DEF Spec

\* An image is found under its name, although the search takes the first name
\* that contains it.
THEOREM ImagesAreFound == Spec => []ImageIsFound
<1>1. ASSUME SearchInv PROVE ImageIsFound
  <2> SUFFICES ASSUME ~freed, NEW s \in ImageSlots, Used(s),
                      NEW t \in SearchImageName(slot[s].key)
               PROVE  s <= t
    BY DEF ImageIsFound, First, SearchImageName
  <2>1. t \in ImageSlots /\ slot[s].key \subseteq slot[t].key
    BY DEF SearchImageName
  <2>2. ~(t < s)
    BY <1>1, <2>1 DEF SearchInv, InOrder
  <2>3. QED BY <2>1, <2>2, TwoTables DEF Slots
<1>2. QED BY <1>1, PoolSafe, SearchInit, SearchStep, PTL DEF Spec

-----------------------------------------------------------------------------
(* The counter is the sum of the lengths.  The sum is defined by recursion *)
(* over the subsets of Slots; w is a function that meets its equation for  *)
(* every element that may be taken out, so for the chosen one.             *)

Lens == [s \in Slots |-> slot[s].len]

Adds(w, g) ==
  /\ w \in [SUBSET Slots -> Nat] /\ w[{}] = 0
  /\ \A T \in SUBSET Slots : \A x \in T : w[T] = g[x] + w[T \ {x}]

SumInv == \E w : Adds(w, Lens) /\ w[Slots] = counter

Rest(T) == T \ {CHOOSE x \in T : TRUE}

Folds(it, g) ==
  it = [T \in SUBSET Slots |-> IF T = {} THEN 0
                               ELSE g[CHOOSE x \in T : TRUE] + it[T \ {CHOOSE x \in T : TRUE}]]

SumOf(g) == CHOOSE it : Folds(it, g)

LEMMA CounterIs == CounterIsSum <=> counter = SumOf(Lens)[Slots]
BY DEF CounterIsSum, MapThenSumSet, MapThenFoldSet, SumOf, Folds, Lens

LEMMA SlotsFinite == IsFiniteSet(Slots)
<1>1. NFonts \in Int /\ NImages \in Int /\ 1 \in Int /\ NFonts + 1 \in Int /\ NFonts + NImages \in Int
  BY PoolAssumption
<1>2. IsFiniteSet(FontSlots) /\ IsFiniteSet(ImageSlots)
  BY <1>1, FS_Interval DEF FontSlots, ImageSlots
<1>3. QED BY <1>2, FS_Union DEF Slots

\* Two functions that meet the equation of the fold are the same.
LEMMA FoldUnique ==
  ASSUME NEW g, NEW v, NEW w, Folds(v, g), Folds(w, g)
  PROVE  v = w
<1> DEFINE Bad == {T \in SUBSET Slots : v[T] # w[T]}
<1>1. \A T \in SUBSET Slots : T # {} => Rest(T) \in SUBSET Slots /\ Rest(T) \subseteq T /\ Rest(T) # T
  BY DEF Rest
<1>2. /\ v[{}] = w[{}]
      /\ \A T \in SUBSET Slots : T # {} /\ v[Rest(T)] = w[Rest(T)] => v[T] = w[T]
  BY DEF Folds, Rest
<1>3. Bad = {}
  <2> SUFFICES ASSUME Bad # {} PROVE FALSE
    OBVIOUS
  <2>1. Bad \subseteq FiniteSubsetsOf(Slots)
    BY SlotsFinite, FS_Subset DEF FiniteSubsetsOf
  <2>2. PICK T \in Bad : \A U \in Bad : <<U, T>> \notin StrictSubsetOrdering(Slots)
    BY <2>1, FS_StrictSubsetOrderingWellFounded, WFMin
  <2>3. T # {} /\ Rest(T) \notin Bad
    BY <1>1, <1>2, <2>2 DEF StrictSubsetOrdering
  <2>4. QED BY <1>1, <1>2, <2>3
<1>4. \A T \in SUBSET Slots : v[T] = w[T]
  BY <1>3
<1>5. v = [T \in SUBSET Slots |-> v[T]] /\ w = [T \in SUBSET Slots |-> w[T]]
  BY DEF Folds
<1>6. QED BY <1>4, <1>5

LEMMA SumIs ==
  ASSUME NEW g, NEW w, Adds(w, g)
  PROVE  SumOf(g) = w
<1>1. \A T \in SUBSET Slots : T # {} => (CHOOSE x \in T : TRUE) \in T
  OBVIOUS
<1>2. Folds(w, g)
  BY <1>1 DEF Adds, Folds
<1>3. Folds(SumOf(g), g)
  BY <1>2 DEF SumOf
<1>4. QED BY <1>2, <1>3, FoldUnique

\* One length is replaced by another.
LEMMA OneChanges ==
  ASSUME NEW g \in [Slots -> Nat], NEW h \in [Slots -> Nat], NEW w, Adds(w, g),
         NEW s \in Slots, \A t \in Slots \ {s} : h[t] = g[t]
  PROVE  /\ w[Slots] >= g[s]
         /\ \E v : Adds(v, h) /\ v[Slots] = w[Slots] - g[s] + h[s]
<1> DEFINE v == [T \in SUBSET Slots |-> IF s \in T THEN h[s] + w[T \ {s}] ELSE w[T]]
<1>1. \A T \in SUBSET Slots : w[T] \in Nat
  BY DEF Adds
<1>2. v \in [SUBSET Slots -> Nat] /\ v[{}] = 0
  BY <1>1 DEF Adds
<1>3. ASSUME NEW T \in SUBSET Slots, NEW x \in T PROVE v[T] = h[x] + v[T \ {x}]
  <2>1. CASE x = s
    BY <2>1
  <2>2. CASE x # s /\ s \notin T
    BY <2>2 DEF Adds
  <2>3. CASE x # s /\ s \in T
    <3>1. (T \ {s}) \ {x} = (T \ {x}) \ {s}
      OBVIOUS
    <3>2. w[T \ {s}] = g[x] + w[(T \ {x}) \ {s}]
      BY <2>3, <3>1 DEF Adds
    <3>3. v[T] = h[s] + w[T \ {s}] /\ v[T \ {x}] = h[s] + w[(T \ {x}) \ {s}]
      BY <2>3
    <3>4. /\ w[T \ {s}] \in Nat /\ w[(T \ {x}) \ {s}] \in Nat
          /\ h[x] = g[x] /\ g[x] \in Nat /\ h[s] \in Nat
      BY <1>1, <2>3
    <3> HIDE DEF v
    <3>5. QED BY <3>2, <3>3, <3>4
  <2>4. QED BY <2>1, <2>2, <2>3
<1>4. w[Slots] = g[s] + w[Slots \ {s}] /\ w[Slots \ {s}] \in Nat
  BY <1>1 DEF Adds
<1>5. v[Slots] = h[s] + w[Slots \ {s}]
  OBVIOUS
<1>6. g[s] \in Nat /\ h[s] \in Nat
  OBVIOUS
<1>7. Adds(v, h)
  BY <1>2, <1>3 DEF Adds
<1> HIDE DEF v
<1>8. w[Slots] >= g[s] /\ v[Slots] = w[Slots] - g[s] + h[s]
  BY <1>4, <1>5, <1>6
<1>9. QED BY <1>7, <1>8

\* What a step does to the lengths: nothing; or one changes, and the counter by
\* as much, unless it would be below 0; or everything is deleted.
SumKept == Lens' = Lens /\ counter' = counter

SumMoves == \E s \in Slots :
  /\ \A t \in Slots \ {s} : slot'[t].len = slot[t].len
  /\ \/ slot'[s].len \in Nat /\ slot[s].len = 0 /\ counter' = counter + slot'[s].len
     \/ /\ slot'[s].len = 0
        /\ counter' = IF counter >= slot[s].len THEN counter - slot[s].len ELSE 0

SumReset == (\A s \in Slots : slot'[s].len = 0) /\ counter' = 0

LEMMA KeyIsKept ==
  ASSUME TypeOK, NEW s \in Slots, NEW k, NoFile(s, k)
  PROVE  SumKept
BY DEF NoFile, SumKept, Lens, TypeOK, Entry

LEMMA BlockMoves ==
  ASSUME PoolInv, NEW s \in Slots, ~Used(s), NEW k, NEW size \in FileSizes, Allocate(s, k, size)
  PROVE  SumMoves
<1>1. /\ slot' = [slot EXCEPT ![s] = [key |-> k, at |-> counter, len |-> size]]
      /\ counter' = counter + size /\ size \in Nat
  BY PoolAssumption DEF Allocate
<1>2. slot'[s].len = size /\ \A t \in Slots \ {s} : slot'[t] = slot[t]
  BY <1>1 DEF PoolInv, TypeOK
<1>3. slot[s].len = 0
  BY DEF PoolInv, FreeIsEmpty
<1>4. QED BY <1>1, <1>2, <1>3 DEF SumMoves

LEMMA DeleteMoves ==
  ASSUME TypeOK, NEW s \in Slots, Delete(s)
  PROVE  SumMoves
<1>1. slot'[s].len = 0 /\ \A t \in Slots \ {s} : slot'[t] = slot[t]
  BY DEF Delete, TypeOK, Free
<1>2. QED BY <1>1 DEF Delete, SumMoves

LEMMA SumStep == PoolInv /\ [Next]_vars => SumKept \/ SumMoves \/ SumReset
<1> SUFFICES ASSUME PoolInv, [Next]_vars PROVE SumKept \/ SumMoves \/ SumReset
  OBVIOUS
<1>1. TypeOK
  BY DEF PoolInv
<1>2. CASE LCD_DeleteAllFontAndImages
  BY <1>2 DEF LCD_DeleteAllFontAndImages, SumReset, Free
<1>3. ASSUME NEW f \in Fonts, NEW id \in FontIds \cup {NoId}, LoadFontAgain(f, id)
      PROVE  SumKept
  BY <1>3 DEF LoadFontAgain, SumKept, Lens
<1>4. ASSUME NEW f \in Fonts, NEW id \in FontIds \cup {NoId}, LoadFont(f, id)
      PROVE  SumKept \/ SumMoves
  <2>1. PICK s \in FontSlots :
          /\ First(s, FreeSlots(FontSlots))
          /\ NoFile(s, f) \/ \E size \in FileSizes : Allocate(s, f, size)
    BY <1>4 DEF LoadFont, NotRead, Read
  <2>2. s \in Slots /\ ~Used(s)
    BY <2>1 DEF First, FreeSlots, Slots
  <2>3. QED BY <1>1, <2>1, <2>2, KeyIsKept, BlockMoves
<1>5. ASSUME NEW n \in Images, LoadImage(n) PROVE SumKept \/ SumMoves
  <2>1. PICK s \in ImageSlots :
          /\ First(s, FreeSlots(ImageSlots))
          /\ NoFile(s, n) \/ \E size \in FileSizes : Allocate(s, n, size)
    BY <1>5 DEF LoadImage, NotRead, Read
  <2>2. s \in Slots /\ ~Used(s)
    BY <2>1 DEF First, FreeSlots, Slots
  <2>3. QED BY <1>1, <2>1, <2>2, KeyIsKept, BlockMoves
<1>6. ASSUME NEW f \in Fonts, LCD_DeleteFont(f) PROVE SumMoves
  BY <1>1, <1>6, DeleteMoves DEF LCD_DeleteFont, Slots
<1>7. ASSUME NEW n \in Images, LCD_DeleteImage(n) PROVE SumMoves
  BY <1>1, <1>7, DeleteMoves DEF LCD_DeleteImage, Slots
<1>8. CASE UNCHANGED vars
  BY <1>8 DEF vars, SumKept, Lens
<1>9. QED BY <1>2, <1>3, <1>4, <1>5, <1>6, <1>7, <1>8 DEF Next

LEMMA SumZero ==
  ASSUME NEW g \in [Slots -> Nat], \A s \in Slots : g[s] = 0
  PROVE  \E w : Adds(w, g) /\ w[Slots] = 0
<1> DEFINE w == [T \in SUBSET Slots |-> 0]
<1>1. Adds(w, g)
  BY DEF Adds
<1>2. w[Slots] = 0
  OBVIOUS
<1>3. QED BY <1>1, <1>2

LEMMA SumInductive == (Init => SumInv) /\ (PoolInv /\ SumInv /\ [Next]_vars => SumInv')
<1>1. ASSUME Init PROVE SumInv
  <2>1. Lens \in [Slots -> Nat] /\ \A s \in Slots : Lens[s] = 0
    BY <1>1 DEF Init, Free, Lens
  <2>2. counter = 0
    BY <1>1 DEF Init
  <2>3. QED BY <2>1, <2>2, SumZero DEF SumInv
<1>2. ASSUME PoolInv, SumInv, [Next]_vars PROVE SumInv'
  <2>1. Lens \in [Slots -> Nat] /\ Lens' \in [Slots -> Nat]
    <3>1. TypeOK /\ TypeOK'
      BY <1>2, PoolStep DEF PoolInv
    <3>2. QED BY <3>1 DEF TypeOK, Entry, Lens
  <2>2. /\ \A s \in Slots : Lens[s] = slot[s].len
        /\ \A s \in Slots : Lens'[s] = slot'[s].len
    BY DEF Lens
  <2>3. PICK w : Adds(w, Lens) /\ w[Slots] = counter
    BY <1>2 DEF SumInv
  <2>4. CASE SumKept
    BY <2>3, <2>4 DEF SumKept, SumInv
  <2>5. CASE SumReset
    <3>1. \E v : Adds(v, Lens') /\ v[Slots] = 0
      BY <2>1, <2>2, <2>5, SumZero DEF SumReset
    <3>2. QED BY <2>5, <3>1 DEF SumReset, SumInv
  <2>6. CASE SumMoves
    <3>1. PICK s \in Slots :
            /\ \A t \in Slots \ {s} : Lens'[t] = Lens[t]
            /\ \/ Lens[s] = 0 /\ counter' = counter + Lens'[s]
               \/ /\ Lens'[s] = 0
                  /\ counter' = IF counter >= Lens[s] THEN counter - Lens[s] ELSE 0
      BY <2>2, <2>6 DEF SumMoves
    <3>2. /\ w[Slots] >= Lens[s]
          /\ \E v : Adds(v, Lens') /\ v[Slots] = w[Slots] - Lens[s] + Lens'[s]
      <4>1. \A t \in Slots \ {s} : Lens'[t] = Lens[t]
        BY <3>1
      <4>2. Adds(w, Lens)
        BY <2>3
      <4>3. QED BY <2>1, <2>3, <4>1, <4>2, OneChanges
    <3>3. counter \in Nat /\ Lens[s] \in Nat /\ Lens'[s] \in Nat
      BY <1>2, <2>1 DEF PoolInv, TypeOK
    <3>4. counter' = counter - Lens[s] + Lens'[s]
      BY <2>3, <3>1, <3>2, <3>3
    <3>5. QED BY <2>3, <3>2, <3>4 DEF SumInv
  <2>7. QED BY <1>2, <2>4, <2>5, <2>6, SumStep
<1>3. QED BY <1>1, <1>2

\* Room is neither lost nor given twice by count, whichever loads failed half way
\* and whatever was deleted, for tables and a buffer of any size.
THEOREM RoomIsCounted == Spec => []CounterIsSum
<1>1. SumInv => CounterIsSum
  BY CounterIs, SumIs DEF SumInv
<1>2. QED BY <1>1, PoolInit, PoolStep, SumInductive, PTL DEF Spec

=============================================================================
