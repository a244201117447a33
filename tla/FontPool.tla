------------------------------ MODULE FontPool ------------------------------
(***************************************************************************)
(* The fonts and images read from the SD card into one buffer in SDRAM     *)
(* (LCD/fonts_images.c): two tables, a counter up to which the buffer is   *)
(* in use, and the font identifiers the screens draw with.                 *)
(*                                                                         *)
(* The buffer is counted in words of four bytes, to which the code rounds  *)
(* the size of a file up.  The name of an image is the set of its parts,   *)
(* so that "is contained in" (strstr) is set inclusion.                    *)
(***************************************************************************)
EXTENDS Integers, FiniteSets, FiniteSetsExt

CONSTANTS
  Fonts,       \* size, style and colours of a font, as one key
  Images,      \* the names of images
  FontIds,     \* the identifiers below MAX_OPEN_FONTS_SIMULTANEOUSLY
  NoId,        \* an identifier that is not below it
  None,        \* the key of a free slot, the owner of a word never written
  NFonts,      \* MAX_OPEN_FONTS_SIMULTANEOUSLY
  NImages,     \* MAX_OPEN_IMAGES_SIMULTANEOUSLY
  PoolSize,    \* MAX_FONTS_AND_IMAGES_MEMORY_SIZE
  FileSizes    \* the sizes a file may have

ASSUME PoolAssumption ==
  /\ NFonts \in Nat /\ NImages \in Nat /\ PoolSize \in Nat
  /\ FileSizes \subseteq Nat \ {0}
  /\ None \notin Fonts \cup Images /\ Fonts \cap Images = {}
  /\ NoId \notin FontIds

VARIABLES
  slot,     \* the tables Font and Image: key, place and length of the block
  FontID,   \* which font an identifier stands for
  counter,  \* CounterBusyBytesForFontsImages
  buffer,   \* fontsImagesMemoryBuffer: which file wrote each word last
  broken,   \* history: keys in a table whose loading failed half way
  holes,    \* history: since everything was deleted, a block was deleted
            \*   that was not the last one
  freed     \* history: since everything was deleted, one thing was deleted

vars == <<slot, FontID, counter, buffer, broken, holes, freed>>

FontSlots  == 1..NFonts
ImageSlots == (NFonts + 1)..(NFonts + NImages)
Slots      == FontSlots \cup ImageSlots
Keys       == Fonts \cup Images
Words      == 0..PoolSize-1

Free  == [key |-> None, at |-> 0, len |-> 0]
Entry == [key : Keys \cup {None}, at : Nat, len : Nat]

Used(s)  == slot[s].key # None
Block(s) == slot[s].at .. slot[s].at + slot[s].len - 1

FreeSlots(S)       == {s \in S : ~Used(s)}
SearchFontIndex(f) == {s \in FontSlots : slot[s].key = f}
SearchImageName(n) == {s \in ImageSlots : Used(s) /\ n \subseteq slot[s].key}

\* The searches go through a table from its beginning and stop at the first.
First(s, S) == s \in S /\ \A t \in S : s <= t

-----------------------------------------------------------------------------
(* Loading.  A load takes a slot, then asks for the size of the file, then   *)
(* for a block, then reads.  Nothing is taken back when a step fails, except *)
(* the slot of an image for which there is no room.                          *)

\* LCD_LoadFont gives an identifier to the font, if it is one of the table's.
SetFontID(f, id) ==
  FontID' = [i \in FontIds |-> IF i = id THEN f ELSE FontID[i]]

\* The file cannot be found: the slot stays, with no block.
NoFile(s, k) ==
  /\ slot' = [slot EXCEPT ![s].key = k]
  /\ broken' = broken \cup {k} /\ UNCHANGED <<counter, buffer>>

\* DynamicFontMemoryAllocation and DynamicImageMemoryAllocation.
Fits(size) == counter + size < PoolSize

\* Seeded faults: the block begins one word early (in the second, never below 0).
AllocateLow(s, k, size) ==
  /\ slot' = [slot EXCEPT ![s] = [key |-> k, at |-> counter - 1, len |-> size]]
  /\ counter' = counter + size

AllocateOver(s, k, size) ==
  /\ slot' = [slot EXCEPT ![s] = [key |-> k, len |-> size,
                                  at |-> IF counter = 0 THEN 0 ELSE counter - 1]]
  /\ counter' = counter + size

Allocate(s, k, size) ==
  /\ slot' = [slot EXCEPT ![s] = [key |-> k, at |-> counter, len |-> size]]
  /\ counter' = counter + size

\* f_read writes the first n words of the block.
Written(k, n) ==
  buffer' = [w \in Words |-> IF w \in counter .. counter + n - 1 THEN k ELSE buffer[w]]

\* The file cannot be opened or read to its end.
NotRead(s, k, size) ==
  /\ Fits(size) /\ Allocate(s, k, size) /\ broken' = broken \cup {k}
  /\ \E n \in 0..size : Written(k, n)

Read(s, k, size) ==
  Fits(size) /\ Allocate(s, k, size) /\ Written(k, size)

\* LCD_LoadFont, by its results.
LoadFontAgain(f, id) ==                                            \* 1
  /\ SearchFontIndex(f) # {} /\ SetFontID(f, id)
  /\ UNCHANGED <<slot, counter, buffer, broken, holes, freed>>

LoadFont(f, id) ==                                                 \* 3..7, 0
  /\ SearchFontIndex(f) = {}
  /\ \E s \in FontSlots :
       /\ First(s, FreeSlots(FontSlots))
       /\ \/ NoFile(s, f) /\ UNCHANGED FontID
          \/ \E size \in FileSizes :
               \/ ~Fits(size) /\ NoFile(s, f) /\ UNCHANGED FontID
               \/ NotRead(s, f, size) /\ UNCHANGED FontID
               \/ Read(s, f, size) /\ UNCHANGED <<FontID, broken>>   \* not closed
               \/ Read(s, f, size) /\ SetFontID(f, id) /\ UNCHANGED broken
  /\ UNCHANGED <<holes, freed>>

\* Seeded fault: the name is compared as a whole.
LoadImageNamed(n) ==
  /\ ~\E s \in ImageSlots : slot[s].key = n
  /\ \E s \in ImageSlots, size \in FileSizes :
       First(s, FreeSlots(ImageSlots)) /\ Read(s, n, size)
  /\ UNCHANGED <<FontID, broken, holes, freed>>

\* LCD_LoadImage; nothing happens when the name is found or the table is full.
LoadImage(n) ==
  /\ SearchImageName(n) = {}
  /\ \E s \in ImageSlots :
       /\ First(s, FreeSlots(ImageSlots))
       /\ \/ NoFile(s, n)
          \/ \E size \in FileSizes : \/ NotRead(s, n, size)
                                     \/ Read(s, n, size) /\ UNCHANGED broken
  /\ UNCHANGED <<FontID, holes, freed>>

-----------------------------------------------------------------------------
(* Deleting. *)

\* Seeded faults: the tables, or the identifiers, are not reset.
DeleteAllButTables ==
  /\ counter' = 0 /\ FontID' = [i \in FontIds |-> None]
  /\ UNCHANGED <<slot, buffer, broken, holes, freed>>

DeleteAllButIds ==
  /\ slot' = [s \in Slots |-> Free] /\ counter' = 0
  /\ broken' = {} /\ holes' = FALSE /\ freed' = FALSE /\ UNCHANGED <<FontID, buffer>>

LCD_DeleteAllFontAndImages ==
  /\ slot' = [s \in Slots |-> Free] /\ counter' = 0
  /\ FontID' = [i \in FontIds |-> None]
  /\ broken' = {} /\ holes' = FALSE /\ freed' = FALSE /\ UNCHANGED buffer

\* Seeded fault: the length of the block stays in the table.
DeleteKey(s) ==
  /\ slot' = [slot EXCEPT ![s].key = None] /\ counter' = counter - slot[s].len
  /\ broken' = broken \ {slot[s].key} /\ freed' = TRUE
  /\ UNCHANGED <<FontID, buffer, holes>>

\* The counter is reduced by the length of the block, wherever the block lies.
Delete(s) ==
  /\ slot' = [slot EXCEPT ![s] = Free]
  /\ counter' = IF counter >= slot[s].len THEN counter - slot[s].len ELSE 0
  /\ broken' = broken \ {slot[s].key} /\ freed' = TRUE
  /\ holes' = (holes \/ (slot[s].len > 0 /\ slot[s].at + slot[s].len # counter))
  /\ UNCHANGED <<FontID, buffer>>

LCD_DeleteFont(f)  == \E s \in FontSlots : First(s, SearchFontIndex(f)) /\ Delete(s)
LCD_DeleteImage(n) == \E s \in ImageSlots : First(s, SearchImageName(n)) /\ Delete(s)

-----------------------------------------------------------------------------
Init ==
  /\ slot = [s \in Slots |-> Free] /\ FontID = [i \in FontIds |-> None]
  /\ counter = 0 /\ buffer = [w \in Words |-> None]
  /\ broken = {} /\ holes = FALSE /\ freed = FALSE

Next ==
  \/ LCD_DeleteAllFontAndImages
  \/ \E f \in Fonts : \/ LCD_DeleteFont(f)
                      \/ \E id \in FontIds \cup {NoId} :
                           LoadFontAgain(f, id) \/ LoadFont(f, id)
  \/ \E n \in Images : LoadImage(n) \/ LCD_DeleteImage(n)

Spec == Init /\ [][Next]_vars

-----------------------------------------------------------------------------
TypeOK ==
  /\ slot \in [Slots -> Entry] /\ FontID \in [FontIds -> Fonts \cup {None}]
  /\ counter \in Nat /\ buffer \in [Words -> Keys \cup {None}]
  /\ broken \subseteq Keys /\ holes \in BOOLEAN /\ freed \in BOOLEAN
  /\ \A s \in FontSlots : slot[s].key \in Fonts \cup {None}
  /\ \A s \in ImageSlots : slot[s].key \in Images \cup {None}

\* The counter is always the room that the blocks of both tables take, so room
\* is neither lost nor given twice by count, whichever loads failed half way.
CounterIsSum ==
  counter = MapThenSumSet(LAMBDA s : slot[s].len, Slots)

\* Fonts and images never share a word and never leave the buffer, until a block
\* that is not the last one has been deleted.
BlocksApart ==
  ~holes => /\ \A s, t \in Slots : s # t => Block(s) \cap Block(t) = {}
            /\ \A s \in Slots : Block(s) \subseteq Words

\* What is drawn is what was loaded: no later load overwrites a font or an image
\* in the table, unless its own loading failed half way.
DataIntact ==
  ~holes => \A s \in Slots :
    Used(s) /\ slot[s].key \notin broken
      => Block(s) # {} /\ \A w \in Block(s) : buffer[w] = slot[s].key

\* A font identifier stands for a font that is in the table, so that text drawn
\* with it is found, as long as no single font was deleted.
IdsKnown ==
  ~freed => \A i \in FontIds : FontID[i] # None => SearchFontIndex(FontID[i]) # {}

\* The search by a part of the name finds the image itself, although images
\* whose names contain its name were loaded after it.
ImageIsFound ==
  ~freed => \A s \in ImageSlots :
              Used(s) => First(s, SearchImageName(slot[s].key))

=============================================================================
