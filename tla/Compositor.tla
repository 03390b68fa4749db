----------------------------- MODULE Compositor -----------------------------
(***************************************************************************)
(* The compositor (userland/src/bin/compositor.rs): surfaces in a table,   *)
(* composed back to front into a back buffer, and only the damaged tiles   *)
(* of it copied to the display.                                            *)
(*                                                                         *)
(* The screen is one row of pixels, so a rectangle is an interval and a    *)
(* surface has a place and a width; the other dimension is treated alike   *)
(* throughout the code.  The display is kept in bytes, three to a pixel,   *)
(* because flush stores four at a time.  Where keys go is not modelled.    *)
(***************************************************************************)
EXTENDS Integers, FiniteSets, Sequences, SequencesExt, FiniteSetsExt

CONSTANTS Width,          \* pixels across the screen
          Tile,           \* Damage::tile
          CursorWidth,    \* CURSOR_WIDTH
          SurfaceWidth,   \* buffer handle -> its width
          MaxSurfaces,    \* MAX_SURFACES
          Places,         \* where clients put surfaces
          Depths,         \* the z clients ask for
          MaxZ            \* bound: how far clicks may raise a surface

VARIABLES surfaces,       \* slot -> [buffer, x, z]
          cursorX, cursorVisible, pressed,
          back, display   \* pixels, and bytes

compositorVars == <<surfaces, cursorX, cursorVisible, pressed, back, display>>

Surface == DOMAIN SurfaceWidth
SlotIndex == 1..MaxSurfaces
Empty == [buffer |-> 0, x |-> 0, z |-> 0]
Screen == 0..(Width - 1)
Background == 0
Cursor == -1

\* A pixel's three bytes; which surface they are of is what matters.
Byte(pixel, i) == <<pixel, i>>

CompositorInit ==
  /\ surfaces = [s \in SlotIndex |-> Empty]
  /\ cursorX = Width \div 2 /\ cursorVisible = FALSE /\ pressed = FALSE
  /\ back = [x \in Screen |-> Background]
  /\ display = [b \in 0..(3 * Width - 1) |-> Byte(Background, b % 3)]

BoundsOf(surface) == surface.x..(surface.x + SurfaceWidth[surface.buffer] - 1)
CursorRect(x) == x..(x + CursorWidth - 1)

\* Damage::add and drain: whole tiles, the last one standing for everything
\* beyond the grid.
Tiles(area) == {Min({x \div Tile, (Width - 1) \div Tile}) : x \in area}
Damaged(area) == {x \in Screen : x \div Tile \in Tiles(area)}

\* sorted_by_depth: by z, and in table order among equals; the last of
\* those drawn at a pixel is the one that shows.
Below(table, i, j) ==
  table[i].z < table[j].z \/ (table[i].z = table[j].z /\ i < j)

LiveSlots(table) == {i \in SlotIndex : table[i].buffer # 0}
SlotsAt(table, x) == {i \in LiveSlots(table) : x \in BoundsOf(table[i])}
Topmost(table, slots) == CHOOSE i \in slots : \A j \in slots \ {i} : Below(table, j, i)

\* clear, blit each surface in turn, draw_cursor.
Composed(table, cursor, visible, x) ==
  IF visible /\ x \in CursorRect(cursor) THEN Cursor
  ELSE IF SlotsAt(table, x) = {} THEN Background
  ELSE table[Topmost(table, SlotsAt(table, x))].buffer

\* flush: each pixel is one four-byte store, whose extra byte is what the
\* display already holds there; the last pixel's store begins a byte early.
Store(bytes, x, pixel) ==
  LET at == 3 * x
      end == 3 * Width
      own == [i \in 0..2 |-> Byte(pixel, i)]
      first == IF at + 4 <= end THEN at ELSE at - 1
  IN  [b \in DOMAIN bytes |->
         IF b \in first..(first + 3) THEN IF b \in at..(at + 2) THEN own[b - at] ELSE bytes[b]
         ELSE bytes[b]]

Flush(bytes, pixels, area) ==
  FoldLeft(LAMBDA d, x : IF x - 1 \in area THEN Store(d, x - 1, pixels[x - 1]) ELSE d,
           bytes, [x \in 1..Width |-> x])

\* compose(), with the table and the pointer as the handler leaves them.
Compose(area) ==
  LET region == Damaged(area)
      pixels == [x \in Screen |-> IF x \in region
                   THEN Composed(surfaces', cursorX', cursorVisible', x) ELSE back[x]]
  IN  /\ back' = pixels
      /\ display' = Flush(display, pixels, region)

\* track(): the surface's own slot, or the first empty one.
SlotFor(buffer) ==
  LET own == {i \in SlotIndex : surfaces[i].buffer = buffer}
      empty == {i \in SlotIndex : surfaces[i].buffer = 0}
  IN  IF own # {} THEN own ELSE IF empty # {} THEN {Min(empty)} ELSE {}

\* A bug: only the place the surface went to is damaged.
TrackDamageNew(previous, surface) == BoundsOf(surface)

TrackDamage(previous, surface) ==
  BoundsOf(surface) \cup (IF previous.buffer = 0 THEN {} ELSE BoundsOf(previous))

Present(buffer, x, z) ==
  LET surface == [buffer |-> buffer, x |-> x, z |-> z] IN
  /\ \E i \in SlotFor(buffer) :
       /\ surfaces' = [surfaces EXCEPT ![i] = surface]
       /\ UNCHANGED <<cursorX, cursorVisible, pressed>>
       /\ Compose(TrackDamage(surfaces[i], surface))

\* raise_at: the topmost surface under the point goes above all others.
Raised(x) ==
  LET under == SlotsAt(surfaces, x)
      hit == Topmost(surfaces, under)
      top == Topmost(surfaces, LiveSlots(surfaces))
  IN  IF under = {} \/ hit = top THEN {} ELSE {[slot |-> hit, z |-> surfaces[top].z + 1]}

Clamp(x) == Max({0, Min({x, Width - 1})})

Pointer(dx, button) ==
  LET raised == IF button /\ ~pressed THEN Raised(Clamp(cursorX + dx)) ELSE {} IN
  /\ \A r \in raised : r.z <= MaxZ
  /\ cursorX' = Clamp(cursorX + dx)
  /\ cursorVisible' = TRUE
  /\ pressed' = button
  /\ surfaces' = [i \in SlotIndex |->
       IF \E r \in raised : r.slot = i
       THEN [surfaces[i] EXCEPT !.z = (CHOOSE r \in raised : TRUE).z] ELSE surfaces[i]]
  /\ Compose((IF cursorVisible THEN CursorRect(cursorX) ELSE {}) \cup CursorRect(cursorX')
             \cup UNION {BoundsOf(surfaces[r.slot]) : r \in raised})

CompositorNext ==
  \/ \E buffer \in Surface, x \in Places, z \in Depths : Present(buffer, x, z)
  \/ \E dx \in {-1, 1, 2}, button \in BOOLEAN : Pointer(dx, button)

CompositorSpec == CompositorInit /\ [][CompositorNext]_compositorVars

\* Although each message redraws only the tiles it damaged, the display is
\* always what composing the whole screen afresh would show: no trace of
\* where a surface or the pointer was, and every byte of every pixel.
DisplayUpToDate ==
  \A b \in DOMAIN display :
    display[b] = Byte(Composed(surfaces, cursorX, cursorVisible, b \div 3), b % 3)
=============================================================================
