------------------------------- MODULE Text --------------------------------
(***************************************************************************)
(* The font renderer of moddisplay_frame.c: font lookup, the glyph blit of *)
(* display_frame_draw_char_at and the layout loop of                       *)
(* display_frame_draw_string_at.  A font is a record with the fields of    *)
(* display_font_t; a text is a sequence of character codes (the C string   *)
(* without its terminating 0).  Drawing is modelled as the points handed   *)
(* to display_frame_draw_pixel; the layout also returns the dimensions     *)
(* the C code writes to dimensions[].                                      *)
(***************************************************************************)
EXTENDS Integers, Sequences, Bitwise

FONT_NULL == 0
NO_WRAP == 0
WRAP_INDENT == 1
WRAP_LINE_START == 2

NEWLINE == 10
SPACE == 32
QUESTION == 63

(***************************************************************************)
(* font_dejavu8.c: the 5 x 8 font, one byte per glyph row.  Only the       *)
(* glyphs of the characters the models write are kept: ' ', '?', 'a' and  *)
(* 'b'; the table is indexed like Font_DejaVu8_Table.                      *)
(***************************************************************************)
DejaVu8Rows ==
  [ch \in {SPACE, QUESTION, 97, 98} |->
     CASE ch = SPACE    -> <<0, 0, 0, 0, 0, 0, 0, 0>>
       [] ch = QUESTION -> <<0, 112, 16, 32, 32, 32, 0, 0>>
       [] ch = 97       -> <<0, 0, 56, 8, 120, 120, 0, 0>>
       [] ch = 98       -> <<64, 64, 120, 72, 72, 120, 0, 0>>]

DejaVu8Table ==
  [k \in {(ch - 32) * 8 + j : ch \in DOMAIN DejaVu8Rows, j \in 0..7} |->
     DejaVu8Rows[(k \div 8) + 32][(k % 8) + 1]]

FONT_DEJAVU_8 == 3

FontDejaVu8 ==
  [table |-> DejaVu8Table, id |-> FONT_DEJAVU_8, width |-> 5, height |-> 8,
   min |-> 32, max |-> 127, offset |-> 32]

\* The font ids of fontconfig.h; FontDejaVu12 is the fallback.
FONT_DEJAVU_12 == 4
FontIds == 1..7

(***************************************************************************)
(* display_frame_get_font: the switch over the configured ids, and the     *)
(* fallback to FontDejaVu12 compiled in because fontconfig.h defines       *)
(* FONT_DEJAVU_12: the result is never NULL.  A font pointer is modelled   *)
(* by the id under which the registry Fonts (id -> font record) holds it.  *)
(***************************************************************************)
GetFont(font) == IF font \in FontIds THEN font ELSE FONT_DEJAVU_12

\* display_frame_load_font: the id of the font now loaded, FONT_NULL if none.
LoadFont(Fonts, font) == Fonts[GetFont(font)].id

BytesPerRow(f) == f.width \div 8 + (IF f.width % 8 # 0 THEN 1 ELSE 0)

\* The character draw_char_at blits: codes outside [min, max] become '?'.
GlyphCode(f, ch) == IF ch < f.min \/ ch > f.max THEN QUESTION ELSE ch

(***************************************************************************)
(* display_frame_draw_char_at: ptr starts at char_offset and walks the     *)
(* glyph row by row; bit (0x80 >> (i % 8)) of *ptr is pixel (x + i,        *)
(* y + j); ptr advances after every eighth pixel of a row and once more at *)
(* the end of a row whose width is not a multiple of 8.                    *)
(***************************************************************************)
RECURSIVE GlyphFrom(_, _, _, _, _, _)
GlyphFrom(f, x, y, i, j, ptr) ==
  IF j >= f.height THEN {}
  ELSE IF i >= f.width
       THEN GlyphFrom(f, x, y, 0, j + 1, IF f.width % 8 # 0 THEN ptr + 1 ELSE ptr)
       ELSE LET bit == 2^(7 - (i % 8))   \* 0x80 >> (i % 8); *ptr & bit tests it
            IN (IF (f.table[ptr] \div bit) % 2 # 0 THEN {<<x + i, y + j>>} ELSE {})
               \cup GlyphFrom(f, x, y, i + 1, j, IF i % 8 = 7 THEN ptr + 1 ELSE ptr)

\* Seeded fault: char_offset with width / 8 bytes per row, not rounded up.
CharPointsFloorRowBytes(f, x, y, ch) ==
  GlyphFrom(f, x, y, 0, 0, (GlyphCode(f, ch) - f.offset) * f.height * (f.width \div 8))

CharPoints(f, x, y, ch) ==
  GlyphFrom(f, x, y, 0, 0,
            (GlyphCode(f, ch) - f.offset) * f.height * BytesPerRow(f))

(***************************************************************************)
(* display_frame_draw_string_at, from text position p (1-based) with the   *)
(* cursor at (c, r) and max_c the largest cursor a glyph was drawn at.     *)
(* Before a glyph the cursor is tested against the rotated canvas width    *)
(* and x + max_width, and a newline forces the test; the wrap mode then    *)
(* returns (NO_WRAP), or moves the cursor to a new line at x and skips     *)
(* the spaces at p (WRAP_INDENT), or moves it to a new line at 0           *)
(* (WRAP_LINE_START); any other wrap value matches no case of the switch   *)
(* and changes nothing.  A newline is then consumed.  draw_char_at always  *)
(* reports rows here (a font is loaded), so the cursor advances by the     *)
(* font width after each glyph.  The result is the set of <<c, r, ch>>     *)
(* glyph cells drawn and dimensions[0..1].                                 *)
(***************************************************************************)
RECURSIVE SkipSpaces(_, _)
SkipSpaces(text, p) ==
  IF p <= Len(text) /\ text[p] = SPACE THEN SkipSpaces(text, p + 1) ELSE p

RECURSIVE StringFrom(_, _, _, _, _, _, _, _, _, _, _, _)
StringFrom(f, width, x, y, text, wrap, max_width, p, c, r, max_c, cells) ==
  IF p > Len(text)
  THEN [cells |-> cells,
        dims  |-> <<IF r = y THEN c - x ELSE max_c - x, (r + f.height) - y>>]
  ELSE IF (c + f.width > width \/ c + f.width - x > max_width \/ text[p] = NEWLINE)
          /\ wrap = NO_WRAP
  THEN [cells |-> cells, dims |-> <<c - x, f.height>>]
  ELSE LET limit == c + f.width > width \/ c + f.width - x > max_width
                      \/ text[p] = NEWLINE
           c1    == CASE limit /\ wrap = WRAP_INDENT     -> x
                      [] limit /\ wrap = WRAP_LINE_START -> 0
                      [] OTHER                           -> c
           r1    == IF limit /\ wrap \in {WRAP_INDENT, WRAP_LINE_START}
                    THEN r + f.height ELSE r
           p1    == IF limit /\ wrap = WRAP_INDENT THEN SkipSpaces(text, p) ELSE p
       IN IF limit /\ p1 > Len(text)
          THEN StringFrom(f, width, x, y, text, wrap, max_width, p1, c1, r1, max_c, cells)
          ELSE IF limit /\ text[p1] = NEWLINE
          THEN StringFrom(f, width, x, y, text, wrap, max_width, p1 + 1, c1, r1, max_c, cells)
          ELSE StringFrom(f, width, x, y, text, wrap, max_width, p1 + 1,
                          c1 + f.width, r1, IF c1 > max_c THEN c1 ELSE max_c,
                          cells \cup {<<c1, r1, text[p1]>>})

\* Seeded fault: max_width passed on as given, 0 included.
DrawStringNoDefault(f, width, x, y, text, wrap, max_width) ==
  StringFrom(f, width, x, y, text, wrap, max_width, 1, x, y, 0, {})

\* display_frame_draw_string_at: max_width 0 means the rotated canvas width.
DrawString(f, width, x, y, text, wrap, max_width) ==
  StringFrom(f, width, x, y, text, wrap,
             IF max_width = 0 THEN width ELSE max_width, 1, x, y, 0, {})

\* The points draw_string_at hands to draw_pixel.
StringPoints(f, layout) ==
  UNION {CharPoints(f, cell[1], cell[2], cell[3]) : cell \in layout.cells}

=============================================================================
