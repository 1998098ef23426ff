----------------------------- MODULE MCDisplay -----------------------------
(***************************************************************************)
(* Model-checking instance of Display: a 6 x 3 panel (padded to 8 x 3, so  *)
(* three padding columns), coordinates just outside, on and inside every  *)
(* edge of both the 8 x 3 and the rotated 3 x 8 canvas.                    *)
(***************************************************************************)
EXTENDS Display

MCCoords == {-1, 0, 2, 3, 7, 8}
MCRectCoords == {-1, 0, 2, 7, 8}
MCLengths == {-1, 0, 1, 9}
MCRadii == {-2, 1, 3}

\* The caller's buffer: all clear, all set, and a mixed bit pattern per byte.
MCInitBuffers == {[i \in 0..(Size - 1) |-> v] : v \in {0, 165, 255}}

\* fill_bytes arguments: a 3 x 2 and a 5 x 3 bitmap (rows not byte
\* aligned), a full 8-pixel row, and an empty one.
MCImages ==
  { <<<<165>>, x, y, 3, 2>> : x \in {-1, 6}, y \in {0, 2} }
  \cup { <<<<202, 60>>, x, y, 5, 3>> : x \in {0, 4}, y \in {0, 1} }
  \cup { <<<<129>>, 0, 1, 8, 1>>, <<<<255>>, 1, 0, 0, 4>> }

\* arc arguments <<x, y, radius, start, sweep, border>>: full and partial
\* sweeps, negative and over-long angles, pixel and segment borders of
\* both signs, centres inside and left of the canvas (radius 0 only with a
\* one-pixel border: any other divides by the radius).
MCArcArgs ==
  { <<3, 1, 2, 0, 360, 1>>, <<3, 1, 3, 90, 180, 2>>, <<-1, 1, 2, -90, 450, -2>>,
    <<4, 2, 1, 45, 90, -1>>, <<0, 0, 0, 0, 360, 0>> }

\* fill_b64 arguments: three 4-character strings (3 bytes each) "QUJD",
\* "pVpa" and "//8A", 8 pixels wide, at two columns and two rows.
MCB64Strings == { <<81, 85, 74, 68>>, <<112, 86, 112, 97>>, <<47, 47, 56, 65>> }
MCB64Args == { <<s, x, y, 8, h>> : s \in MCB64Strings, x \in {0, 3}, y \in {0, 2}, h \in {1, 3} }

\* Sequences of two calls: fewer arguments, every method.
MCSeqCoords == {-1, 2}
MCSeqCorners == {0, 7}
MCSeqBuffers == {[i \in 0..(Size - 1) |-> 165]}
MCSeqArcArgs == { <<3, 1, 3, 90, 180, 2>> }
MCSeqB64Args == { <<<<47, 47, 56, 65>>, 3, 0, 8, 3>> }
MCSeqImages == { <<<<202, 60>>, 0, 1, 5, 3>>, <<<<165>>, 6, 2, 3, 2>> }
\* invert() after inverted(2), from a clear buffer.
MCInvertBuffers == {[i \in 0..(Size - 1) |-> 0]}

(***************************************************************************)
(* Fonts.  Of the registry of fontconfig.h only font_dejavu8.c (id 3, 5 x  *)
(* 8) is in the repository.  Ids 1 and 2 stand in for fonts whose tables   *)
(* are not, with rows of 10 and 16 pixels (two bytes, padded and not) and  *)
(* a byte pattern that differs in every byte, so that a glyph read from    *)
(* the wrong byte shows; the other ids reuse the DejaVu 8 glyphs.           *)
(***************************************************************************)
TestFont(id, w, h) ==
  LET rb == (w + 7) \div 8
  IN [table  |-> [k \in 0..(96 * h * rb - 1) |-> (k * 37 + 11) % 256],
      id |-> id, width |-> w, height |-> h, min |-> 32, max |-> 127, offset |-> 32]

MCFonts ==
  [i \in FontIds |-> CASE i = 1 -> TestFont(1, 10, 2)
                      [] i = 2 -> TestFont(2, 16, 2)
                      [] i = FONT_DEJAVU_8 -> FontDejaVu8
                      [] OTHER -> [FontDejaVu8 EXCEPT !.id = i]]

\* Strings over 'a', 'b', ' ', newline and a code past max (200, drawn as
\* '?'), up to 3 characters, plus the strings of spec.md section 8.
Alphabet == {97, 98, SPACE, NEWLINE, 200}
MCTexts ==
  {<<>>} \cup {<<a>> : a \in Alphabet} \cup {<<a, b>> : a, b \in Alphabet}
  \cup {<<a, b, c>> : a, b, c \in Alphabet}
  \cup {<<97, 98, SPACE, 97, 98>>, [i \in 1..10 |-> 97]}
MCTextCoords == {0, 3}
MCMaxWidths == {0, 10, 20, -1}
MCTextBuffers == {[i \in 0..(Size - 1) |-> 165]}

\* spec.md section 8: "ab cd" with maxWidth 10 (c and d drawn as a and b).
MCWrapExampleTexts == {<<97, 98, SPACE, 97, 98>>}
\* A newline followed by a space.
MCNewlineSpaceTexts == {<<97, NEWLINE, SPACE, 97>>}
MCExampleMaxWidths == {10}

\* A short text in the runs about the other methods.
MCOneText == {<<97, 200>>}

=============================================================================
