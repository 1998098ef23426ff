------------------------------ MODULE Base64 --------------------------------
(***************************************************************************)
(* The base64 stream decoder of moddisplay_display.c: base64_decode_lookup *)
(* and the loop of display_display_fill_b64, as the set of <<col, row,     *)
(* byte>> writes it hands to display_frame_fill (8 x 1 pixels each).  A    *)
(* string is the sequence of its byte codes without the terminating 0.     *)
(***************************************************************************)
EXTENDS Integers, Sequences

PAD == 61   \* '='

(***************************************************************************)
(* base64_decode_lookup: the sextet of a base64 character; any other byte  *)
(* returns -1 through a uint8_t, i.e. 255.                                 *)
(***************************************************************************)
Base64DecodeLookup(c) ==
  CASE 65 <= c /\ c <= 90  -> c - 65     \* 'A'..'Z'
    [] 97 <= c /\ c <= 122 -> c - 71     \* 'a'..'z'
    [] 48 <= c /\ c <= 57  -> c + 4      \* '0'..'9'
    [] c = 43              -> 62         \* '+'
    [] c = 47              -> 63         \* '/'
    [] OTHER               -> 255

(***************************************************************************)
(* One pass of the while(true) loop at text position p (1-based): stop at  *)
(* the end or at '='; the sextet after p reads as 0 at the end or at '='.  *)
(* The `sextet < 0` tests of the code never hold on a uint8_t and are     *)
(* left out.  The byte combines the two sextets by the phase `shifts` in   *)
(* a uint8_t; phase 2 consumes an extra character.  Every byte is written  *)
(* 8 pixels wide at (col, row); col then moves 8 right and back to x on    *)
(* the next row once it reaches max_x, and the loop ends once row reaches  *)
(* max_y.                                                                  *)
(***************************************************************************)
RECURSIVE B64From(_, _, _, _, _, _, _, _, _)
B64From(str, x, max_x, max_y, p, col, row, shifts, writes) ==
  IF p > Len(str) \/ str[p] = PAD THEN writes
  ELSE LET a    == Base64DecodeLookup(str[p])
           b    == IF p + 1 > Len(str) \/ str[p + 1] = PAD
                   THEN 0 ELSE Base64DecodeLookup(str[p + 1])
           c    == CASE shifts = 0 -> (a * 4 + b \div 16) % 256
                     [] shifts = 1 -> (a * 16 + b \div 4) % 256
                     [] shifts = 2 -> (a * 64 + b) % 256
           wrap == col + 8 >= max_x
           col1 == IF wrap THEN x ELSE col + 8
           row1 == IF wrap THEN row + 1 ELSE row
           all  == writes \cup {<<col, row, c>>}
       IN IF row1 >= max_y THEN all
          ELSE B64From(str, x, max_x, max_y,
                       p + (IF shifts = 2 THEN 2 ELSE 1), col1, row1,
                       (shifts + 1) % 3, all)

\* display_display_fill_b64: max_x = x + width, max_y = y + height.
B64Writes(str, x, y, width, height) ==
  B64From(str, x, x + width, y + height, 1, x, y, 0, {})

=============================================================================
