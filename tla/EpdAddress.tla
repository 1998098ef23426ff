----------------------------- MODULE EpdAddress -----------------------------
(***************************************************************************)
(* The address arithmetic of moddisplay_epd2in9.c: the bytes the driver    *)
(* sends to describe the panel's geometry and RAM area, and what the       *)
(* controller assembles from them.  C's >> 3, >> 8 and & 0xFF on the       *)
(* non-negative ints the driver passes are \div 8, \div 256 and % 256.     *)
(* The controller takes the gate count and the y addresses from a low and  *)
(* a high byte, x addresses in bytes.                                      *)
(***************************************************************************)
EXTENDS Integers

\* display_epd2in9_init: DRIVER_OUTPUT_CONTROL with height - 1 in a low
\* and a high byte, then 0x00 (gate scan order).
DriverOutputBytes(height) ==
  << (height - 1) % 256, ((height - 1) \div 256) % 256, 0 >>

\* The number of gate lines (rows) the controller drives after it.
Gates(b) == b[1] + 256 * b[2] + 1

\* Seeded fault: the high byte of y_end is not sent (always 0).
AreaBytesNoHighByte(xStart, yStart, xEnd, yEnd) ==
  << (xStart \div 8) % 256, (xEnd \div 8) % 256,
     yStart % 256, (yStart \div 256) % 256, yEnd % 256, 0 >>

\* display_epd2in9_set_memory_area: the data bytes of
\* SET_RAM_X_ADDRESS_START_END_POSITION and SET_RAM_Y_ADDRESS_START_END_POSITION.
AreaBytes(xStart, yStart, xEnd, yEnd) ==
  << (xStart \div 8) % 256, (xEnd \div 8) % 256,
     yStart % 256, (yStart \div 256) % 256, yEnd % 256, (yEnd \div 256) % 256 >>

\* display_epd2in9_set_memory_pointer: the data bytes of
\* SET_RAM_X_ADDRESS_COUNTER and SET_RAM_Y_ADDRESS_COUNTER.
PointerBytes(x, y) == << (x \div 8) % 256, y % 256, (y \div 256) % 256 >>

\* The RAM window and address counter the controller assembles.
Window(b) == [x0 |-> b[1], x1 |-> b[2], y0 |-> b[3] + 256 * b[4], y1 |-> b[5] + 256 * b[6]]

Counter(b) == [x |-> b[1], y |-> b[2] + 256 * b[3]]

(***************************************************************************)
(* WRITE_RAM in data entry mode 0x03: data byte k goes to the cell k steps *)
(* after the counter, rows of the window wrapping to its first column and  *)
(* the last row to its first.                                              *)
(***************************************************************************)
RamPosition(win, ctr, k) ==
  LET n == win.x1 - win.x0 + 1
      m == win.y1 - win.y0 + 1
      o == (ctr.y - win.y0) * n + (ctr.x - win.x0) + k
  IN <<win.x0 + (o % n), win.y0 + ((o \div n) % m)>>

=============================================================================
