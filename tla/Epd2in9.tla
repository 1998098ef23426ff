------------------------------ MODULE Epd2in9 ------------------------------
(***************************************************************************)
(* The 2.9" e-paper driver of moddisplay_epd2in9.c and the panel           *)
(* controller it talks to.  The driver is the byte stream each function   *)
(* sends (commands and data over SPI, the address bytes with the shifts    *)
(* and masks of the code) and its busy-wait on the BUSY pin.  The          *)
(* controller is the environment: it keeps the RAM window and address     *)
(* counter the address commands set, stores the bytes after WRITE_RAM at   *)
(* the counter (data entry mode 0x03: x first, then y, wrapping inside the *)
(* window), and on MASTER_ACTIVATION raises BUSY until its refresh has     *)
(* copied the RAM to the screen.  Only the RAM cells of the frame's area   *)
(* are kept: <<x byte, row>> pairs.                                        *)
(***************************************************************************)
EXTENDS Integers, Sequences, FiniteSetsExt, Frame, EpdAddress

VARIABLES
  ram,      \* controller RAM over the frame's area
  screen,   \* the image the panel shows
  busy,     \* the BUSY pin: TRUE (HIGH) while a refresh runs
  lut,      \* the waveform the controller holds: "none", "full", "partial"
  partial   \* self->partial, the partial keyword of make_new

panelVars == <<ram, screen, busy, lut, partial>>

\* RAM and screen content before the driver wrote any: not a byte value.
UNKNOWN == -1

RamCells == (0..(Width \div 8 - 1)) \X (0..(Height - 1))

PanelInit(partialArgs) ==
  /\ ram = [q \in RamCells |-> UNKNOWN]
  /\ screen = [q \in RamCells |-> UNKNOWN]
  /\ busy = FALSE
  /\ lut = "none"
  /\ partial \in partialArgs

(***************************************************************************)
(* WRITE_RAM followed by n data bytes, placed by RamPosition of            *)
(* EpdAddress; a later byte for the same cell wins.                        *)
(***************************************************************************)
WriteRam(r, win, ctr, data, n) ==
  [q \in RamCells |->
     LET ks == {k \in 0..(n - 1) : RamPosition(win, ctr, k) = q}
     IN IF ks = {} THEN r[q] ELSE data[Max(ks)]]

(***************************************************************************)
(* display_epd2in9_set_frame_memory after the wait_until_idle that ends    *)
(* set_memory_pointer: the window is the whole frame, the counter its      *)
(* origin, and WRITE_RAM is followed by the frame->size bytes of the       *)
(* buffer in order.  The caller's step is guarded by that wait.            *)
(***************************************************************************)
\* Seeded fault: the window's end column is the width, not width - 1.
SetFrameMemoryWholeWidth(image) ==
  ram' = WriteRam(ram, Window(AreaBytes(0, 0, Width, Height - 1)),
                  Counter(PointerBytes(0, 0)), image, Size)

SetFrameMemory(image) ==
  ram' = WriteRam(ram, Window(AreaBytes(0, 0, Width - 1, Height - 1)),
                  Counter(PointerBytes(0, 0)), image, Size)

\* display_epd2in9_flush: DISPLAY_UPDATE_CONTROL_2 0xC4 and
\* MASTER_ACTIVATION start the refresh, which raises BUSY;
\* TERMINATE_FRAME_READ_WRITE changes nothing the model keeps.  The
\* wait_until_idle that ends flush is a step of its own.
Flush == busy' = TRUE

(***************************************************************************)
(* display_epd2in9_init: reset, then DRIVER_OUTPUT_CONTROL, booster, VCOM, *)
(* dummy line, gate time and data entry mode (0x03, the mode WriteRam     *)
(* follows), then the 30-byte waveform: the partial one when               *)
(* self->partial, the full one otherwise.  No BUSY wait.                   *)
(***************************************************************************)
Epd2in9Init ==
  /\ lut' = IF partial THEN "partial" ELSE "full"
  /\ UNCHANGED <<ram, screen, busy, partial>>

\* The controller finishes a refresh: the screen shows the RAM, BUSY drops.
RefreshDone ==
  /\ busy
  /\ screen' = ram
  /\ busy' = FALSE
  /\ UNCHANGED <<ram, lut, partial>>

\* Seeded fault: the loop of wait_until_idle spins while BUSY is LOW.
IdleInverted == busy

\* display_epd2in9_wait_until_idle returns once BUSY reads LOW.
Idle == ~busy

\* The bytes the panel shows, in the order of frame->buf.
ScreenBytes == [i \in 0..(Size - 1) |-> screen[<<(i % (Width \div 8)), i \div (Width \div 8)>>]]

=============================================================================
