------------------------------ MODULE Display ------------------------------
(***************************************************************************)
(* The display.Display object of moddisplay_display.c in the esp32 build   *)
(* (UNIX undefined): one action per Python method that changes the frame.  *)
(* Each handler converts its Python ints to the C types of the frame       *)
(* function it calls (colour to uint8_t, rotation and inversion to         *)
(* unsigned char) and records the call it performed in the history        *)
(* variable call.  calls counts the calls made; no more than MaxCalls are  *)
(* explored, so every behaviour of the model ends after MaxCalls calls.    *)
(***************************************************************************)
EXTENDS Frame, Raster, Arc, Text, Base64, Epd2in9, FiniteSets, FiniteSetsExt

CONSTANTS
  Coords,        \* x / y arguments callers pass
  CornerCoords,  \* corner arguments of rect and fill_rect
  Lengths,       \* width / height arguments of hline and vline
  Radii,         \* radius arguments of circle and fill_circle
  Colors,        \* colour arguments
  RotationArgs,  \* arguments of rotation() and of the rotation keyword
  InvertArgs,    \* arguments of inverted()
  InitBuffers,   \* contents the caller's buffer may have at construction
  Images,        \* <<data, x, y, width, height>> arguments of fill_bytes
  Fonts,         \* the font registry of fontconfig.h: id -> font record
  FontArgs,      \* arguments of font() and of the font keyword
  TextCoords,    \* x / y arguments of text()
  Texts,         \* strings passed to text(), as sequences of byte codes
  Wraps,         \* wrap arguments of text()
  MaxWidths,     \* max_width arguments of text()
  ArcArgs,       \* <<x, y, radius, start, sweep, border>> arguments of arc()
  FillArcColors, \* colour arguments of fill_arc()
  B64Args,       \* <<string, x, y, width, height>> arguments of fill_b64()
  PartialArgs,   \* values of the partial keyword of make_new
  MaxCalls       \* bound on the number of calls explored

VARIABLES
  call,          \* [op, params] of the last method called
  calls,         \* number of methods called so far
  font,          \* self->font, the font id the object reports
  frameFont,     \* frame->font, as the registry id of the font it points to
  result,        \* the value the last method returned to Python
  waiting        \* where a method blocked on the panel stands, or "none"

vars == <<buf, rotation, inverted, call, calls, font, frameFont, result,
          ram, screen, busy, lut, partial, waiting>>

NONE == "None"

\* A method other than font() and text(): returns None, keeps the font.
Record(name, args) ==
  /\ call' = [op |-> name, params |-> args]
  /\ calls' = calls + 1
  /\ result' = NONE
  /\ UNCHANGED <<font, frameFont>>

\* A method that does not talk to the panel.
Called(name, args) ==
  /\ Record(name, args)
  /\ UNCHANGED <<panelVars, waiting>>

(***************************************************************************)
(* display_display_make_new: the frame borrows the caller's buffer as it   *)
(* is; rotation is an int keyword stored in an unsigned char, invert a     *)
(* bool keyword.  self->font keeps the font keyword as given (FONT_NULL   *)
(* by default) while load_font points the frame at the font it resolves.  *)
(***************************************************************************)
Init ==
  /\ buf \in InitBuffers
  /\ rotation \in {UInt8(r) : r \in RotationArgs}
  /\ inverted \in {0, 1}
  /\ font \in FontArgs
  /\ frameFont = GetFont(font)
  /\ call = [op |-> "make_new", params |-> <<>>]
  /\ calls = 0
  /\ result = NONE
  /\ PanelInit(PartialArgs)
  /\ waiting = "none"

\* display_display_call_rotation with an argument.
Rotation(r) ==
  /\ rotation' = UInt8(r)
  /\ UNCHANGED <<buf, inverted>>
  /\ Called("rotation", <<r>>)

\* display_display_call_inverted with an argument.
Inverted(v) ==
  /\ inverted' = UInt8(v)
  /\ UNCHANGED <<buf, rotation>>
  /\ Called("inverted", <<v>>)

\* display_display_invert: inverted = 1 - inverted, in an unsigned char.
Invert ==
  /\ inverted' = UInt8(1 - inverted)
  /\ UNCHANGED <<buf, rotation>>
  /\ Called("invert", <<>>)

(***************************************************************************)
(* display_display_clear (esp32): clear the frame to the opposite colour,  *)
(* set_frame_memory and flush; then clear it to the colour, set_frame_     *)
(* memory and flush.  The call's step sends the first window and pointer  *)
(* and leaves the buffer cleared to the colour: no one reads the buffer    *)
(* while clear blocks, and the first RAM write takes the opposite-colour   *)
(* image, which display_frame_clear computes whatever the buffer held.     *)
(***************************************************************************)
Bit(color) == IF color # 0 THEN 1 ELSE 0

\* Seeded fault: the two clears in the opposite order.
ClearDisplaySwapped(color) ==
  /\ buf' = Clear(buf, inverted, 1 - Bit(color))
  /\ UNCHANGED <<rotation, inverted, panelVars>>
  /\ waiting' = "clear_pointer1"
  /\ Record("clear", <<color>>)

ClearDisplay(color) ==
  /\ buf' = Clear(buf, inverted, Bit(color))
  /\ UNCHANGED <<rotation, inverted, panelVars>>
  /\ waiting' = "clear_pointer1"
  /\ Record("clear", <<color>>)

\* display_display_init: display_epd2in9_init.
InitDisplay ==
  /\ Epd2in9Init
  /\ UNCHANGED <<frameVars, waiting>>
  /\ Record("init", <<>>)

\* display_display_update: set_frame_memory, then flush; the call's step
\* sends the window and pointer.
Update ==
  /\ UNCHANGED <<frameVars, panelVars>>
  /\ waiting' = "update_pointer"
  /\ Record("update", <<>>)

(***************************************************************************)
(* The steps of a blocked update or clear.  When the wait_until_idle that  *)
(* ends set_memory_pointer returns, the buffer (for the first pass of      *)
(* clear, the opposite-colour image) goes to the RAM and flush starts the  *)
(* refresh; when flush's own wait returns, update is done and clear        *)
(* starts its second pass.                                                 *)
(***************************************************************************)
AfterWait == [update_pointer |-> "update_flush", update_flush |-> "none",
              clear_pointer1 |-> "clear_flush1", clear_flush1 |-> "clear_pointer2",
              clear_pointer2 |-> "clear_flush2", clear_flush2 |-> "none"]

WriteFrame ==
  /\ waiting \in {"update_pointer", "clear_pointer1", "clear_pointer2"}
  /\ Idle
  /\ SetFrameMemory(IF waiting = "clear_pointer1"
                    THEN Clear(buf, inverted, 1 - Bit(call.params[1])) ELSE buf)
  /\ Flush
  /\ waiting' = AfterWait[waiting]
  /\ UNCHANGED <<frameVars, screen, lut, partial, call, calls, result, font, frameFont>>

FlushReturns ==
  /\ waiting \in {"update_flush", "clear_flush1", "clear_flush2"}
  /\ Idle
  /\ waiting' = AfterWait[waiting]
  /\ UNCHANGED <<frameVars, panelVars, call, calls, result, font, frameFont>>

\* The panel controller finishes a refresh, whatever the CPU is doing.
PanelRefresh ==
  /\ RefreshDone
  /\ UNCHANGED <<frameVars, call, calls, result, font, frameFont, waiting>>

\* display_display_fill: display_frame_clear with the colour as uint8_t.
Fill(color) ==
  /\ FrameClear(UInt8(color))
  /\ Called("fill", <<color>>)

\* display_display_pixel
Pixel(x, y, color) ==
  /\ FrameDrawPixel(x, y, UInt8(color))
  /\ Called("pixel", <<x, y, color>>)

\* display_display_hline
HLine(x, y, width, color) ==
  /\ FrameDrawPoints(HorizontalLinePoints(x, y, width), UInt8(color))
  /\ Called("hline", <<x, y, width, color>>)

\* display_display_vline
VLine(x, y, height, color) ==
  /\ FrameDrawPoints(VerticalLinePoints(x, y, height), UInt8(color))
  /\ Called("vline", <<x, y, height, color>>)

\* display_display_rectangle
Rect(x0, y0, x1, y1, color) ==
  /\ FrameDrawPoints(RectanglePoints(x0, y0, x1, y1), UInt8(color))
  /\ Called("rect", <<x0, y0, x1, y1, color>>)

\* display_display_filled_rectangle
FillRect(x0, y0, x1, y1, color) ==
  /\ FrameDrawPoints(FilledRectanglePoints(x0, y0, x1, y1), UInt8(color))
  /\ Called("fill_rect", <<x0, y0, x1, y1, color>>)

\* display_display_line
Line(x0, y0, x1, y1, color) ==
  /\ FrameDrawPoints(LinePoints(x0, y0, x1, y1), UInt8(color))
  /\ Called("line", <<x0, y0, x1, y1, color>>)

\* display_display_circle
Circle(x, y, r, color) ==
  /\ FrameDrawPoints(CirclePoints(x, y, r), UInt8(color))
  /\ Called("circ", <<x, y, r, color>>)

\* display_display_filled_circle
FilledCircle(x, y, r, color) ==
  /\ FrameDrawPoints(FilledCirclePoints(x, y, r), UInt8(color))
  /\ Called("fill_circ", <<x, y, r, color>>)

\* display_display_fill_bytes
FillBytes(img) ==
  /\ FrameFill(img[1], img[2], img[3], img[4], img[5])
  /\ Called("fill_bytes", img)

\* FOREGROUND of moddisplay.h (BLACK), the default colour of the methods.
FOREGROUND == 1

\* display_display_arc: display_frame_draw_arc with the colour as uint8_t.
Arc(x, y, r, start, sweep, border, color) ==
  /\ FrameDrawPoints(ArcPoints(Width, Height, x, y, r, start, sweep, border), UInt8(color))
  /\ Called("arc", <<x, y, r, start, sweep, border, color>>)

(***************************************************************************)
(* fill_arc(x, y, r, start, sweep, color): the locals table binds fill_arc *)
(* to display_display_arc_obj, so its sixth argument is taken as the       *)
(* border width and the colour is the default FOREGROUND.                  *)
(***************************************************************************)
FillArc(x, y, r, start, sweep, color) ==
  /\ FrameDrawPoints(ArcPoints(Width, Height, x, y, r, start, sweep, color), FOREGROUND)
  /\ Called("fill_arc", <<x, y, r, start, sweep, color>>)

\* The pixels of the 8 x 1 display_frame_fill calls of a fill_b64 stream;
\* the writes are 8 columns apart or on different rows, so none overlap.
B64Image(ws) ==
  LET imgs == {FillImage(rotation, <<w[3]>>, w[1], w[2], 8, 1) : w \in ws}
  IN [p \in UNION {DOMAIN g : g \in imgs} |-> (CHOOSE g \in imgs : p \in DOMAIN g)[p]]

\* display_display_fill_b64
FillB64(str, x, y, width, height) ==
  /\ buf' = DrawPixels(buf, rotation, inverted, B64Image(B64Writes(str, x, y, width, height)))
  /\ UNCHANGED <<rotation, inverted>>
  /\ Called("fill_b64", <<str, x, y, width, height>>)

\* display_display_call_font with an argument: self->font = load_font(..),
\* returning whether it is not FONT_NULL.
SetFont(id) ==
  /\ font' = LoadFont(Fonts, id)
  /\ frameFont' = GetFont(id)
  /\ result' = (LoadFont(Fonts, id) # FONT_NULL)
  /\ call' = [op |-> "font", params |-> <<id>>]
  /\ calls' = calls + 1
  /\ UNCHANGED <<frameVars, panelVars, waiting>>

\* display_display_call_font without an argument: returns self->font.
GetFontId ==
  /\ result' = font
  /\ call' = [op |-> "font_get", params |-> <<>>]
  /\ calls' = calls + 1
  /\ UNCHANGED <<buf, rotation, inverted, font, frameFont, panelVars, waiting>>

(***************************************************************************)
(* display_display_text: colour and wrap are stored in uint8_t; the frame  *)
(* always has a font, so draw_string_at lays the string out against the   *)
(* rotated width, draws every glyph cell and returns (width, height).      *)
(***************************************************************************)
Text(x, y, str, color, wrap, max_width) ==
  LET f      == Fonts[frameFont]
      layout == DrawString(f, RotatedWidth(rotation), x, y, str, UInt8(wrap), max_width)
  IN /\ FrameDrawPoints(StringPoints(f, layout), UInt8(color))
     /\ result' = layout.dims
     /\ call' = [op |-> "text", params |-> <<x, y, str, color, wrap, max_width>>]
     /\ calls' = calls + 1
     /\ UNCHANGED <<font, frameFont, panelVars, waiting>>

(***************************************************************************)
(* Every method is callable whenever no method blocks; the search stops at *)
(* MaxCalls calls.  The blocked steps and the controller's refresh are not *)
(* calls and are not bounded.                                              *)
(***************************************************************************)
Method ==
  /\ calls < MaxCalls
  /\ waiting = "none"
  /\ \/ \E r \in RotationArgs : Rotation(r)
     \/ \E v \in InvertArgs : Inverted(v)
     \/ Invert
     \/ \E c \in Colors : ClearDisplay(c) \/ Fill(c)
     \/ \E x, y \in Coords, c \in Colors : Pixel(x, y, c)
     \/ \E x, y \in Coords, l \in Lengths, c \in Colors : HLine(x, y, l, c) \/ VLine(x, y, l, c)
     \/ \E x0, y0, x1, y1 \in CornerCoords, c \in Colors :
          Rect(x0, y0, x1, y1, c) \/ FillRect(x0, y0, x1, y1, c) \/ Line(x0, y0, x1, y1, c)
     \/ \E x, y \in Coords, r \in Radii, c \in Colors :
          Circle(x, y, r, c) \/ FilledCircle(x, y, r, c)
     \/ \E img \in Images : FillBytes(img)
     \/ \E a \in ArcArgs, c \in Colors : Arc(a[1], a[2], a[3], a[4], a[5], a[6], c)
     \/ \E a \in ArcArgs, c \in FillArcColors : FillArc(a[1], a[2], a[3], a[4], a[5], c)
     \/ \E a \in B64Args : FillB64(a[1], a[2], a[3], a[4], a[5])
     \/ \E id \in FontArgs : SetFont(id)
     \/ GetFontId
     \/ \E x, y \in TextCoords, str \in Texts, c \in Colors, w \in Wraps, m \in MaxWidths :
          Text(x, y, str, c, w, m)
     \/ InitDisplay
     \/ Update

Next == Method \/ WriteFrame \/ FlushReturns \/ PanelRefresh

Spec == Init /\ [][Next]_vars

(***************************************************************************)
(* The CPU runs a blocked method on (WriteFrame, FlushReturns are steps of *)
(* one sequential function that spins until BUSY reads LOW), and the panel *)
(* controller always finishes a refresh it started.  Python calls are the  *)
(* caller's choice and get no fairness.                                    *)
(***************************************************************************)
\* Fairness is stated on the guard and the control change of each step:
\* WriteFrame, FlushReturns and PanelRefresh are the only steps of the
\* model that take waiting or busy this way, so these are the same steps,
\* and ENABLED is evaluated without the frame's contents.
WriteFrameTaken ==
  /\ waiting \in {"update_pointer", "clear_pointer1", "clear_pointer2"}
  /\ Idle
  /\ waiting' = AfterWait[waiting]

FlushReturnsTaken ==
  /\ waiting \in {"update_flush", "clear_flush1", "clear_flush2"}
  /\ Idle
  /\ waiting' = AfterWait[waiting]

RefreshTaken == busy /\ busy' = FALSE

FairSpec ==
  /\ Spec
  /\ WF_waiting(WriteFrameTaken) /\ WF_waiting(FlushReturnsTaken)
  /\ WF_busy(RefreshTaken)

(***************************************************************************)
(* Properties.                                                             *)
(***************************************************************************)
\* The pixel grid the buffer holds, decoded with the layout of spec.md
\* section 3: bit 7 - x % 8 of byte (x + y * width) >> 3, MSB first.
PixelGrid ==
  [q \in (0..(Width - 1)) \X (0..(Height - 1)) |->
     (buf[(q[1] + q[2] * Width) \div 8] \div 2^(7 - (q[1] % 8))) % 2]

Abstract == INSTANCE Canvas WITH
  W <- Width, H <- Height,
  grid <- PixelGrid, rot <- rotation, inv <- (inverted # 0), call <- call,
  font <- frameFont

(***************************************************************************)
(* Every method call changes the packed buffer exactly as spec.md says the *)
(* pixel grid changes: the pixels under the call's footprint, rotated and  *)
(* clipped to the visible canvas, get the colour XOR the polarity, and no  *)
(* other bit of any byte moves.  This is about the bit addressing and      *)
(* masking of display_frame_draw_absolute_pixel, the four transforms of    *)
(* display_frame_draw_pixel, the loops of the line, rectangle and fill     *)
(* functions, and the inversion handling of the Display methods.           *)
(***************************************************************************)
CanvasRefinement == Abstract!Spec

(***************************************************************************)
(* display_frame_get_pixel, which repeats the rotation transform of        *)
(* draw_pixel in its own code, reads back at every visible logical point   *)
(* the pixel that spec.md's transform places there.                        *)
(***************************************************************************)
GetPixelReadsCanvas ==
  rotation \in 0..3 =>
    \A p \in Abstract!Visible(rotation) :
      GetPixel(buf, rotation, p[1], p[2]) = PixelGrid[Abstract!ToPhys(rotation, p)]

(***************************************************************************)
(* display_display_invert flips the polarity of every later write.         *)
(***************************************************************************)
InvertFlipsPolarity ==
  [][call'.op = "invert" => ((inverted' # 0) # (inverted # 0))]_vars

(***************************************************************************)
(* Text layout.  Arg(i) is argument i of the last call; TextLayout is the  *)
(* layout draw_string_at computed for it, in the state it left.            *)
(***************************************************************************)
Arg(i) == call.params[i]

TextFont == Fonts[frameFont]

TextLayout ==
  DrawString(TextFont, RotatedWidth(rotation), Arg(1), Arg(2), Arg(3),
             UInt8(Arg(5)), Arg(6))

\* The characters before the first newline.
FirstLine(str) ==
  LET nl == {i \in 1..Len(str) : str[i] = NEWLINE}
  IN IF nl = {} THEN Len(str) ELSE Min(nl) - 1

(***************************************************************************)
(* text() without wrapping (spec.md 4.4 and the maxWidth = 20 example of   *)
(* section 8): it draws the longest prefix of the first line whose glyphs  *)
(* all end inside the rotated canvas width and inside max_width (0 for    *)
(* the canvas width), side by side from (x, y), and returns the width of  *)
(* that prefix and one glyph height.  This is about the three-way stop     *)
(* test of display_frame_draw_string_at and its returned dimensions.       *)
(***************************************************************************)
NoWrapLayout ==
  call.op = "text" /\ UInt8(Arg(5)) = NO_WRAP =>
    LET fw    == TextFont.width
        width == RotatedWidth(rotation)
        limit == IF Arg(6) = 0 THEN width ELSE Arg(6)
        drawn == {k \in 1..FirstLine(Arg(3)) : Arg(1) + k * fw <= width /\ k * fw <= limit}
    IN /\ TextLayout.cells = {<<Arg(1) + (k - 1) * fw, Arg(2), Arg(3)[k]>> : k \in drawn}
       /\ result = <<Cardinality(drawn) * fw, TextFont.height>>

(***************************************************************************)
(* spec.md 4.4: when a string wrapped, the width text() returns is the     *)
(* widest horizontal travel over its lines (in the "ab cd" example of      *)
(* section 8, the two glyphs of the first line).  About the max_c          *)
(* bookkeeping of display_frame_draw_string_at with WRAP_INDENT.           *)
(***************************************************************************)
TextWidthIsTravel ==
  call.op = "text" /\ UInt8(Arg(5)) = WRAP_INDENT /\ result[2] > TextFont.height
  /\ TextLayout.cells # {} =>
    result[1] = Max({c[1] + TextFont.width : c \in TextLayout.cells}) - Arg(1)

(***************************************************************************)
(* spec.md 4.4: with WRAP_INDENT a wrapped line never starts with a space. *)
(* About the order of the space skip and the newline test in              *)
(* display_frame_draw_string_at.                                           *)
(***************************************************************************)
WrappedLineNoLeadingSpace ==
  call.op = "text" /\ UInt8(Arg(5)) = WRAP_INDENT =>
    ~\E c \in TextLayout.cells : c[2] # Arg(2) /\ c[1] = Arg(1) /\ c[3] = SPACE

(***************************************************************************)
(* font() without an argument reports the id of the font text() draws     *)
(* with.  About make_new storing the font keyword in self->font while      *)
(* load_font resolves it to another font.                                  *)
(***************************************************************************)
FontReportsLoadedFont ==
  call.op = "font_get" => result = Fonts[frameFont].id

(***************************************************************************)
(* Once update() or clear() has returned, the panel shows exactly the      *)
(* bytes of the frame buffer.  About the window and counter bytes of       *)
(* set_memory_area and set_memory_pointer against the padded frame width,  *)
(* the controller's RAM order, the wait on BUSY before a method returns,   *)
(* and the order of clear's two passes.                                    *)
(***************************************************************************)
PanelShowsFrame ==
  waiting = "none" /\ call.op \in {"update", "clear"} => ScreenBytes = buf

(***************************************************************************)
(* A method blocked on the panel eventually returns, given that the        *)
(* controller finishes every refresh.  About the busy-waits of             *)
(* set_memory_pointer and flush reading the BUSY pin's level.              *)
(***************************************************************************)
UpdateReturns == waiting # "none" ~> waiting = "none"

=============================================================================
