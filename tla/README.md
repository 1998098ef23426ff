# TLA+ models of the badge display engine (`moddisplay`)

This directory holds TLA+ models of the display module of the Troopers 19 badge
firmware (`src/ports/esp32/moddisplay/`). It also holds the TLC configurations
that check the models. The display module is a monochrome frame-buffer engine
for a 2.9" e-paper panel, exposed to MicroPython as `display.Display`.

## 1. The system

### Parts

| Part | Source | State | Operations |
|---|---|---|---|
| PixelStore | `moddisplay_frame.c` (`display_frame_init`, `_clear`, `_fill`, `_draw_absolute_pixel`, `_get_absolute_pixel`), `moddisplay_frame.h` (`display_frame_t`) | the borrowed byte buffer `buf`, `width` (padded to a multiple of 8), `height`, `size` | init, clear, fill from packed bits, set/get one bit |
| RotationTransform | `moddisplay_frame.c` (`_draw_pixel`, `_get_pixel`) | `rotation` and `inverted`, both `unsigned char` | logical to physical mapping with bounds check; `get_pixel` holds its own copy of it |
| Rasterizer | `moddisplay_frame.c` (lines, rectangles, `draw_line`, circles, `getAngle`, `draw_border`, `draw_arc`) | none of its own | point loops ending in `draw_pixel` |
| FontRenderer | `moddisplay_frame.c` (`get_font`, `load_font`, `draw_char_at`, `draw_string_at`), `fonts/` | `frame->font` | glyph blit, string layout with three wrap modes, returned dimensions |
| Display binding | `moddisplay_display.c` | `self->font`, `self->partial`, the frame | one MicroPython method per operation; it converts Python ints to the C parameter types |
| Base64 fill | `moddisplay_display.c` (`base64_decode_lookup`, `fill_b64`) | none | decodes a string and fills the frame 8 pixels at a time |
| Panel driver | `moddisplay_epd2in9.c` | GPIO/SPI to the panel controller, whose RAM, screen and BUSY pin it drives | reset, LUT upload, address window and counter, frame transfer, refresh, busy wait |
| Module table | `moddisplay.c` | none | registration of the type and constants |

### How the parts interact

A Python call enters a `display_display_*` handler. The handler converts its
arguments and calls one `display_frame_*` function. Every drawing function
funnels its pixels through `display_frame_draw_pixel`, which applies the
rotation and clips against the rotated canvas. `draw_pixel` then calls
`display_frame_draw_absolute_pixel`, which clips against the padded buffer,
applies the inversion, and rewrites one bit of one byte.

`init()`, `update()` and `clear()` (esp32 build) also drive the panel
driver. `update()` runs `set_frame_memory` (window, counter, a BUSY wait,
WRITE_RAM of the whole buffer) and then `flush` (MASTER_ACTIVATION, then a
BUSY wait). `clear()` does that twice, after each of its two clears. The
panel controller is the one other actor: it refreshes its screen from its
RAM while BUSY is HIGH, concurrently with the CPU's spinning.

Apart from that, the engine is single-threaded and synchronous. There are
no callbacks, no interrupts and no concurrent callers. What makes it hard
is elsewhere:

- integer and bit arithmetic at the edges of the buffer;
- the four transforms, and the padding columns they make visible;
- the C type conversions in the binding;
- the error-accumulator loops of the rasterisers;
- the state carried across calls: rotation, inversion and font.

### Hazards (details in `PROJECT.json`, "hazards")

- Bit addressing and masking in `draw_absolute_pixel`.
- The padded width under rotation.
- The duplicated transform in `get_pixel`.
- `fill` packing bits across row ends.
- `invert()` on an `unsigned char`.
- Unvalidated rotation values and colour truncation.
- The order of the two clears in `clear()`.
- `draw_line`'s early stop, and its error test after the x step.
- The circle's diagonal tie-break and negative radii.
- Unchecked buffer lengths in `init` and `fill_bytes`.
- The glyph stride (`ceil(width/8)` bytes per row) and row padding in
  `draw_char_at`.
- The three-way stop test of `draw_string_at` and its `max_width = 0`
  default; the `max_c` bookkeeping of the returned width; the order of the
  space skip and the newline test.
- `self->font` and `frame->font` going out of step.
- `draw_arc`'s first-quadrant angle taken from the centre, its fourth
  quadrant's `y - y` bounds test, and `draw_border`'s division by the radius.
- `fill_arc` bound to the `arc` function object.
- `fill_b64`: dead `sextet < 0` checks, extra bytes from padding, and `col`
  running past `x + width`.
- `fill_bytes` reading a source that aliases the frame buffer, and
  `frame->buf` going stale when its bytearray is resized.
- The panel: a method returning before the refresh ends; the address
  bytes (`x >> 3`, low and high bytes of y); `wait_until_idle` spinning
  with no timeout; `update()` before `init()`.

## 2. Modules

| Module | Models | Kind |
|---|---|---|
| `Frame` | PixelStore and RotationTransform: `buf`, `rotation`, `inverted`; `draw_absolute_pixel`, `get_absolute_pixel`, `draw_pixel`, `get_pixel`, clear, fill, the line and rectangle loops | component |
| `Raster` | `draw_line`, `draw_circle` and `draw_filled_circle`, as RECURSIVE operators whose arguments are the loop variables | pure algorithms |
| `Arc` | `getAngle` (a table of the truncated `atan2` degrees), `draw_border`, `draw_arc` and `draw_filled_arc`, with the walk as a RECURSIVE operator | pure algorithm |
| `Base64` | `base64_decode_lookup` and the loop of `fill_b64`, as a RECURSIVE operator that returns the `<<col, row, byte>>` writes | pure algorithm |
| `Canvas` | what spec.md promises: a grid of physical pixels, a rotation and a polarity, with one step per operation painting its footprint | abstract specification |
| `Text` | FontRenderer: `get_font`, `load_font`, the glyph pointer walk of `draw_char_at`, the layout loop of `draw_string_at` (as RECURSIVE operators over the loop variables), and the glyphs of `font_dejavu8.c` the runs draw | pure algorithms |
| `EpdAddress` | the panel driver's address arithmetic: the DRIVER_OUTPUT_CONTROL bytes of `init`, the window bytes of `set_memory_area`, the counter bytes of `set_memory_pointer`, and how the controller assembles and walks them (`Gates`, `Window`, `Counter`, `RamPosition`) | pure operators |
| `Epd2in9` | the panel driver (`init`, `set_memory_area`, `set_memory_pointer`, `set_frame_memory`, `flush`, `wait_until_idle`) as the bytes it sends, and the panel controller as an environment: `ram`, `screen`, `busy`, `lut` | component and environment |
| `Display` | the `display.Display` object: one action per method that changes the frame, the font or the panel, composing `Frame`, `Raster`, `Text` and `Epd2in9`; the blocked parts of `update()` and `clear()` are steps of their own; it is shown to implement `Canvas` | composition and refinement |
| `MCDisplay` | model values for `Display`, including the font registry | TLC instance |
| `MCRaster` | the `Raster` loops checked over every argument tuple of small ranges, and the `EpdAddress` arithmetic over frame sizes up to the 128x296 panel | TLC instance |

### Correspondence with the code

- Each drawing loop is modelled as the **set of logical points** it passes
  to `draw_pixel`.
- `DrawPixels` and `DrawPoints` apply a call's points to the buffer, one
  masked write (`WriteBit`, line 103) per pixel, grouped by byte. Within one
  call the writes commute: either all points get one colour, or the points
  are distinct, as in `fill`. So the result does not depend on the order of
  the loop.
- `Target` is the transform of `draw_pixel`. `GetPixel` is the separate
  copy in `get_pixel`.
- The colour and flag conversions are modelled by what they do: `UInt8(n)
  == n % 256` stores an `int` into an `unsigned char` or `uint8_t`.
- `Display` actions take their arguments from constant sets with `\E`, as
  a caller would pass them. Each action records the call in the history
  variable `call`.
- `clear()` is the esp32 build. It clears to the opposite colour, then to
  the colour. `display_frame_clear` rewrites every byte, so the buffer
  takes its final colour at the call step, and the first frame transfer
  sends the opposite-colour buffer (`Clear(buf, inverted, 1 - Bit(color))`).
- `waiting` says where a blocked `update()` or `clear()` stands: before a
  transfer (`*_pointer*`, the BUSY wait at the end of `set_memory_pointer`)
  or inside a flush (`*_flush*`, the wait at its end). `WriteFrame` is the
  wait returning plus WRITE_RAM and MASTER_ACTIVATION; `FlushReturns` is the
  flush's wait returning. No new Python call starts while `waiting` is not
  "none".
- The panel controller is assumed to do what its data sheet says and the
  driver relies on: it assembles the window and counter from the bytes
  (`Window`, `Counter`), stores WRITE_RAM data at the counter in data entry
  mode 0x03 (x first, wrapping inside the window, `RamPosition`), raises
  BUSY on MASTER_ACTIVATION and, in `PanelRefresh`, copies its RAM to the
  screen and drops BUSY. It drives `Gates` rows, height - 1 assembled
  from the low and high bytes of DRIVER_OUTPUT_CONTROL. Before any transfer its RAM and screen hold
  `UNKNOWN`. SPI and GPIO levels are abstracted to the bytes and the pin.
- `init()` records which waveform was sent (`lut`): the partial one when
  the `partial` keyword of `make_new` is true.
- The call record's arguments are the field `params`.
- `Init` is `make_new`: any buffer content, any rotation keyword, the
  `invert` keyword as a bool, and the `font` keyword. `font` is
  `self->font`, which keeps the keyword as given. `frameFont` is
  `frame->font`, modelled as the registry id of the font it points to.
- `result` is the value the last method returned to Python: the
  `(width, height)` of `text()`, the bool of `font(n)`, the id of `font()`.
- `arc` draws `ArcPoints`. `fill_arc` is the same handler, because the
  locals table (line 586) binds it to `display_display_arc_obj`: its sixth
  argument is the border width and the colour is `FOREGROUND`.
- `fill_b64` applies the writes of `B64Writes`. Each write is the 8x1
  `display_frame_fill` of one decoded byte.
- A font is a record with the fields of `display_font_t`. Only
  `font_dejavu8.c` is in the repository; `MCDisplay` keeps its real bytes
  for ' ', '?', 'a' and 'b'. Ids 1 and 2 are test fonts of widths 10 and 16
  (two bytes per row, padded and not), standing in for the fonts whose
  tables are missing. Their bytes all differ, so a read from the wrong byte
  shows.

### The refinement

`Display` instantiates `Canvas` with these mappings:

- `grid <- PixelGrid`, which decodes the buffer with spec.md §3's formula;
- `rot <- rotation`;
- `inv <- (inverted # 0)`;
- `call <- call`.

The abstract steps are these:

- pixel, hline, vline, rect and fill_rect paint their footprints (§4.3).
- fill_bytes paints the packed bitmap (§4.1).
- clear and fill paint the whole grid.
- line, circ and fill_circ may paint only pixels inside the shape's
  bounding box, in the call's colour. §4.3 fixes the algorithms, not
  their pixel sets. The pixel sets are checked in `MCRaster`.
- arc may paint only inside the box of radius max(|r|, |border|) in its
  colour. fill_arc, per spec.md, paints inside the box of radius |r| in the
  colour given as its sixth argument.
- fill_b64 paints the bits of the RFC 4648 decoding of its string, 8 per
  byte, row by row in `width` columns.
- Rotation and polarity changes leave the grid untouched.
- text paints, at every glyph cell of the layout, the set bits of the glyph
  as spec.md §3 and §4.4 `charCell` lay it out: `ceil(width/8)` bytes per
  row, MSB first, '?' for codes outside the font's range. The layout (where
  the cells are) is taken from `Text` and checked on its own by the text
  properties of `Display`. So the refinement checks the pointer walk of
  `draw_char_at`, the clipping of text under rotation, and its colour.
- Loading a font may select any font of the registry, or none; with no
  font, text draws nothing.

## 3. Runs

| Run | cfg | Expect | What it shows |
|---|---|---|---|
| `display_single_call` | `MCDisplay.cfg` | pass | Every drawing method changes the buffer as `Canvas` says (`CanvasRefinement`). This holds from 3 buffer patterns (0x00, 0xA5, 0xFF), rotations 0..3 and both polarities. The arguments lie on, inside and just outside every edge of the 8x3 buffer (6 columns padded to 8) and of its 3x8 rotated canvas. `get_pixel` reads back the canvas (`GetPixelReadsCanvas`). |
| `display_two_calls` | `MCDisplaySeq.cfg` | pass | Every pair of calls refines `Canvas`. This includes rotation or polarity changes between drawings, two drawings into the same byte, and `font(1)` (a 10-pixel font) before `text()`. With `init()`, `update()` and `clear()` among the calls, interleaved step by step with the panel's refresh, the panel shows exactly the buffer whenever `update()` or `clear()` has returned (`PanelShowsFrame`), and under the fairness below every blocked `update()` or `clear()` returns (`UpdateReturns`). |
| `invert_after_inverted_2` | `MCInvert.cfg` | violation | `inverted(2)` followed by `invert()` does not flip the polarity. |
| `text_layout` | `MCText.cfg` | pass | On a 16x4 panel under rotations 0 and 90 (canvas widths 16 and 4), with fonts of widths 5, 10 and 16: every string of up to three characters over 'a', 'b', space, newline and code 200, plus the strings of spec.md §8, in every wrap mode (0..3) and with max_width 0, 10, 20 and -1, draws the glyphs of spec.md §3 at its layout cells (`CanvasRefinement`). Without wrapping, it draws exactly the prefix of the first line that fits and returns its width and one glyph height (`NoWrapLayout`). |
| `text_width_after_wrap` | `MCTextWidth.cfg` | violation | The §8 example `text("ab cd", WRAP_INDENT, max_width=10)` returns width 5, not 10 (`TextWidthIsTravel`). |
| `text_newline_space` | `MCTextSpace.cfg` | violation | With WRAP_INDENT, "a\n a" draws its second line starting with a space (`WrappedLineNoLeadingSpace`). |
| `font_getter_after_make_new` | `MCFontGet.cfg` | violation | After `Display(buf, w, h)`, `font()` returns 0 while text is drawn with font 4 (`FontReportsLoadedFont`). |
| `raster_circles` | `MCRaster.cfg` | pass | For radius 0..11, the outline is symmetric about the diagonals (`CircleEightFoldSymmetric`). The filled circle is exactly the row spans of the outline (`FilledCircleSpansOutline`). For frames of 8x1, 8x3, 16x256, 128x255, 128x296 (the panel) and 2048x257, `init` makes the controller drive exactly `height` rows, and the window and counter of `set_frame_memory` put the buffer's bytes in RAM row by row, wrapping to the origin after the last (`PanelGeometryMatchesFrame`). |
| `raster_line_accuracy` | `MCRasterLine.cfg` | violation | `line(0,0,5,2)` plots a pixel 0.6 px off the ideal line. |
| `raster_negative_radius` | `MCRasterRadius.cfg` | violation | A negative radius draws two stray pixels, not the normalised circle. |
| `arc_sweep` | `MCRasterArc.cfg` | violation | `arc(4, 4, 2, 0, 45)` plots points of the upper-right quadrant at angles above 45 (`ArcWithinSweep`). |
| `fill_arc_colour` | `MCFillArc.cfg` | violation | `fill_arc(3, 1, 3, 90, 180, 0)` paints foreground pixels, not colour 0 (`CanvasRefinement`). |

### Bounds

- **Buffer.** A 6x3 panel pads to 8x3. That is three bytes, with a byte
  boundary in every row, two padding columns, and a rotated canvas of 3x8.
  Every boundary the code tests (`x & 7`, `width - y - 1`, the rotated
  bounds, padding) occurs in it.
- **Coordinates.** {-1, 0, 2, 3, 7, 8} covers just outside, the first
  pixel, the interior, the last row/column of each orientation, and just
  past the end.
- **Lengths.** The set includes -1 and 0, for loops that never run.
- **Images.** The images are not byte-aligned: 3x2 and 5x3. A full row
  and a zero-width bitmap are included too.
- **Colours.** 0, 1 and 255. 255 exercises the `(color != 0)`
  normalisation.
- **Calls.** One call in the first run. Two calls, with fewer arguments,
  in the second.
- **Text.** A 16-pixel canvas holds three 5-pixel glyphs; rotated, the
  4-pixel canvas holds none, so every glyph wraps. Strings of three
  characters reach every pair of consecutive wrap events (limit, newline,
  spaces after either). max_width 10 cuts a line after two glyphs, 20
  after four (the §8 example), -1 before every glyph. Wrap value 3 matches
  no case of the switch. The widths 5, 10 and 16 cover a glyph row of
  less than one byte, of one padded byte and more, and of exactly two bytes.
- **Panel geometry.** Heights 255, 256, 257 and 296 put the last row on
  each side of the high byte of y; width 2048 is the largest whose end
  column fits the x byte. The display runs use an 8x3 frame, where the
  high bytes are 0; this run is where they matter. Only the first and last
  byte of each row are compared with the buffer layout: `RamPosition` is
  linear within a row, so those two fix the rest.
- **Raster.** Radius 0..11 reaches the first radius where the diagonal
  tie-break matters (4). The line grid 0..5 reaches the first slope where
  the error test goes wrong (5:2).
- **Arc.** Radii 1..3 and centres up to 4 keep every vector `getAngle` sees
  within the 8x8 table. The arguments include a full circle, a half circle
  with border 2, negative start and sweep over 360, a clipped quarter and
  radius 0. Radius 0 is only used with |border| <= 1: the code divides by
  the radius, and TLC stops on a division by zero.
- **Base64.** "QUJD", "pVpa" and "//8A" cover every sextet phase, bytes
  with high and low bits, and 0; width 8 with heights 1 and 3 stops the
  stream early or lets it end, at x 0 and 3 (byte-aligned and not).

- **Panel.** The 8x3 buffer fills a RAM window of 1 x 3 byte cells, so
  the counter wraps from the end of a row to the next row after every
  byte, and a window one column too wide (an end column of `width >> 3`)
  puts every second byte in the wrong cell. Both waveforms (`partial` true
  and false) are in the initial states.

The number of Python calls is bounded by `MaxCalls`, checked in `Method`;
the steps of a blocked call and the panel's refresh are not bounded, but
each of them changes `waiting` or `busy` towards the end of the call. Every
behaviour of the model therefore ends. The cfgs say `CHECK_DEADLOCK FALSE`
for that reason alone: no Display method has an enabling condition.

### Fairness and liveness

The only place that can fail to terminate is
`display_epd2in9_wait_until_idle`, which spins on the panel's BUSY pin
with no timeout. `FairSpec` assumes weak fairness of the two CPU steps
that end a wait (`WriteFrame`, `FlushReturns`): the CPU runs the blocked
function and nothing else, so once BUSY stays LOW it reads it. It assumes
weak fairness of `PanelRefresh`: the controller always finishes a refresh
it started. Python calls get no fairness, since the caller may stop
calling. The fairness is written on `WriteFrameTaken`,
`FlushReturnsTaken` and `RefreshTaken`, the guard and the `waiting` or
`busy` change of those steps: no other step of the model changes them that
way, so the conditions are the same, and TLC evaluates ENABLED without the
frame's contents. Under it, `UpdateReturns` checks that a blocked call
always returns; reading BUSY with the wrong polarity (the `IdleInverted`
mutant) breaks it.

## 4. Findings

- `invert()` computes `1 - inverted` in an `unsigned char`. It is not a
  toggle once `inverted` holds a value other than 0 or 1, for example after
  `inverted(2)`.
- `draw_line` tests `2 * err <= dx` after the x step has changed `err`.
  Its points stray more than half a pixel from the line (spec.md asks for
  Bresenham). The early stop when either axis arrives is the documented
  quirk, and `Raster` keeps it.
- `draw_circle` with a negative radius draws two pixels. spec.md says
  negative radii are normalised.
- After a wrap, `draw_string_at` returns `max_c - x`: `max_c` is where the
  last glyph started, so the width lacks one glyph width (spec.md §4.4 and
  §8 say it is the maximum travel). With WRAP_LINE_START it can be negative.
- WRAP_INDENT skips spaces while the text pointer is still on a newline,
  so the spaces after a newline are drawn (spec.md: a wrapped line never
  starts with spaces).
- `make_new` stores the `font` keyword in `self->font` and ignores what
  `load_font` resolved it to, so `font()` reports 0 after a default
  construction although text is drawn with font 4.
- The upper-right quadrant of `draw_arc` takes the angle of
  `(x + x, y - y)`, a vector of the centre coordinates, not of the point. That
  quadrant is drawn whole or not at all: `arc(4, 4, 2, 0, 45)` draws up to
  90 degrees.
- `fill_arc` is bound to the `arc` function object, so it draws an outline
  of border width `color` in the foreground colour.
- Not run (hazards): `fill_b64` decodes an invalid character as 255, and
  emits an extra byte for padded strings or lengths not a multiple of 4.
  `draw_border` divides by zero at radius 0 with |border| > 1.
- Not run: `make_new` accepts a frame of height 0, for which `init`
  sends 0xFF 0xFF as height - 1 (65536 rows), and a frame wider than 2048
  pixels wraps the x end byte of the RAM window.
- Not run: `get_font` never returns NULL (the DejaVu12 fallback is
  compiled in), so `font(99)` returns True and every "no font" path is dead
  code. spec.md says loading reports whether a font was found; the source
  comment says the fallback is intended.

## 5. Not modelled, and why

Known from the code, and not run. Each of these would break
`CanvasRefinement` in a violation run of its own; the project keeps twelve
runs (the findings above and the four passing runs), so they are recorded
as hazards in `PROJECT.json` instead:

- `rotation(4)` is stored as given: every drawing call becomes a no-op and
  `get_pixel` returns 255. `rotation(256)` means 0. `Frame` models both
  (`UInt8`, the `OTHER` case of `Target`); `Canvas` accepts only 0..3.
- Colour 256 truncates to 0 in the `uint8_t` parameters and draws
  background although the Python value is true.
- `fill_b64` writes an extra byte for padded strings and for lengths that
  are not a multiple of 4, and decodes invalid characters as 255.
- `fill_bytes` with the display's own buffer as source reads bytes it has
  already overwritten, so a copy with a row offset smears the first row.
- `fill_bytes` with a negative width and height (a positive product) draws
  the bitmap upward and to the left of `(x, y)` with C's truncating `%` and
  `/`. `FillImage` uses TLA+'s `%`, which agrees only for the non-negative
  sizes the runs use.

Not modelled:

- **Panel driver, in part**: `set_frame_memory_partial` and
  `clear_frame_memory` have no caller in the repository. The electrical
  side (SPI transfers, chip select and data/command levels, the reset
  delays) is abstracted to the bytes sent. What the panel shows without a
  waveform (`update()` before `init()`) is beyond the controller model,
  which only records the waveform in `lut`.
- **Module table** and **qstr definitions**: static tables with no state.
- **Memory safety of the borrowed buffers**: their lengths are never
  checked, and `frame->buf` keeps the address of the bytearray's storage
  from construction, which a resize moves. The model's buffers always have
  the right size and a fixed identity.
- **The UNIX build** of `update()` prints the frame and is not modelled;
  `clear()` is modelled as the esp32 build.
- **The font tables** other than `font_dejavu8.c` are not in the
  repository; test fonts stand in for them.
