# A verification project for ssimulacra2 and ssimulacra2-vulkan

The repository holds an image quality metric twice: the reference in C++
(`src/src/ssimulacra2.cc`, on top of a part of libjxl) and a port to Rust and
Vulkan compute shaders (`src/ssimulacra2-vulkan/`). The port promises the same
score, whichever of its engines and passes computes it, and to leave no GPU
object behind when a driver call fails. The reference runs its loops on one of
two thread pools of libjxl, whose header promises that a callback is called
exactly once for every number of a range; it reads its images with libjxl's
decoders, and the tree carries libjxl's header and bit-stream code.

These modules state those promises in TLA+, TLC checks them on small instances
with every interleaving and every failure, and TLAPS proves the most important
ones for all values of the constants. Every definition that stands for code
names the lines it stands for in `PROJECT.json` under "map".

Paths below leave out the leading `src/`: `lib/` is `src/src/lib/`, and the
`.rs` and `.comp` files are those of `src/ssimulacra2-vulkan/`.

## 1. Inventory

| Component | State | Operations | Talks to |
|---|---|---|---|
| Fixed thread pool, `lib/threads/thread_parallel_runner_internal.{h,cc}` | `worker_start_command_`, `workers_ready_`, `depth_`, `num_reserved_`, one mutex, two condition variables, each worker's chunk | constructor, `Runner`, `RunOnEachThread`, destructor; `ThreadFunc`, `RunRange` in the workers | callers through `JxlParallelRunner`; tasks through `data_func_` |
| Resizable thread pool, `lib/threads/resizable_parallel_runner.cc` | `next_task_`, `end_task_`, `num_desired_workers_`, `max_running_workers_`, `num_running_workers_`, `work_available_`, `workers_`, one mutex, two condition variables | `SetNumThreads`, `Run`, destructor; `WorkerBody`, `DequeueTasks` | the same |
| Contract of a runner, `parallel_runner.h`, and `ThreadPool::Run` | none | one call | both pools implement it |
| Vulkan context, `context.rs` | buffers with their memory, the cached staging buffer, the open batch (command buffer, deferred buffers, descriptor sets), command buffers, the pipeline cache | `create_buffer_f32`, `create_empty`, `destroy_buffer`, `readback_f32_all`, `begin_batch`, `end_batch`, `abort_batch`, `drop` | the driver, whose every call may fail; the GPU, which works on its own |
| Compute dispatch, `pipeline.rs` and the prologue of every shader | the cache of pipeline objects, one descriptor pool per shader | `run_compute_push`, `split_groups`; the flat index of an invocation | context, driver |
| GPU pipelines, `gpu_pipeline.rs`, `blur.rs`, `xyb.rs` | buffers under a `BufGuard`, a `BatchGuard`, `PrepImage`s, `cw`, `ch` | single shot, `prep_gpu`, `compare_gpu`, `compare_prep_gpu`, `score_batch_paths` | context, one method call at a time |
| The metric, `ssimulacra2.cc`, `cpu.rs`, `score.rs`; the blur, `gauss_blur.cc`, `blur.rs`, `blur_h.comp`, `blur_v.comp` | the images of one scale; the outputs a scan keeps | `ComputeSSIMULACRA2`, `compute_ssimulacra2_cpu`, `Score`; `FastGaussian1D`, `VerticalStrip`, `blur_1d` | the pools (reference), the pipelines (port) |
| PNG decoding of the reference, `lib/extras/dec/apng.cc` | the animation control, one libpng reader per image, a shared row buffer, the kept header chunks, the frames, colour | the chunk loop, the compositing loop | libpng |
| Pixel files, `lib/extras/dec/{decode,pnm,pgx}.cc`, `enc/{encode,pnm,pgx}.cc`, `codec.cc` | none but the parser's position | `DecodeBytes`, `SetFromBytes`, `Encode`, `EncodeToFile` | pictures in memory |
| Pictures in memory, `packed_image.h`, `packed_image_convert.cc`, `codec_in_out.h`, `image_bundle.{h,cc}`, `enc_image_bundle.cc`, `enc_external_image.cc`, `dec_external_image.cc`, `alpha.cc` | a `PackedPixelFile` of bytes; a `CodecInOut` of planes with its metadata; one buffer per thread | conversion one way and the other, `TransformTo`, `PremultiplyAlpha`, `UnpremultiplyAlpha` | a pool, a colour management system, decoders, encoders |
| Colour management, `color_encoding_internal.{h,cc}`, `color_management.cc`, `enc_color_management.{h,cc}`, `color_description.cc`, `color_hints.cc` | a `ColorEncoding`: fields, the profile beside them, `want_icc_`; the `JxlCms` of a transform | `SetICC`, `CreateICC`, `SetSRGB`, `DecideIfWantICC`, conversion from and to a struct and a text; `JxlCmsInit`, `DoColorSpaceTransform` | LCMS; the pictures in memory |
| Codestream headers, `enc_bit_writer.cc`, `padded_bytes.{h,cc}`, `dec_bit_reader.h`, `fields.cc`, `headers.cc`, `image_metadata.cc`, a part of `color_encoding_internal.cc` | the pen, storage, open allotments; the word of a reader and its position; a bundle | `Write`, `Allotment`, `ReclaimUnused`, `AppendByteAligned`; `Refill`, `Consume`, `SkipBits`; the visitors | each other |
| Command lines, `main.rs`, `cpu.rs`, `ssimulacra2_main.cc` | files; pictures of one process | a pair, `score-many`, `normalize` | the file system, other processes, all of the above |
| Pipeline cache file, `context.rs` 76-85 and 688-718 | a file several processes share | read by `new`, written by `drop` | file system |
| Profiling, oracle dumps, scripts, the rest of the vendored libjxl | | | |

### What is hard about it, and what makes each part correct

- **Fixed pool.** Workers sleep on a condition variable whose wait has no
  predicate: a notification a worker is not there to hear is lost, a command it
  sees twice is run twice. Correct when a call starts only once all workers
  sleep and none has an old report left; when the numbers of a range are each
  given to `func` once although a chunk's size comes from a count that is stale
  by the time the chunk is reserved; when a call made from inside a task is
  refused and reported; and when no call hangs.
- **Resizable pool.** Nobody waits for workers: they join late, while the range
  is drained, while `Run` is about to return, after a resize. Correct when a
  late worker never works on a call that has returned, thread ids stay below
  what `init` was told, and removing workers ends.
- **Context.** In an open batch both work and release are deferred. Correct
  when a buffer exists as long as a recorded command refers to it, is released
  exactly once, and sets go back to their pools; on every error path.
- **Dispatch.** A flat number of groups is split over two dimensions and put
  together again in 32 bits. Correct when every element is found once.
- **Pipelines.** Some thirty buffers per scale, unwound by two guards in a
  fixed order, whichever call fails. Correct when nothing is left behind, when
  a GPU failure followed by a CPU retry, or by another pass on the same
  context, gives the same result, and when all four ways to score a pair
  compute the reference's dataflow, with the dimensions of the right scale.
- **Blur.** One recursive filter written four times, with borders, unrolled
  interiors and remainders that begin and end elsewhere. Correct when all give
  the response of the filter, pixel for pixel in the same form for rows, and
  look at no memory around the line.
- **PNG decoding.** Chunks come in any order; images of an animation share a
  buffer and replayed header chunks; APNG's dispose operations have to be put
  into JPEG XL's single reference. Correct when the animation shows the same.
- **Pixel files.** A header is followed by exactly one separator and then by
  bytes that may look like another; some formats store rows bottom up, or
  another byte order. Correct when a whole file reads as it was drawn, a damaged
  one is refused, and what is written reads back.
- **Pictures in memory.** Samples have types, byte orders, paddings and eight
  orientations; whether colours are multiplied by alpha is one flag for all
  frames; rows are worked on by threads with buffers of their own. Correct when
  a picture stays the one drawn whatever was done to it, in the colour space
  and with the alpha its metadata say, and is turned upright when it is packed.
- **Colour management.** An encoding is said four times: by its fields, its
  profile, a struct and a text. Fields snap to names, a profile is made of
  fields or fields are found in a profile, and either may fail half way. Around
  LCMS a transform undoes and applies curves, brightness and HLG's OOTF, decided
  from both ends. Correct when all four say the same, and a pixel comes out as
  what the target encoding means.
- **Headers.** What is written depends on which other fields have defaults; a
  reader may be cut off at any bit. Correct when what is written is read back,
  a cut is told from an error, and sizes are exact.
- **Command lines.** `normalize` writes one output after another in place; the
  routing and the checks of `score-many` decide what runs, while files change.
- **Cache file.** Written in place, without a lock.

`PROJECT.json` lists the hazards one by one, at the lines where they bite.

## 2. Modules

| Module | Models | What it is |
|---|---|---|
| `ParallelRunner` | contract of a runner | Abstract specification: a call accepts a range, calls `func` once per number, returns when none is left. |
| `ThreadParallelRunner` | the fixed pool | One main thread, `NumWorkers` workers; refines `ParallelRunner`. |
| `ThreadParallelRunnerInvariant` | | Its inductive invariant, checked by TLC, used by the proofs. |
| `ThreadParallelRunnerProofs` | | TLAPS: handshake; a number is given to `func` once; re-entry is reported; it implements `ParallelRunner`. |
| `ResizableParallelRunner` | the resizable pool | Caller and workers as threads 0..; refines `ParallelRunner`. |
| `ResizableParallelRunnerInvariant`, `ResizableParallelRunnerProofs` | | Its inductive invariant, checked by TLC; TLAPS: quiet between calls, thread ids in bounds, it implements `ParallelRunner`. |
| `GpuContext` | context and dispatch | Ownership of Vulkan objects under any client. |
| `Dispatch` | `split_groups`, shader prologue | Groups over two dimensions and back. |
| `GaussBlur` | the recursive blur | Rows and columns of the reference and of the port over exact integers. |
| `MetricProofs` | the metric | TLAPS: all scans of the blur are one filter, every element of a dispatch is found once, the CPU's loop and weights are the reference's. |
| `Ssimulacra2` | reference, CPU engine | The metric as a term: which stage of which images, told which dimensions; which weight is for what. |
| `GpuPipeline` | pipelines and callers | Extends `GpuContext`, `Ssimulacra2` and `GaussBlur`: the functions of `gpu_pipeline.rs` as clients of the context. |
| `GpuPipelineInvariant`, `GpuPipelineProofs` | | The inductive invariants of the context's clients and of the pipelines, checked by TLC; TLAPS: ownership, room in the pools, nothing left behind; what every buffer holds and every score is. |
| `ApngCompositing` | second loop of `dec/apng.cc` | Frames of APNG to frames of JPEG XL. |
| `Apng` | first loop of `dec/apng.cc` | Chunks to images, header replay, colour. Extends `ApngCompositing`. |
| `ExternalImage` | `enc_external_image.cc`, `dec_external_image.cc` | Bytes to planes and back, orientation, rows in per-thread buffers. |
| `ImageBundle` | `packed_image.h`, `packed_image_convert.cc`, `codec_in_out.h`, `image_bundle.*`, `alpha.cc` | Pictures packed and unpacked. Extends `ExternalImage`. |
| `PixelFormats` | `dec/pnm.cc`, `dec/pgx.cc`, `enc/pnm.cc`, `enc/pgx.cc`, `dec/decode.cc`, `codec.cc` | What files hold which pictures. Extends `ImageBundle`. |
| `PixelFiles` | `SetFromBytes`, `CodecInOut`'s operations, `EncodeToFile` | A picture is read, worked on by a pool and written. Extends `PixelFormats`. |
| `ColorEncodings` | `color_encoding_internal.*`, `color_description.cc` | Fields, how they are set; struct, text and its parser. |
| `ColorProfiles` | `color_management.cc`, the first half of `enc_color_management.cc` | Profiles as tags and bytes, made and read. Extends `ColorEncodings`. |
| `ColorTransforms` | `JxlCms`, `ColorSpaceTransform` | What a transform does to the meaning of a pixel. Extends `ColorProfiles`. |
| `ColorManagement` | `packed_image_convert.cc`, `color_hints.cc`, `CopyToT` | Calls on one encoding one after the other, then one transform. Extends `ColorTransforms`. |
| `ColorProofs` | `ColorManagement` | TLAPS: the fields of an encoding, its profile, its struct and its text say the same, however it came about. |
| `ImageFiles` | `DecodeBytes` | `Apng`, `PixelFiles` and `ColorManagement`: a file is one decoder's or the others', its colours are converted by themselves. |
| `ImageProofs` | | TLAPS: both loops over an animation, by themselves and as one decoder; pictures in memory. |
| `BitWriter` | `enc_bit_writer.cc`, `padded_bytes.cc` | Where bits go: pen, zeroed memory, nested allotments. |
| `BitReader` | `dec_bit_reader.h` | Position, refills and the end of the data. |
| `BitStreamProofs` | | TLAPS proofs about the two. |
| `Fields` | `fields.cc` | Coders of a field and the visitors. |
| `ImageHeaders` | headers and metadata | What each bundle visits. |
| `Codestream` | | Composes `BitWriter`, `BitReader`, `ImageHeaders`: bundles are written and read back, possibly cut off. |
| `CommandLine`, `CommandLineProofs` | the three front ends | Processes sharing files, scores symbolic; TLAPS: scores are the reference's, batches whole, outputs kept. |
| `MC...` | | Values of the constants for TLC. |

### How state and actions correspond to the code

**ThreadParallelRunner.** `mutex_` is only held across a few assignments or a
wait, so a critical section is one action and a wait set is a set of thread
states (`"waiting"` for `worker_start_cv_`, `"cvwait"` for `workers_ready_cv_`);
a thread that was notified must still take the lock (`"woken"`, `"barrier"`).
`StartWorkers` is split at its unlock: `NotifyAll` comes later. Outside the
mutex, every access of an atomic is an action: `LoadReserved` reads
`num_reserved_`, `Reserve` is the `fetch_add`, modulo the word. `Reenter` is a
task calling its own runner, `RunRejected` the early returns. Without workers
nothing refuses such a call: `SequentialReenter` is an inner `Run` from its first to
its last task, `seq_task` where the loop of the outer one stands. A `WorkerCommand`
packs a range in 64 bits, so it is a pair, and the three special values are the
pairs their bits spell. `ran` is a history variable: how often `func` was
called for each number.

**ResizableParallelRunner.** `at[t]` is where thread `t` is; the caller is
thread 0 and worker `i` is thread `i + 1`, the id it passes to `func`. Critical
sections of `state_mutex_` are actions; between them `Dequeue` is one
`next_task_++`. Notification of `workers_can_proceed_` sends the waiting workers
back to the head of `WorkerBody`'s loop, which tests everything again; spurious
wakeups do the same and are part of the specification.

**GpuContext.** A context is used by one thread at a time, so a method is an
action, with `ok` for its result. `Failures` names the driver calls that may
fail, and each disjunct is one path through the method with what it leaves
behind: a `vkAllocateMemory` that fails leaves a buffer without memory
(`unbound`), a failed `begin_batch` leaves its command buffer, a submission
whose wait fails leaves work running (`pending`). `trash` is what
`destroy_buffer` and `create_buffer_f32` defer to the batch, `refs` is what
recorded commands refer to, `sets` counts the descriptor sets allocated of each
pool and `batchSets` those the batch gives back. Handles are reused.

**GpuPipeline.** `Body(k)` is the list of operations of a scale in the order of
the source; `op` and `step` are the position in it. Each step is one method of
the context, and a failure goes the way the `?` and the guards go: `BatchGuard`
first, `BufGuard` next, in reverse order of their declaration. `val[b]` is the
term that buffer `b` holds once the recorded commands have run. A job is what
the callers run: one pair (`pipeline()` with one pass or with two for images
with alpha), a cached original against variants (`score_batch_paths`), or two
prepped sides (`compare_gpu`).

**Ssimulacra2.** `ComputeSSIMULACRA2` is the reference; `compute_ssimulacra2_cpu`
is the loop of `cpu.rs`, with its own order of test and downsampling. Terms
carry the dimensions a stage was told, so a stage run with the dimensions of
another scale is a different term.

**GaussBlur.** A scan is a record of what its loop keeps (`n`, the previous
outputs, a ring buffer) and what it has stored. `FastGaussian1D`,
`VerticalStrip`, and the row and column of the port are step functions on it,
with the phases the code splits a line into. Arithmetic is on integers, and of
the three cosine terms an output adds up there is one, since the code treats
them alike. `line` has values outside of the line too. `d1` runs over -2..2
because the coefficients of an unrolled step are polynomials of degree four in
it: five points tell two of them apart.

**Dispatch.** `split_groups` and the index a shader computes, modulo a word.

**Apng.** The file is chosen chunk by chunk as the loop reads it. A data chunk
delivers any number of rows and may end the compressed stream, because it is over,
too long or damaged, before all rows have come. All images share `frameRaw`, which is
never cleared; each pixel of it is the number of the image that was last written
there. `png` is the libpng reader, of which the model keeps what the code relies on:
its size, how many header chunks it was given, how many rows it delivered and whether
its stream is over. libpng refuses chunks that come while a stream is open
(`TakesOtherChunks`) and an image without an ended one (`FinishSucceeds`), but nobody
counts rows.

**ApngCompositing.** One step is one iteration of the second loop. A pixel is the
sequence of the frames blended into it. `canvas` is what a viewer that follows the
APNG specification draws the next frame on, `expected` what it has just shown;
`reference` is the frame a JPEG XL decoder has saved, `shown` what it shows of the frames
the code produced.

**ExternalImage, ImageBundle.** A sample is a fraction with the colour space it
is in and the alpha it was multiplied by, so that two samples are equal only if
every conversion between them was undone. A byte says of which sample it is and
which piece of it; bytes in the wrong order, or of two samples, load as
`Garbage`, and a buffer's memory starts out `Unwritten`. What the colour
management system does (`InSpace`, external) is to put a sample of the space it
was told into the other one, and to spoil any other sample.

**PixelFormats.** A file is a sequence of tokens: words, numbers and comments
in the header, which the parsers take whole, and bytes in the raster. A raster's
byte may be one of whitespace. Parsers are lists of steps, each giving the next
position, or none.

**PixelFiles.** One step is what the code does between two accesses to something
that the threads of a pool share: `ReadRow` and `WriteRow` of a transform,
`ConvertRow` and `StoreRow` of packing. `source.picture` is what was drawn.

**ColorEncodings, ColorProfiles.** Chromaticities are integers in units of 1E-5,
exponents in units of 1E-7, so that `ApproxEq`, the bounds of `Customxy` and the
snapping to names are exact. A profile is a header, a table of tags with offsets
and sizes, and pieces with their places and lengths; `ReadTag` finds a piece
only where the table says it is. LCMS is external: `CanTransform`, `CurveIn`,
`ColorantsIn` and `WhiteIn` are what it makes of the tags, a table before curves and
colorants, and `Drifts` is by how much it may be off. The code around it reads the white
point from its tag, or transforms white, or takes equal energy (`UnadaptedWhitePoint`),
and the colorants from theirs before it transforms (`ColorantsTold`). In a text,
`NextRest` is the tokenizer: at the end of its text it starts over.

**ColorTransforms.** A pixel is what its samples mean: space, curve, the nits of
1.0, light of the scene or of the display, ink, and whether a table of 16 bits
clipped it. Undoing a curve that is not there garbles it.

**ColorManagement.** `managed` is one `ColorEncoding`; each call is an action that
leaves in it what the code does, failures included. `StartTransform` is
`JxlCmsInit`, which reads both profiles anew, `RunTransform` one pixel.

**BitWriter.** The contents of bits are of no account, only where they go:
`bits_written` is the pen, `clean` the end of the memory known to be zero,
`open` the stack of allotments. `PaddedBytes` grows and shrinks with them.

**BitReader.** `consumed` is a history variable, what its user took; the reader
has its own position in bytes loaded and bits left in the word.

**Fields, ImageHeaders.** A bundle is a list of items (`VisitFields`), which
depends on the mode: the size is asked for ("max"), the bundle is written, or
read, when each item depends on the values already read. Integers keep their
distributions (`U32`, `U64`, `F16`, `Enum`); half floats are records of sign,
exponent and mantissa.

**Codestream.** Bundles are written one call of `Write` at a time inside nested
allotments; an appended section, arrival of a prefix of the bytes and reading
item by item follow. The same visitors drive both directions.

**CommandLine.** A process is killed at any step; a file is missing, torn or
whole. `list_variants` is the positions of the names present (`Present`), sorted
(`Sortings`). A score is the set of pairs of pixels it is the worst score of. The
reference's verdict on a pair is a definition of its own.

## 3. Runs

| Run | Question | Result |
|---|---|---|
| `pool_two` | Does the fixed pool implement the contract, with two workers and three calls in every interleaving? Handshake, re-entry, refinement, termination, and the inductive invariant, which implies that `func` is called exactly once per number. | holds |
| `pool_sequential` | Does a pool without workers implement the contract, where the caller runs the loop and tasks may call the runner again? | holds |
| `pool_spurious` | `thread_parallel_runner_internal.h:126`, "Safely handle spurious worker wakeups." | violated |
| `resizable_three` | Does the resizable pool implement the contract around resizes, with late workers and spurious wakeups? Does its inductive invariant hold? | holds |
| `context_client` | Any client of a context, with any driver call failing: buffers outlive commands, and the inductive invariant, of which `PoolsDrain` (a batch gives back its descriptor sets) is a part. | holds |
| `context_wait` | `context.rs:598`, "all in-use resources outlive the submit by construction", when the fence wait fails. | violated |
| `pipeline_golden` | Do the four ways to score compute the reference's dataflow at each scale, down to the weights and the scans of every blur? Does a pipeline never run out of descriptor sets by itself, and with the failures helpers clean up after, is nothing left behind, and does the inductive invariant `CleanInv` hold? | holds |
| `pipeline_failures` | Any call of any job fails: are the scores returned still the reference's, does every buffer hold what its name says, and is ownership kept through unwinding, fallback and further passes (`ResultInv`)? | holds |
| `pipeline_blurleak` | `gpu_pipeline.rs:228`, "On Err the producing helper already cleaned up its own partial state (they all do)". | violated |
| `image_files` | PNG files of up to eight chunks in every order, cut off anywhere: does the decoded animation show what the file shows, does each image show the rows that came for it and none that came later, and is colour as PNG's precedence says? Files of pixels, whole or damaged, and pictures of other decoders: do they read as drawn, stay so whatever is done to them, and read back when they were written? Do profile, fields, struct and text of an encoding say the same, and does a transform give what its target means? | holds |
| `codestream_headers` | Are headers read back as they were written, is a cut told from an error, and are sizes exact? | holds |
| `command_line` | A pair or a batch is scored while `normalize` rewrites its files and either process dies: is each score the reference's, does a batch print all or nothing, do outputs keep their pixels? | holds |

### Findings

1. `pool_spurious`. A worker that wakes up on its own between the unlock of
   `StartWorkers` and the notification, or after its report, runs the range
   again and reports twice; the barrier then opens while another worker is still
   at work and `Run` returns success early. With `kWorkerWait` as the command a
   spurious wakeup is harmless, so the comment holds between calls only.
2. `context_wait`. `vkWaitForFences` may fail for want of memory while the
   submission goes on; `finish_batch` then releases buffers it uses.
3. `pipeline_blurleak`. A failing dispatch in `blur_planes` leaks its output.

Seen and not counted as findings:

- An empty range passed to the resizable pool calls `init` with 0 threads
  (`resizable_parallel_runner.cc:57`), which `ThreadPool::Run` never does.
- `num_reserved_` of the fixed pool, and `next_task_` of the resizable one, grow
  past the end of the range by one reservation per worker. Were a range to end
  within a chunk per worker of 2^32 they would wrap; no image does. `NoWrap`
  is that condition, and the theorems have it as a hypothesis.
- `alloc_buffer` and the one-shot upload of `create_buffer_f32` leave objects
  behind on some paths (`LeakyFailures`), about which the comments are silent.
- `batch_cmd` and `batch_track_sets` take the batch's lock separately; the
  crate never shares a context between threads.
- `Encode` chooses bytes of 8 or 16 bits from its argument `bits_per_sample`
  (`codec.cc:73`), and the conversion fills in samples of the size in the picture's
  metadata (`packed_image_convert.cc:267`): when those need another width, or are float,
  the file does not hold the picture. `ContainerFits` in `PixelFiles` says when they agree.
- The PAM parser takes `TUPLTYPE` only as the last line of the header
  (`dec/pnm.cc:197`): a match skips the whitespace after the value, and the
  line's own end is then missing unless `ENDHDR` follows.
- A picture with alpha and another extra channel: `ConvertPackedFrameToImageBundle`
  overwrites alpha's plane (`packed_image_convert.cc:66`). No decoder of the
  tree produces one for the programs; the sources leave it out.
- A `TransformTo` that fails in the middle leaves some rows in the new colour
  space and the picture's encoding unchanged; every caller gives the picture up.
- `ParsePrimaries` reads six numbers and then fails (`color_description.cc:162`):
  a description with primaries of its own, which `Description` writes, is refused.
  `DescribedAsIs` says so, and excepts nothing else. `Description` also drops the
  seventh digit of an exponent (`%g`).
- With LCMS, `cmyk_` is set and never reset (`enc_color_management.cc:898`); no
  object of the programs gets a second profile after one of inks.
- Two curves that are both unknown count as the same (`color_encoding_internal.h:386`),
  and `JxlCmsInit` then skips LCMS (line 994); the programs' targets have known curves.
- A profile whose white point is not told by a tag and which LCMS cannot transform is
  taken to have that of equal energy (`enc_color_management.cc:641`, "TODO(lode): return
  error"). Its curve is not found either, so it stays a profile; `ProfileTellsFields`
  asks for the white point of the others (`TellsWhite`).
- A profile whose table contradicts its colorant tags gets the primaries of the tags
  (`enc_color_management.cc:654`), while pixels are transformed by the table. Only a known curve
  makes fields stand for a profile, and it is found by transforming; such a profile keeps none.
- The tokenizer of descriptions starts over at the end of its text
  (`color_description.cc:89`): a white point of one number, x, is read as (x, x), and
  `Gra_709_Abs_709` has the white point (709, 709). What comes of it is an encoding like any
  other, or is refused for its range, as the second is.
- An animation, or a single image, whose compressed stream ends early or is damaged decodes without
  an error. The missing rows are those of an earlier image, or zeros
  (`dec/apng.cc:356`, 502). No comment or test says otherwise, so this is
  no finding; `FramesShowLatestRows` states what is shown.
- `IsSRGB` looks at the primaries of gray encodings too (`color_encoding_internal.h:318`), where
  they are invalid; `SetSRGB` and the assignment of a curve leave
  `nonserialized_color_space` as it was, which "is updated at the same time" (line 349)
  only by `SetColorSpace`. Nothing of the programs reads it before it is set again.
- A conversion from a struct that fails half way leaves new fields beside an old
  profile; every caller gives the object up, and the properties are about objects
  whose last call succeeded.
- `normalize` tolerates `gAMA` and `cHRM` (`main.rs:146`), which `dec/apng.cc:641`
  turns into a colour encoding: the port's and the reference's view of such a
  file differ until it has been normalized.

### Bounds, and why they are enough

- `pool_two`: two workers are the least with a race between reservations. With
  two workers a chunk is an eighth of what is left, so only a range of 16 numbers
  or more has a chunk of two tasks; the longest has 17, hence `Word = 32`. Three calls let
  a range follow a range, a `RunOnEachThread`, and a rejected call. One
  re-entry per run reaches both results of `depth_` and the unusable pool.
- `pool_spurious`: `Word = 8`, one call; it only has to exhibit a behaviour.
- `resizable_three`: three threads give two workers, one of which `max_running_workers_`
  may keep out; three calls give resize, run, resize in any order.
- `context_client`: four buffers are what a client, an upload's staging and the
  two staging candidates of a readback need at once; a symmetry set, since no
  definition tells handles apart. `MaxSets = 3` lets a pool fill up in a batch.
  `MaxCmdbufs = 2` allows one leaked command buffer beside the batch's.
- `pipeline_golden`: images of 8x8 and 9x15 (one and two scales; odd sides),
  17x33, and 512x515, where `kNumScales` ends a pyramid that has room for a
  seventh scale. `MaxSets = 5` instead of 64 is the least with which no
  pipeline runs out of descriptor sets: a batch uses a shader at most five
  times, and `RoomForNextDispatch` is what makes the bound matter.
  `CleanFailures` are the failures after which every helper cleans up. Filters
  have radius 5, scans at most 70 pixels (each phase, and more than one turn of
  each loop), indices a word of 2^10.
- `pipeline_failures`, `pipeline_blurleak`: two scales, so that something is
  resident from the scale before and cached staging has been replaced.
  `pipeline_failures` runs jobs of one pass: two with every failure would be a
  hundred times the states. Failures "wait" and "batch_wait" are left out of
  it: after them the device may use what is released, which `context_wait` shows.
- `image_files`, PNG: a canvas of 2x2 has rectangles that contain each other, overlap,
  are equal, and are the canvas; three frames are the least in which what one
  frame disposes of, the next keeps and the third draws on differ. Eight chunks
  are three images; chunks that are neither animation nor all of an image's data
  count twice. With two of those two images are left, and the second may lack rows
  that the first had.
- `image_files`, other files: 42 sources, of every format `PixelFormats` reads with
  one and two bytes a sample, gray and colour, with and without alpha and
  comments; ten damaged ones, each in another way; and pictures in every orientation,
  premultiplied, of two frames, and of inks with and without black. Sides of 2 and 3 tell
  rows from columns, and exceed the constraints of 3 by 3 and 8 pixels. Two
  threads share what can be shared, and two operations are the least in
  which one undoes, repeats or precedes another.
- `image_files`, colours: seventeen profiles (matrix, table, gray; adapted and not;
  almost sRGB, a pure power, an unknown curve; tables that agree with their colorant tags or do not;
  no white point, no curves; one that does not decode, one of an
  unheard-of intent, Lab, inks), 32 structs that reach each early return, each name,
  each bound of `Customxy` and of exponents and primaries on a line, and fourteen
  hints, with too few tokens and numbers among them. Two calls are the least in which one leaves something to another. Targets
  are those that need each special case of `JxlCmsInit`; of the intensity targets one
  makes the OOTF the identity and one is PQ's own. LCMS is off by as much as the
  comment of `ApproxEq` says, either way.
- `codestream_headers`: the set of bundles visits every field and every
  distribution of bits but the widest. `NumWeights`, `NumMatrix` replace 15, 55,
  210 and 9 entries of tables whose entries are treated alike. `MaxBits = 600`
  is more than any bundle of the set; `MaxBytes = 1` is another writer's
  section, appended at either side of a byte's end. `MaxSpan = 0`, `MaxSkip = 400`: the
  reader's span is what was written, and skips may pass its end.
- `command_line`: one process that scores and one that normalizes, two names in
  three directories: the scorer's files, the normalizer's source, an output;
  each may be the other's. Pictures differ in each way one of the programs tells
  them apart.

### Fairness

Only the pools have liveness properties. `FairSpec` asks weak fairness of the
calling thread's next step within a call and of each worker's: the operating
system schedules every runnable thread, critical sections are short, and tasks
return. Nothing forces the caller to make a call (`MainChoice`, `CallerChoice`),
a wakeup to be spurious or a task to re-enter. A wait has no fairness of its
own; a notification has to move the thread. Everything else is sequential and
ends by the shape of its loops: TLC's deadlock check covers the pipelines.

## 4. Proofs

TLAPS checks the proof modules without gaps, under the assumptions the modules
name: on constants (`ConstantsAssumption`, `ResizableAssumption`,
`ContextAssumption`, `PipelineAssumption`, `SizeAssumption`, `RectsAssumption`,
`BoundsAssumption`, `SpanAssumption`, `NamesAssumption`, `ScenariosAssumption`,
`GivenAssumption`, `MaxCallsAssumption`: their types, in the main;
`DriftsAssumption`, see "Colours" below), and on what a
theorem has as a hypothesis. Each inductive invariant that is new to a run is
checked there by TLC; those of pictures, the bit streams, `CommandLine` and
`ColorManagement` are stated beside their proofs.

### The fixed pool (`ThreadParallelRunnerInvariant`, `ThreadParallelRunnerProofs`)

`PoolInvariant` is `IInv` for any number of workers, any ranges and any
interleaving. Its parts:

- `Handshake`, for `WorkersReady`: whenever `main` may start a call all workers
  are in the wait set and `workers_ready_` is 0. Nothing in the property says
  who counts in `workers_ready_` while a call is in progress. `Handshake` does:
  at the barrier it is the number of workers in the wait set; while main is
  anywhere else they are all there and the command is `kWorkerWait`.
- `Once`, for `CalledOnce`, under `NoWrap`: no range ends within one largest
  chunk per worker, and one more, of the end of the word. It says what the
  code's comments leave to the reader. `Reservations`: the count is ahead of
  the range by at most a chunk per worker that has found nothing left, so that
  no reservation wraps; and once one worker has found nothing left the whole
  range is reserved, so that the barrier may open. `Chunks`: what workers hold
  is disjoint and reserved, and what is reserved and not held was run, once. A
  chunk's size comes from a stale count; `SizeInBounds` is all the proof needs
  of it, so overshooting and shrinking chunks are covered.
- `Reentry`, for `ReentriesReported`: until its barrier has closed a Run whose
  task re-entered has `depth_` at least 2. It needs a worker; without one a re-entry is
  not refused, and `ImplementsContract` says that the outer loop goes on where it was.
- `EachOnce`, for `ImplementsContract`: in `RunOnEachThread` a worker number was
  passed to `func` exactly if its worker is back. With it each step maps to
  `Accept`, `CallFunc`, `Return` or a stutter of `ParallelRunner`.

All are about `Spec`, in which a worker leaves its wait set only when it is
notified; finding 1 says what spurious wakeups change.

### The resizable pool (`ResizableParallelRunnerInvariant`, `ResizableParallelRunnerProofs`)

Its `IInv` is proved for any `MaxThreads` and any sequence of resizes and
ranges, with spurious wakeups.

- `Membership`, for `PoolQuietBetweenCalls`: `num_running_workers_` counts the
  threads between their first and last lock of a call, work is available only
  while the caller is inside of `DequeueTasks`, and no thread runs outside of a
  parallel `Run`. That last part is what the caller's wait for the count to
  drop to zero buys, and it needs the other two to be inductive.
- `CallSetUp`: what `Run` wrote for the workers does not change before the last
  of them has left; a running worker is one of the first `max_running_workers_`.
  Hence `ThreadIdsInBounds`.
- `Once`, under `NoWrap` (no range begins or ends within `MaxThreads` of 2^32):
  every thread that is still to find the range exhausted may move `next_task_`
  past the end once (`MayOvershoot`), so that it does not wrap; tasks taken and not
  held were run, once. Hence `PoolImplementsContract`. An empty range may have
  its begin beyond its end, so both are bounded.

### Context and pipelines (`GpuPipelineInvariant`, `GpuPipelineProofs`)

- `ContextInvariant`: for any client that keeps to buffers it owns, any buffers,
  shaders and failures. `Ownership` says that recorded commands refer to buffers
  that the client or the trash owns, owners are disjoint and hold live buffers,
  and a closed batch holds nothing. `BuffersOutliveTheirCommands` and, as long as
  none of `LeakyFailures` happens, `EveryBufferHasAnOwner` follow.
- `PipelineInvariant`: `PipelineInv`, for any jobs, dimensions and failures, the waits'
  included. The pipelines are such a client
  (`PipelinesOwnTheirBuffers`): the proof shows of each step of a body, of the
  guards and of the callers that it is a call of the context with buffers it
  owns. `BatchInBody` says where a batch may be open, `BatchOfBody` that the
  batch holds a set of a pool for each operation before the one at hand.
- `AlwaysRoomInPools`, for `MaxSets >= 5` (the code has 64): `RoomForNextDispatch`
  follows from `BatchOfBody`, since a body has at most five operations of a
  kind.
- `EveryBufferAccounted`, `ReturnsClean`, for `MaxSets >= 5` and failures that are
  not among `CarelessFailures`, those a helper leaks after (finding 3 and the
  paths listed below it). `NothingLeftBehind` is about the end of a function
  only; `Accounted` says of every state between that each buffer of the client
  is one a guard, the caller or the operation at hand will destroy.

### What the pipelines compute (`GpuPipelineProofs`, `MetricProofs`)

- `AlwaysLikeReference`: `SameAsReference`, for any jobs and dimensions, and whatever
  fails. The property is about scores, when nothing is left of how they came
  about; `ResultInv`, proved as `ResultInvariant`, is about every state between:
  - `HoldsItsValue`: a buffer that holds anything holds the stage of the reference
    its name stands for (side, variable, scale), of the images its function was
    given. `LoadedHold`, `ImagesInHand`, `BlurReads`: what an operation is about
    to read does hold something, also after a pass that failed and left buffers
    behind.
  - `DimensionsOK`: `cw` and `ch` are those of the scale, or of the one before as long
    as the halving is still to come; the three bodies halve at different places,
    and `compare` takes them from a pyramid.
  - `ScalesOK`, `PyramidsOK`: the scales finished are a prefix of those the reference
    reaches, and all of them when a function succeeds. The single shot and
    `prep_gpu` test the dimensions before they halve them, `compare_gpu` stops
    with the pyramid it was given, and the reference tests images of the scale
    before: the lemmas `ReachedIs` and `ReachedNext` say that this is one test.
  - `MapsComputed`, `FailsOK`: what is read back was computed, and an error is on
    its way out. `BlursPixels`: what was blurred had pixels.
- Induction over scales and pixels: the library's theorems about it take an operator
  as a parameter. `LeastNumber`, from the well-foundedness of strict inclusion on
  finite sets, takes a set, and `StepByStep` follows from it.
- `CpuIsReference`: a pass that failed is done over by a loop that carries a flag
  and a list along; its state after scale k is that of the reference.
- `WeightsAreScores`: three nested loops with a running index against index
  arithmetic. The sequences a function builds up by `\o` are taken apart with
  `Blocks`.

### The blur and its dispatch (`MetricProofs`, `GpuPipelineProofs`)

- `RowsRespond`, `ColumnsRespond`, `PortColumnsRespond`, `SameRows`: for any radius,
  length and integer coefficients, a step of a scan keeps it at the filter's response
  (`RowInv`, `ColumnInv`, `PortColumnInv`), whatever memory surrounds the line.
- `ScansAgree`: hence whole scans agree. `ResponseExists` gives the response, and
  `ScansToTheEnd` the states of a scan; both by iterating a function on a set of
  states (`Iterated`), which `ScannedFollows` shows to be what the recursive function in
  `Scanned` denotes.
- `OneInvocation`, `EveryLineOnce`: for any number of groups and any limit of a
  device, every element is found by exactly one invocation as long as the flat
  indices fit into the word.
- `BlursAlwaysAgree`: `BlursLikeReference`. `BlursPixels`, a part of `ResultInv`, says that
  there is a line to scan, on the way to an error as well.

### Images (`ImageProofs`)

- `AnimationRendered`: for any canvas and any frames, the canvas after each
  frame is the one the APNG specification gives. `ReferenceInv` relates the
  three canvases between two iterations: the viewer's next canvas, the
  reference canvas and what the frame before left to be disposed of.
- `FramesShowLatest`, `ColourAsChunksSay`, for any order and number of chunks. `ApngInv`
  adds to the types what the loop relies on and never states: which image was the last
  to write each pixel of the shared row buffer, the one at hand included
  (`ImageInHand`), that the frames handed out hold what was there at their end and have their own size
  (`FramesHandedOut`), that reading ended at the end of the file (`FileRead`), and which
  colour chunks have been seen (`ColourSoFar`, `ProfileRead`).
- `FileRenderedLikeApng`: the frames of the first loop are among those the second
  loop is right for, so the decoder as a whole renders like a viewer.
- `PictureStaysAsDrawn`: `PictureAsDrawn` for pictures of any size, any operations and
  any number of threads. `LevelsOf`, `UintLoaded`, `FloatLoaded` and `PlaneLoaded` find
  every sample in the bytes of a packed frame, for each type, byte order and stride;
  `LoadedShows` makes frames of them. While rows are converted a frame is in
  two spaces at once: `TransformInv` says that rows done are in the new one and the
  others in the old one (`HalfDone`), and that what a thread holds between reading
  and writing a row is that row as it was, in a buffer no other thread has.
  `SourcesAssumption` says what the bytes of a packed picture are. `FilesDecode`, that
  parsers find them in a file, is a hypothesis: parsers are recursive functions of
  files, so it stays with TLC, which checks it for every file of
  `image_files` (`FilesDecodeAsDrawn`).
- `FramesPackedUpright`: `FrameUpright` for pictures of any size and orientation and any
  number of frames and threads. `PackInv` adds to the invariant above what
  a frame has while it is packed: a thread that is between converting and storing
  has its row, channel by channel, in places of the cache that are no other thread's
  (`Cached`, `CachesApart`), and rows that are stored have their bytes where they belong, one
  after the other, whatever the other rows hold (`Storing`, `RowReplaced`); frames packed
  before stay (`PackedSoFar`). `UprightWanted` relates where `UndoOrientation` takes
  each place from to where EXIF says it is to be seen, `NearestIsNearest` shows that
  clamping and adding a half round to the nearest, and `SampleLoaded` that the bytes
  of a row load as the samples it was made of. It says nothing of a
  container that does not fit the bits (`ContainerFits`, see the finding).

### Bit streams (`BitStreamProofs`)

- `WritesLandOnZeros`, `BilledOnce`: for any sizes, nesting and capacities, every
  `Write` finds zeros from the pen on, inside the allocation; and with no
  allotment open every bit written has been charged to a layer once.
  `WriterInv` says how allotments lie inside each other (`Nested`), that what any
  of them may still reach is within what they were opened for (`Granted`) and
  allocated (`Allocated`), and that the outermost one starts where charging has
  got to (`ChargedBelow`).
- `EveryBitCounted`: for any span and any sequence of reads, skips and jumps, the
  reader's position is its user's, or both are beyond the end, and no byte
  beyond the end is loaded.

### Command lines (`CommandLineProofs`)

`CommandInv` is proved for any processes, names, directories, pictures and
arguments. It says what each process holds: pictures belong to the paths
taken (`InHand`), those of a scorer were all accepted (`Accepted`), what is taken and
what is left are the queue it began with, and what it printed so far is about
which of them.

- `PrintedLikeReference`: each printed score is the reference's, of two whole
  pictures it does not reject, whatever is rewritten or killed meanwhile. The
  port decides from the original's alpha alone how many backgrounds to use, as
  the reference does; `Accepted` makes colour and size agree.
- `BatchIsAllOrNothing`: `ManyInv` says that lines only exist once nothing is left
  to take, and `VariantsOnce` that a name tells which picture a line is about.
- `OutputsAsReported`, under `Apart`: no `normalize` writes to a directory that
  another one reads from or writes to. Nothing is locked, so without it an output
  can be replaced after it was reported. `FilesInv` is what its own
  collision check is worth: an input it has yet to read is none of its outputs,
  even where its output directory holds its inputs.

### Colours (`ColorProofs`)

- `ProfilesTellFields`, `EncodingsDescribed`: `ProfileTellsFields` and `DescribedAsIs`, for
  any profiles, structs, hints and calls. `ColorInv` says of the encoding after each
  call that its fields are within their ranges and a custom value is none of
  those with a name (`EncodingOK`: the setters snap, and nothing else sets them),
  that its profile says what they say (`Keeps`), and that it is equivalent to the one
  that would be made of these fields, if one can be made (`AsMade`).
- Profiles are made byte by byte: `WellLaid` says that the table of the tags so far
  points at whole pieces inside the data; each `OneMore` keeps what was laid before, and
  a shared curve is one piece with three entries. So a reader finds under each
  name what was put there (`MadeTells`, `IsRead`).
- Reading a profile: what LCMS reports is off by a drift of at most 7E-5, and names
  are recognised within 8E-5, so a value is recognised as the one it is near to or
  kept as it was reported (`WhiteFound`, `PrimariesFound`); names are far enough apart. Curves
  are recognised by making a profile for each name and comparing (`CurveDetected`). A known
  curve therefore means that profile and fields do the same to pixels (`SaysAll`), whichever
  tags white point and primaries were read from; otherwise the profile is kept.
- Descriptions: `TextDescribes` runs the parser over the text token by token (`ReadsOn`); what it
  gives describes the fields (`Describes`), up to the six digits of an exponent,
  unless there are primaries without a name; and fields taken from such a struct mean
  the same (`DescribedSame`).
- Nothing is assumed of profiles but the types of what their tags hold: a table may
  contradict the tags of the colorants, and white point, colorants and curves may be missing.
  `DriftsAssumption` is the comment of `ApproxEq`, "differences of 7.1E-5": 7 in our units.

### Only model-checked

- `CallsReturn`, of both pools: liveness under fairness, out of the prover's reach.
- `Fields`, `ImageHeaders`, `Codestream` (`ReadsBack`, `ToldWhenCut`, `ExactlyEncoded`,
  and `WriterSpec`, that the headers' writer is a client `BitWriter` allows): `Fields`
  has recursive operators.
- `PixelFiles` (`ReadsWhatIsWhole`, `WrittenReadsBack`): what parsers, recursive
  functions of a file, make of all files needs induction over data.
- `ColorManagement` (`TransformKeepsColour`): it is about the targets and profiles of
  the run, profiles with a table and colorant tags among them, not about all. Two curves without a name count as the same curve
  to `SameColorEncoding`, a PQ or HLG profile whose linear twin cannot be made is
  transformed by its clipped table, and tolerances add up over two readings. The run's
  targets have named curves, which excludes all three.

Symmetry and all bounds of section 3 are TLC's alone.

## 5. Plan

Order: first the parts where a wrong step loses work or frees memory in use
(pools, context), then what is built on them (pipelines), then the pure
functions, the file formats and the command lines.

Done: everything in the table of section 2.

Left:
1. A proof of what `JxlCmsInit` decides (`TransformKeepsColour`), for encodings with
   named curves.
2. A theorem that the writer's steps of `Codestream` are steps of `BitWriter`, for
   which its recursive operators would have to become functions.
3. The frame header (`frame_header.h`); its reader and writer are not part of
   this tree.

## 6. Not modelled, and why

- Pixel arithmetic, in C++, Rust and GLSL: floating point. The dataflow, the
  scans of the blur and the assignment of weights are modelled instead.
- Device selection, extension probing and the creation lock of
  `VkContext::new`: start-up code with no state a property is about.
- Two threads on one context: the crate never shares one.
- A batch that is begun while another is open: `begin_batch` would leak it, but
  no caller does that.
- The pipeline cache file: written in place without a lock, but the driver
  validates what it is given and the code promises nothing of its content.
- The other decoders and encoders (`gif`, `jpg`, `exr`, `npy`, and PNG's
  encoder): they wrap external libraries. LCMS itself, the build with skcms,
  profiles kept raw (`SetICCRaw`) and the checksum of a profile.
- Values `CanEncode` rejects: the writer aborts on them by contract.
- An allocation of `PaddedBytes` that fails.
- Placement construction with a memory manager, `SuggestThreads`, profiling,
  oracle dumps, fixture scripts.
- The headers of libjxl's public API (`lib/include/jxl/`), which are a large
  share of the tree's lines: declarations and comments, without code.

## 7. Running

    tlc -config ThreadPool_two.cfg MCThreadParallelRunner.tla
    tlapm ThreadParallelRunnerProofs.tla

and likewise for the runs listed in `PROJECT.json`.
