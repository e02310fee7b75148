----------------------------- MODULE MCEmulator -----------------------------
(* Instances of Emulator: bytes of one bit, 80 bytes of memory.            *)
EXTENDS Emulator

Table == 48 .. 55

Elf(class64, entry, segments, sections) ==
  [size |-> 3, class64 |-> class64, entry |-> entry, segments |-> segments,
   sections |-> sections]
Segment(load, vaddr, data) == [load |-> load, vaddr |-> vaddr, data |-> data]
Section(name, address, size) == [name |-> name, address |-> address, size |-> size]
\* A file of zeros.
NotElf(size) == [Elf(FALSE, 0, << >>, << >>) EXCEPT !.size = size]

\* Overlapping segments, one in the way of the page tables and the devices, .bss
\* over data, a segment and .bss up to and beyond the end of memory, and mtimecmp in
\* the image.
HostFiles ==
  [p32 |-> Elf(FALSE, 2, <<Segment(TRUE, 0, <<1, 0, 1, 1, 1, 1, 1, 1>>),
                           Segment(FALSE, 8, <<1>>),
                           Segment(TRUE, 3, <<0, 1, 1>>)>>,
                <<Section(".data", 0, 5), Section(".bss", 5, 3),
                  Section(".bss", 0, 2)>>),
   p64 |-> Elf(TRUE, 83, <<Segment(TRUE, 46, <<1, 1, 0, 0>>),
                           Segment(TRUE, 54, <<0, 0, 1, 1, 1>>),
                           Segment(TRUE, 65, <<1>>),
                           Segment(TRUE, 79, <<1, 1>>)>>, << >>),
   wrap |-> Elf(FALSE, 0, <<Segment(TRUE, 78, <<1, 1, 1>>)>>,
                <<Section(".bss", 76, 8)>>),
   timed |-> Elf(FALSE, 0, <<Segment(TRUE, 16, <<1, 1, 1, 1, 1, 1, 1, 1>>)>>,
                 << >>),
   endless |-> Elf(TRUE, 0, << >>, <<Section(".bss", 76, 4)>>),
   img |-> NotElf(2), empty |-> NotElf(0), huge |-> NotElf(9)]

Job(argv, pieces, limit, idle) ==
  [argv |-> argv, pieces |-> pieces, limit |-> limit, idle |-> idle]
Piece(code) == [code |-> code, deadline |-> NoDeadline]
Store(address, width, data) ==
  [op |-> "store", address |-> address, width |-> width, data |-> data]
Amo(address, width, data) ==
  [op |-> "amo", address |-> address, width |-> width, data |-> data]
Load(address, width) == [op |-> "load", address |-> address, width |-> width]
Call(a7, a0, a1, a2) == [op |-> "ecall", a7 |-> a7, a0 |-> a0, a1 |-> a1, a2 |-> a2]
Error == [op |-> "error"]

\* Command lines of up to three tokens, and the switches that they leave out.
Lines ==
  UNION {[1 .. n -> {"-64", "-s", "-x", "-d", "p32", "img"}] : n \in 0 .. 3}
    \cup {<<"-v", "p64", "-p">>, <<"-h", "-e", "p32", "-m">>, <<"p64", "-d", "-64">>,
          <<"wrap">>, <<"endless">>, <<"empty">>, <<"huge">>, <<"none">>, <<"">>,
          <<"p32", "-d", "-s", "empty">>, <<"", "p32">>, <<"p32", "">>, <<"", "">>,
          <<"-s", "-s", "-s", "img", "p64">>, <<"-s", "img", "-s", "-64">>}

\* Stores that the timer notices and others that it does not, and loads.
TimerPieces ==
  {Piece(<<i>>) : i \in
     {Store(16, 8, 3), Store(17, 1, 1), Store(16, 4, 4), Store(96, 8, 2),
      Amo(16, 8, 4), Load(24, 8), Load(24, 4), Load(16, 8),
      Load(31, 1), Load(27, 2), Call(63, 0, 17, 1)}}

Host32Pieces ==
  {Piece(<<i>>) : i \in
     {Store(32 + MemorySize, 4, 3), Store(32, 4, 2), Store(40 + MemorySize, 4, 5),
      Store(33, 1, 1), Store(32, 1, 1), Store(36, 4, 1), Amo(32, 4, 7),
      Amo(40, 4, 3), Error, Call(93, 0, 0, 0)}}
Host64Pieces ==
  {Piece(<<i>>) : i \in
     {Store(32, 8, 3), Store(32, 8, 2), Store(32, 8, 64 + 3), Store(32, 8, 128 + 2),
      Store(32, 8, 192 + 1), Store(32, 4, 5), Store(36, 4, 4), Store(40, 8, 11),
      Store(40, 4, 4), Store(32 + MemorySize, 8, 3), Amo(32, 8, 3)}}

\* Descriptors: files opened both ways, and closes of files, streams and others.
HandlePieces ==
  {Piece(<<i>>) : i \in
     {Call(1024, 0, 2, 0), Call(1024, 0, 1, 0), Call(1024, 1, 2, 0),
      Call(57, 0, 0, 0), Call(57, 3, 0, 0), Call(57, 4, 0, 0),
      Call(64, 3, 0, 1), Call(93, 1, 0, 0)}}
DataPieces ==
  {Piece(<<i>>) : i \in
     {Call(1024, 0, 2, 0), Call(63, 3, 14, 2), Call(63, 0, 2, 1), Call(80, 3, 15, 0),
      Call(80, 1, 3, 0), Call(64, 1, 0, 2), Call(64, 4, 0, 1), Call(214, 0, 0, 0),
      Call(214, 9, 0, 0), Call(214, 12, 0, 0), Call(62, 3, 9, 0), Call(62, 4, 1, 2),
      Call(1, 0, 0, 0), Store(13, 2, 3), Store(79, 2, 2)}}

AllJobs ==
  {Job(argv, {}, 0, FALSE) : argv \in Lines}
    \cup {Job(<<"timed">>, {LowerFirst(20), UpperFirst(37), LowerFirst(35)}, 2, TRUE),
          Job(<<"-64", "-e", "p64">>, TimerPieces, 4, FALSE),
          Job(<<"-h", "p32">>, Host32Pieces, 3, FALSE),
          Job(<<"p64", "-64", "-h">>, Host64Pieces, 3, FALSE),
          Job(<<"-e", "p32">>, HandlePieces, 5, FALSE),
          Job(<<"-e", "p32">>, DataPieces, 3, FALSE)}
=============================================================================
