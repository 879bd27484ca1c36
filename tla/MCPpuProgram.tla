---------------------------- MODULE MCPpuProgram -----------------------------
(***************************************************************************)
(* A program that draws, with the calls of MCPpuLibrary, or that loads     *)
(* what it will draw from a file.  The loaders use neither the PPU nor     *)
(* what the other calls use; so the programs that draw have no more than   *)
(* an empty file to load, and one that only loads has all the files: whole *)
(* ones, short ones, empty ones, ones with an unreadable or a cut-off      *)
(* token.                                                                  *)
(***************************************************************************)
EXTENDS MCPpuLibrary, PpuLoaders

\* The third is no tile: its mirror bits are out of range.
TileTokens ==
  {Whole(ATile(1023, 15, 3)), Whole(ATile(1, 2, 0)), Whole(ATile(1, 2, 4)), CutOff(ATile(7, 0, 0)), Unreadable}

UpToThree(S) == UNION {[1 .. n -> S] : n \in 0 .. 3}

TileJobs == {[fn |-> "tilemap", file |-> f, len |-> n] : f \in UpToThree(TileTokens), n \in 1 .. 4}

\* A picture of w * h tiles; a pixel is its coordinates.
Picture(w, h) ==
  [i \in 1 .. 8 * w * h |->
     Whole([x \in 1 .. 8 |-> <<8 * ((i - 1) % w) + x - 1, (i - 1) \div w>>])]

PatternJob(w, h, file) == [fn |-> "pattern", width |-> w, height |-> h, file |-> file]

SquareJobs ==
  {PatternJob(n, n, Picture(n, n)) : n \in 1 .. 3}
    \cup {PatternJob(1, 1, SubSeq(Picture(1, 1), 1, 7)),
          PatternJob(1, 1, [Picture(1, 1) EXCEPT ![3] = Unreadable])}

OblongJobs == {PatternJob(1, 2, Picture(1, 2)), PatternJob(3, 1, Picture(3, 1))}

Colors(n) == [i \in 1 .. n |-> Whole(65536 * i)]
PaletteJob(file) == [fn |-> "palette", file |-> file]

PaletteJobs ==
  {PaletteJob(Colors(n)) : n \in {0, 1, 2, 16, 17}}
    \cup {PaletteJob([Colors(16) EXCEPT ![i] = Unreadable]) : i \in {1, 16}}

AllJobs == TileJobs \cup SquareJobs \cup OblongJobs \cup PaletteJobs

TilesAtFirst == {ATile(0, 0, 0), ATile(4096, 0, 0)}
ColorsAtFirst == {0, 123}

----------------------------------------------------------------------------
OnlyLoads == [calls |-> <<>>, polls |-> FALSE]
NoFile == PatternJob(1, 1, <<>>)

AllPrograms == FourPrograms \cup {OnlyLoads}
EveryJob == AllJobs \cup {NoFile}

ProgramInit == Init /\ LoaderInit /\ (program = OnlyLoads \/ job = NoFile)

ProgramNext ==
  \/ Next /\ UNCHANGED loaderVars
  \/ LoaderNext /\ UNCHANGED vars

ProgramSpec ==
  /\ ProgramInit /\ [][ProgramNext]_<<vars, loaderVars>>
  /\ Fairness
=============================================================================
