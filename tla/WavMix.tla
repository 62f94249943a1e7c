------------------------------- MODULE WavMix -------------------------------
(***************************************************************************)
(* How the recorder makes audio.wav of a call's two tracks (finalizeWAV in *)
(* src/bridge/recorder.go): block by block, the caller's samples on the    *)
(* left and the agent's on the right.  The length of the file is the       *)
(* caller's.  Both tracks are whole samples, as the code assumes, and the  *)
(* files hold what was counted (module ServeCall has the cases they do     *)
(* not).                                                                   *)
(***************************************************************************)
EXTENDS Naturals, Sequences

CONSTANT Block      \* samples in cbuf and abuf (32768 in the code)

ASSUME BlockAssumption == Block \in Nat \ {0}

Silence == 0

\* Mutant: each block starts at the first sample of the file again.
ReadFullRewinding(track, k, buf) ==
    [i \in 1..Block |-> IF i <= Len(track) THEN track[i] ELSE buf[i]]

\* io.ReadFull of the k-th block into a buffer: a short read leaves the rest of it.
ReadFull(track, k, buf) ==
    [i \in 1..Block |-> LET at == (k - 1) * Block + i
                        IN  IF at <= Len(track) THEN track[at] ELSE buf[i]]

\* What cbuf or abuf holds after each block; both are made once, before the loop.
BufferAfter(track, blocks) ==
    LET buf[k \in 0..blocks] == IF k = 0 THEN [i \in 1..Block |-> Silence]
                                ELSE ReadFull(track, k, buf[k - 1])
    IN  buf

\* The samples of the file: <<left, right>>.
FinalizeWAV(caller, agent) ==
    LET blocks == (Len(caller) + Block - 1) \div Block
        cbuf == BufferAfter(caller, blocks)
        abuf == BufferAfter(agent, blocks)
        sample(i) == LET k == (i - 1) \div Block + 1
                         j == ((i - 1) % Block) + 1
                     IN  <<cbuf[k][j], abuf[k][j]>>
    IN  [i \in 1..Len(caller) |-> sample(i)]
=============================================================================
