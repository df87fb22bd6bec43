-------------------------- MODULE SessionInvariant --------------------------
(***************************************************************************)
(* The inductive invariant behind ExitComplete, FedInOrder, IdleInSync,     *)
(* ChildReaped and KeepsPromise: where every chunk is on its way to the     *)
(* emulator, and every frame on its way to the host.                        *)
(***************************************************************************)
EXTENDS Session

HoldsOutput == fwHand # <<>> /\ fwHand[1].k = "output"

\* The chunks the forwarder has taken, and those it has passed on.
TakenOut  == written - (Len(kout) + Len(rdHand) + Len(ptyQ))
PassedOut == IF HoldsOutput THEN TakenOut - 1 ELSE TakenOut

\* Before the forwarder: consecutive numbers, the latest in the kernel.
Upstream ==
    /\ \A i \in 1 .. Len(kout) : kout[i] = written - Len(kout) + i
    /\ \A i \in 1 .. Len(rdHand) : rdHand[i] = written - (Len(kout) + Len(rdHand)) + i
    /\ \A i \in 1 .. Len(ptyQ) : ptyQ[i] = TakenOut + i

\* After it: chan holds exactly the chunks fed + 1 .. PassedOut, in order.
InFlight ==
    /\ HoldsOutput => fwHand[1].n = TakenOut
    /\ fed <= PassedOut
    /\ \A i \in 1 .. Len(chan) : chan[i].k = "output" => fed < chan[i].n /\ chan[i].n <= PassedOut
    /\ \A i, j \in 1 .. Len(chan) :
          i < j /\ chan[i].k = "output" /\ chan[j].k = "output" => chan[i].n < chan[j].n
    /\ \A m \in fed + 1 .. PassedOut :
          \E i \in 1 .. Len(chan) : chan[i].k = "output" /\ chan[i].n = m

\* The end of the output overtakes no output.
EndOvertakesNothing ==
    /\ rdDone => closed /\ kout = <<>> /\ rdHand = <<>>
    /\ fwDone => rdDone /\ ptyQ = <<>> /\ ~HoldsOutput
    /\ fwHand # <<>> /\ ~HoldsOutput => fwDone
    /\ \A i \in 1 .. Len(chan) : chan[i].k = "output_end" =>
          fwDone /\ fwHand = <<>> /\ \A j \in 1 .. Len(chan) : i < j => chan[j].k # "output"
    /\ stop # "none" => pc \in {"answer", "frame", "kill", "wait", "exit", "done"}
    /\ stop = "output_end" => fwDone /\ fed = written

\* A frame is due whenever the emulator is ahead of the host.
FramesKept ==
    /\ shown <= fed
    /\ ~dirty => shown = fed
    /\ pc \in {"kill", "wait", "exit", "done"} /\ outcome = "ok" => ~dirty
    /\ pc \in {"spawn", "greet", "recv"} => ~dirty
    /\ pc \in {"spawn", "greet"} => ~greeted
    /\ ptySize = emuSize
    /\ ~dirty /\ greeted => hostSize = emuSize
    /\ pc \in {"recv", "drain", "input", "reply", "answer", "frame"} => greeted

\* The child's life follows the engine's.
Lifetime ==
    /\ pc = "spawn" => child = "unborn"
    /\ pc \notin {"spawn", "exit", "done"} => child \in {"running", "zombie"}
    /\ pc = "wait" => child = "zombie"
    /\ pc = "exit" => child = "reaped"
    /\ pc = "done" => child \in {"unborn", "orphan", "reaped"}
    /\ report \notin {"none", "spawn_error"} => pc = "done" /\ child = "reaped"

\* The pipe to the host holds pictures that only ever grow, the last of them the
\* last frame.
Delivery ==
    /\ Delivered = Told
    /\ view.shown <= shown
    /\ \A i \in 1 .. Len(stdout) : view.shown <= stdout[i].shown /\ stdout[i].shown <= shown
    /\ \A i, j \in 1 .. Len(stdout) : i < j => stdout[i].shown <= stdout[j].shown

\* All of it: no interleaving of the four threads and the child loses,
\* duplicates or reorders a chunk on its way to the emulator.
PipelineInv ==
    Upstream /\ InFlight /\ EndOvertakesNothing /\ FramesKept /\ Lifetime /\ Delivery

=============================================================================
