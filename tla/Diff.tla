-------------------------------- MODULE Diff --------------------------------
(***************************************************************************)
(* The diff of render.rs: a screen is compared with the one the host holds, *)
(* a shift of the whole screen becomes one grid_scroll, and only the rows   *)
(* that differ from what the host holds after it are sent.  A screen is a   *)
(* sequence of rows; nothing here looks into a row.                         *)
(***************************************************************************)
EXTENDS Naturals, Sequences, FiniteSets

\* The rows of cur that prev, shifted up by k, already shows.
Spared(prev, cur, k) == {r \in 1 .. Len(cur) : r + k <= Len(cur) /\ cur[r] = prev[r + k]}

Matches(prev, cur, k) == Cardinality(Spared(prev, cur, k))

\* Mutant: a shift is committed though staying put explains as many rows.
PaysOff_even(prev, cur, k) == 2 * Matches(prev, cur, k) >= Len(cur)

\* A shift is worth a grid_scroll: it explains more rows than staying put does,
\* and at least half of them.
PaysOff(prev, cur, k) ==
    /\ Matches(prev, cur, k) > Matches(prev, cur, 0)
    /\ 2 * Matches(prev, cur, k) >= Len(cur)

\* The first of the shifts that explain the most rows.
IsBest(prev, cur, k) ==
    \A j \in 1 .. Len(cur) - 1 :
        /\ Matches(prev, cur, j) <= Matches(prev, cur, k)
        /\ j < k => Matches(prev, cur, j) < Matches(prev, cur, k)

\* detect_scroll_up; 0 is None.
DetectScrollUp(prev, cur) ==
    LET shifts == {k \in 1 .. Len(cur) - 1 : IsBest(prev, cur, k) /\ PaysOff(prev, cur, k)}
    IN IF Len(cur) < 2 \/ Len(prev) # Len(cur) \/ cur = prev \/ shifts = {}
         THEN 0
         ELSE CHOOSE k \in shifts : TRUE

\* Mutant: the diff forgets that the host has scrolled.
Baseline_unshifted(prev, r, k) == prev[r]

\* baseline_row: what the host holds at row r after grid_scroll by k.  The
\* vacated rows at the bottom keep what they held.
Baseline(prev, r, k) == IF r + k <= Len(prev) THEN prev[r + k] ELSE prev[r]

\* The rows to send once the host has scrolled by k.
Changed(prev, cur, k) == {r \in 1 .. Len(cur) : Baseline(prev, r, k) # cur[r]}

-----------------------------------------------------------------------------
(* The host's side, as the tests of render.rs define it.                    *)

\* grid_scroll over the whole screen: rows move up, the bottom k stay stale.
ScrollUp(grid, k) ==
    [r \in 1 .. Len(grid) |-> IF r + k <= Len(grid) THEN grid[r + k] ELSE grid[r]]

\* grid_scroll on a host that blanks the rows it vacates.
ScrollUpBlank(grid, k, blank) ==
    [r \in 1 .. Len(grid) |-> IF r + k <= Len(grid) THEN grid[r + k] ELSE blank]

Redraw(grid, cur, rows) == [r \in 1 .. Len(grid) |-> IF r \in rows THEN cur[r] ELSE grid[r]]

=============================================================================
