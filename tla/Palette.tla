------------------------------- MODULE Palette -------------------------------
(***************************************************************************)
(* palette.rs: a colour becomes a packed 0xRRGGBB, or <<>> for the          *)
(* terminal's default, which is the host's to choose.                       *)
(***************************************************************************)
EXTENDS Naturals, Sequences

Default       == [k |-> "default", v |-> <<>>]
Palette(i)    == [k |-> "indexed", v |-> <<i>>]
Direct(r, g, b) == [k |-> "rgb", v |-> <<r, g, b>>]

ANSI16 ==
    <<\h000000, \h800000, \h008000, \h808000, \h000080, \h800080, \h008080, \hc0c0c0,
      \h808080, \hff0000, \h00ff00, \hffff00, \h0000ff, \hff00ff, \h00ffff, \hffffff>>

Pack(r, g, b) == r * 65536 + g * 256 + b

\* Mutant: the cube's steps are even.
Level_even(v) == 51 * v

\* One channel of the 6x6x6 cube.
Level(v) == IF v = 0 THEN 0 ELSE 55 + 40 * v

Cube(n) == Pack(Level(n \div 36), Level((n \div 6) % 6), Level(n % 6))
Gray(n) == LET level == 8 + 10 * n IN Pack(level, level, level)

Indexed(i) ==
    CASE i < 16               -> ANSI16[i + 1]
      [] i \in 16 .. 231      -> Cube(i - 16)
      [] OTHER                -> Gray(i - 232)

\* resolve
Resolve(color) ==
    CASE color.k = "default" -> <<>>
      [] color.k = "indexed" -> <<Indexed(color.v[1])>>
      [] color.k = "rgb"     -> <<Pack(color.v[1], color.v[2], color.v[3])>>

=============================================================================
