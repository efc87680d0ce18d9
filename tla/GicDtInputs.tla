---------------------------- MODULE GicDtInputs -----------------------------
(***************************************************************************)
(* Device trees for GicInfoDt.  "reg" pairs are drawn in order from four  *)
(* regions whose bases (1-4) and lengths (8, 9) are distinct words, so a  *)
(* misaligned or junk read shows as a region the node does not hold.      *)
(***************************************************************************)
EXTENDS Integers, Sequences

R(b, l) == [base |-> b, length |-> l]

Pairs == <<R(1, 8), R(2, 8), R(3, 9), R(4, 9)>>

F(has, b, l, sb, ns) == [hasReg |-> has, pair |-> R(b, l), spiBase |-> sb,
                         numSpis |-> ns]

\* A frame with both SPI properties, one with neither, one without "reg".
F1 == F(TRUE, 5, 8, 12, 4)
F2 == F(TRUE, 6, 9, -1, -1)
F3 == F(FALSE, 7, 8, -1, -1)

FrameSeqs == {<<>>, <<F1>>, <<F1, F2>>, <<F2, F3>>}

Node(p, g, ac, sc, rp, k, rdr, fr, fac, fsc, its, pes) ==
  [present |-> p, gic |-> g, ac |-> ac, sc |-> sc, regPresent |-> rp,
   pairs |-> SubSeq(Pairs, 1, k), rdRegions |-> rdr, frames |-> fr,
   fac |-> fac, fsc |-> fsc, nIts |-> its, pes |-> pes]

\* Redistributor regions a GICv3 node declares (-1: property absent).
RdCount(r) == IF r < 0 THEN 1 ELSE r

V3Dts(cells, ks) ==
  {Node(TRUE, "v3", c[1], c[2], TRUE, k, r, <<>>, 1, 1, its, pes) :
     c \in cells, r \in {-1, 1, 2}, k \in ks, its \in {0, 2}, pes \in {1, 2}}

V2Dts ==
  {Node(TRUE, "v2", c[1], c[2], TRUE, k, -1, fr, fc[1], fc[2], 0, pes) :
     c \in {<<1, 1>>, <<2, 2>>, <<2, 1>>}, k \in 1..3, fr \in FrameSeqs,
     fc \in {<<1, 1>>, <<2, 2>>, <<1, 2>>, <<-1, 1>>}, pes \in {1, 2}}

\* Blob absent, no GIC node, a libfdt cell error, "reg" absent.
ErrorDts ==
  {Node(FALSE, "v3", 1, 1, TRUE, 2, -1, <<>>, 1, 1, 0, 1),
   Node(TRUE, "none", 1, 1, TRUE, 2, -1, <<>>, 1, 1, 0, 1),
   Node(TRUE, "v3", -1, 1, TRUE, 2, -1, <<>>, 1, 1, 0, 1),
   Node(TRUE, "v2", 1, -1, TRUE, 2, -1, <<>>, 1, 1, 0, 1),
   Node(TRUE, "v2", 1, 1, FALSE, 2, -1, <<>>, 1, 1, 0, 1)}

\* Well-formed nodes: cells of 1 or 2, "reg" holding every region read.
WellFormed(ds) == {d \in ds : d.gic = "v3" => Len(d.pairs) >= 1 + RdCount(d.rdRegions)}

MCDts == WellFormed(V3Dts({<<1, 1>>, <<2, 2>>, <<1, 2>>, <<2, 1>>}, 1..4))
         \cup V2Dts \cup ErrorDts

MCUninitRd == {0, 1, 2, 3, 2147483646}
====
