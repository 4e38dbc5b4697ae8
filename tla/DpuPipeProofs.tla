----------------------------- MODULE DpuPipeProofs -----------------------------
(***************************************************************************)
(* The registers of one SSPP, for every history of commits, and every set  *)
(* of SSPPs and of configurations asked of them: what the last commits     *)
(* asked for decides what the registers show, each rectangle reads its own *)
(* buffer, and all of a source is shown.                                   *)
(***************************************************************************)
EXTENDS DpuPipe, DataLemmas

Rects  == {"SOLO", "RECT_0", "RECT_1"}
Fields ==
  {"addr", "stride", "src", "out", "format", "opmode", "ubwc", "fetchHbb", "color", "pe", "scaler2",
   "decimation", "scaler3", "cscOn", "csc", "multirect", "cdp", "qos", "clk"}

(* The shape of the registers, which no setter changes. *)
IsRegs(g) ==
  /\ DOMAIN g = Fields
  /\ g.addr = [i \in 0..3 |-> g.addr[i]] /\ g.stride = [i \in 0..3 |-> g.stride[i]]
  /\ DOMAIN g.src = Banks /\ DOMAIN g.out = Banks
  /\ DOMAIN g.format = Banks /\ DOMAIN g.opmode = Banks /\ DOMAIN g.ubwc = Banks
  /\ DOMAIN g.color = Banks /\ DOMAIN g.cdp = Banks
  /\ g.multirect = [rects |-> g.multirect.rects, time |-> g.multirect.time]

(* All registers but those of some fields are as they were. *)
Others(n, g, changed) == \A k \in Fields \ changed : n[k] = g[k]

-----------------------------------------------------------------------------
(* What each setter writes *)

(* The address and pitch registers of a rectangle, and the planes they are for. *)
At(r) == IF r = "SOLO" THEN 0..3 ELSE IF r = "RECT_0" THEN {0, 2} ELSE {1, 3}
PlaneAt(r, i) == IF r = "RECT_1" THEN i - 1 ELSE i

AddressSet(n, g, r, layout) ==
  \A i \in 0..3 :
    /\ n.addr[i] = IF i \in At(r) THEN layout.addr[PlaneAt(r, i)] ELSE g.addr[i]
    /\ n.stride[i] = IF i \in At(r) THEN layout.pitch[PlaneAt(r, i)] % 65536 ELSE g.stride[i]

BankSet(new, old, b, v) == \A i \in Banks : new[i] = IF i = b THEN v ELSE old[i]

LEMMA BankCases == \A r : Bank(r) \in Banks /\ UbwcBank(r) \in Banks
BY DEF Bank, Banks, UbwcBank

IsLayout(layout) ==
  layout.addr = [i \in 0..3 |-> layout.addr[i]] /\ layout.pitch = [i \in 0..3 |-> layout.pitch[i]]

LEMMA AddressStep ==
  ASSUME NEW g, IsRegs(g), NEW r \in Rects, NEW layout, IsLayout(layout),
         NEW n, n = SetupSourceAddress(g, r, layout)
  PROVE  IsRegs(n) /\ Others(n, g, {"addr", "stride"}) /\ AddressSet(n, g, r, layout)
<1> DEFINE a == layout.addr
           p == [i \in 0..3 |-> layout.pitch[i] % 65536]
<1>1. \A i \in 0..3 : p[i] = layout.pitch[i] % 65536 OBVIOUS
<1>2. p = [i \in 0..3 |-> p[i]] OBVIOUS
<1> HIDE DEF p
<1>3. CASE r = "SOLO"
  <2>1. n = [g EXCEPT !.addr = a, !.stride = p] BY <1>3 DEF SetupSourceAddress, p
  <2>2. DOMAIN n = Fields /\ n.addr = a /\ n.stride = p BY <2>1 DEF IsRegs, Fields
  <2>3. Others(n, g, {"addr", "stride"}) BY <2>1 DEF IsRegs, Fields, Others
  <2>4. AddressSet(n, g, r, layout) BY <1>1, <1>3, <2>2 DEF AddressSet, At, PlaneAt
  <2>5. IsRegs(n) BY <1>2, <2>2, <2>3 DEF IsRegs, IsLayout, Others, Fields
  <2> QED BY <2>3, <2>4, <2>5
<1>4. CASE r = "RECT_0"
  <2> DEFINE newA == [g.addr EXCEPT ![0] = a[0], ![2] = a[2]]
             newP == [g.stride EXCEPT ![0] = p[0], ![2] = p[2]]
  <2>1. n = [g EXCEPT !.addr = newA, !.stride = newP] BY <1>4 DEF SetupSourceAddress, p
  <2>2. DOMAIN g.addr = 0..3 /\ DOMAIN g.stride = 0..3 BY DEF IsRegs
  <2>3. newA = [k \in 0..3 |-> newA[k]] /\ newP = [k \in 0..3 |-> newP[k]] BY <2>2
  <2>4. \A k \in 0..3 : newA[k] = IF k \in {0, 2} THEN a[k] ELSE g.addr[k] BY <2>2
  <2>5. \A k \in 0..3 : newP[k] = IF k \in {0, 2} THEN p[k] ELSE g.stride[k] BY <2>2
  <2> HIDE DEF newA, newP
  <2>6. DOMAIN n = Fields /\ n.addr = newA /\ n.stride = newP BY <2>1 DEF IsRegs, Fields
  <2>7. Others(n, g, {"addr", "stride"}) BY <2>1 DEF IsRegs, Fields, Others
  <2>8. AddressSet(n, g, r, layout)
    BY <1>4, <1>1, <2>4, <2>5, <2>6 DEF AddressSet, At, PlaneAt
  <2>9. IsRegs(n) BY <2>3, <2>6, <2>7 DEF IsRegs, Others, Fields
  <2> QED BY <2>7, <2>8, <2>9
<1>5. CASE r = "RECT_1"
  <2> DEFINE newA == [g.addr EXCEPT ![1] = a[0], ![3] = a[2]]
             newP == [g.stride EXCEPT ![1] = p[0], ![3] = p[2]]
  <2>1. n = [g EXCEPT !.addr = newA, !.stride = newP] BY <1>5 DEF SetupSourceAddress, p
  <2>2. DOMAIN g.addr = 0..3 /\ DOMAIN g.stride = 0..3 BY DEF IsRegs
  <2>3. newA = [k \in 0..3 |-> newA[k]] /\ newP = [k \in 0..3 |-> newP[k]] BY <2>2
  <2>4. \A k \in 0..3 : newA[k] = IF k \in {1, 3} THEN a[k - 1] ELSE g.addr[k] BY <2>2
  <2>5. \A k \in 0..3 : newP[k] = IF k \in {1, 3} THEN p[k - 1] ELSE g.stride[k] BY <2>2
  <2> HIDE DEF newA, newP
  <2>6. DOMAIN n = Fields /\ n.addr = newA /\ n.stride = newP BY <2>1 DEF IsRegs, Fields
  <2>7. Others(n, g, {"addr", "stride"}) BY <2>1 DEF IsRegs, Fields, Others
  <2>8. AddressSet(n, g, r, layout)
    BY <1>5, <1>1, <2>4, <2>5, <2>6 DEF AddressSet, At, PlaneAt
  <2>9. IsRegs(n) BY <2>3, <2>6, <2>7 DEF IsRegs, Others, Fields
  <2> QED BY <2>7, <2>8, <2>9
<1> QED BY <1>3, <1>4, <1>5 DEF Rects

(* setup_rects *)
Place(c) == <<c.dx, c.dy, c.dw, c.dh>>
Crop(c)  == <<c.x, c.y, c.w, c.h>>

RectsSet(n, g, r, c) ==
  BankSet(n.src, g.src, Bank(r), Crop(c)) /\ BankSet(n.out, g.out, Bank(r), Place(c))

LEMMA RectsStep ==
  ASSUME NEW g, IsRegs(g), NEW r, NEW c, NEW n, n = SetupRects(g, r, c)
  PROVE  IsRegs(n) /\ Others(n, g, {"src", "out"}) /\ RectsSet(n, g, r, c)
<1> DEFINE b == Bank(r)
<1>1. b \in Banks BY BankCases
<1>2. n = [g EXCEPT !.src[b] = Crop(c), !.out[b] = Place(c)] BY DEF SetupRects, Crop, Place
<1> HIDE DEF b
<1>3. /\ DOMAIN n = Fields
      /\ n.src = [g.src EXCEPT ![b] = Crop(c)] /\ n.out = [g.out EXCEPT ![b] = Place(c)]
  BY <1>2 DEF IsRegs, Fields
<1>4. Others(n, g, {"src", "out"}) BY <1>2 DEF IsRegs, Fields, Others
<1>5. RectsSet(n, g, r, c) BY <1>1, <1>3 DEF IsRegs, RectsSet, BankSet, b
<1>6. IsRegs(n) BY <1>3, <1>4 DEF IsRegs, Others, Fields
<1> QED BY <1>4, <1>5, <1>6

(* setup_scaler: the pixel extension, and the scaler there is. *)
Component(e, rows) ==
  [lr |-> e.right, tb |-> rows, req |-> <<e.w + e.left + e.right, e.h + e.top + e.bottom>>]
PixelExt(c) ==
  LET e == IF Has("SCALER_QSEED2") THEN PixelExt2(BuildCfg2(c)) ELSE PixelExt3(c)
  IN  [c0  |-> Component(e.c0, e.c0.bottom), c12 |-> Component(e.c12, e.c12.bottom),
       c3  |-> Component(e.c3, e.c3.right)]

Qseed2Set(n, g, r, c) ==
  IF Has("SCALER_QSEED2") /\ r # "RECT_1"
  THEN /\ n.scaler2 = PackRegs(BuildCfg2(c))
       /\ n.decimation = <<2 ^ BuildCfg2(c).x.decimate - 1, 2 ^ BuildCfg2(c).y.decimate - 1>>
  ELSE n.scaler2 = g.scaler2 /\ n.decimation = g.decimation

HasQseed3 == ~Has("SCALER_QSEED2") /\ Has("SCALER_QSEED3_COMPATIBLE")

Scaler3Of(f, cfg, old) ==
  [on    |-> cfg.enable, yuv |-> cfg.enable /\ f.yuv, dx |-> f.dx,
   alpha |-> IF f.alpha THEN {"enable"} \cup (IF cfg.alphaFilter THEN {"bit29"} ELSE {}) ELSE {},
   cfg   |-> IF cfg.enable THEN cfg ELSE old]

Qseed3Set(n, g, r, c, rot90) ==
  n.scaler3 = IF HasQseed3 /\ r # "RECT_1"
              THEN Scaler3Of(Fmt(c), Scaler3Cfg(sspp, c, rot90), g.scaler3.cfg) ELSE g.scaler3

ScalerSet(n, g, r, c, rot90) ==
  n.pe = PixelExt(c) /\ Qseed2Set(n, g, r, c) /\ Qseed3Set(n, g, r, c, rot90)

LEMMA PeStep ==
  ASSUME NEW g, IsRegs(g), NEW e, NEW n, n = SetupPe(g, e)
  PROVE  /\ IsRegs(n) /\ Others(n, g, {"pe"})
         /\ n.pe = [c0  |-> Component(e.c0, e.c0.bottom), c12 |-> Component(e.c12, e.c12.bottom),
                    c3  |-> Component(e.c3, e.c3.right)]
<1> DEFINE pe == [c0  |-> Component(e.c0, e.c0.bottom), c12 |-> Component(e.c12, e.c12.bottom),
                  c3  |-> Component(e.c3, e.c3.right)]
<1>1. n = [g EXCEPT !.pe = pe] BY DEF SetupPe, Component
<1> HIDE DEF pe
<1>2. DOMAIN n = Fields /\ n.pe = pe BY <1>1 DEF IsRegs, Fields
<1>3. Others(n, g, {"pe"}) BY <1>1 DEF IsRegs, Fields, Others
<1>4. IsRegs(n) BY <1>2, <1>3 DEF IsRegs, Others, Fields
<1> QED BY <1>2, <1>3, <1>4 DEF pe

LEMMA ScalerStep ==
  ASSUME NEW g, IsRegs(g), NEW r, NEW c, Has("SCALER_QSEED2") => CanBuild2(c), NEW rot90,
         NEW n, n = SetupScaler(g, r, c, rot90)
  PROVE  /\ IsRegs(n) /\ Others(n, g, {"pe", "scaler2", "decimation", "scaler3"})
         /\ ScalerSet(n, g, r, c, rot90)
<1> DEFINE e  == IF Has("SCALER_QSEED2") THEN PixelExt2(BuildCfg2(c)) ELSE PixelExt3(c)
           p  == SetupPe(g, e)
           d  == <<2 ^ BuildCfg2(c).x.decimate - 1, 2 ^ BuildCfg2(c).y.decimate - 1>>
           s3 == Scaler3Of(Fmt(c), Scaler3Cfg(sspp, c, rot90), p.scaler3.cfg)
<1>1. /\ Has("SCALER_QSEED2") /\ r # "RECT_1" =>
           n = [p EXCEPT !.scaler2 = PackRegs(BuildCfg2(c)), !.decimation = d]
      /\ HasQseed3 /\ r # "RECT_1" => n = [p EXCEPT !.scaler3 = s3]
      /\ r = "RECT_1" \/ ~(Has("SCALER_QSEED2") \/ HasQseed3) => n = p
  BY DEF SetupScaler, SetupScaler2, SetupScaler3, Scaler3Of, HasQseed3
<1>2. /\ IsRegs(p) /\ Others(p, g, {"pe"}) /\ p.pe = PixelExt(c)
  BY PeStep DEF PixelExt
<1> HIDE DEF p, d, s3
<1>3. CASE Has("SCALER_QSEED2") /\ r # "RECT_1"
  <2>1. n = [p EXCEPT !.scaler2 = PackRegs(BuildCfg2(c)), !.decimation = d] BY <1>1, <1>3
  <2>2. DOMAIN n = Fields /\ n.scaler2 = PackRegs(BuildCfg2(c)) /\ n.decimation = d
    BY <2>1, <1>2 DEF IsRegs, Fields
  <2>3. Others(n, p, {"scaler2", "decimation"}) BY <2>1, <1>2 DEF IsRegs, Fields, Others
  <2>4. IsRegs(n) BY <1>2, <2>2, <2>3 DEF IsRegs, Others, Fields
  <2>5. Others(n, g, {"pe", "scaler2", "decimation", "scaler3"}) BY <1>2, <2>3 DEF Others, Fields
  <2>6. n.pe = PixelExt(c) /\ n.scaler3 = g.scaler3 BY <1>2, <2>3 DEF Others, Fields
  <2>7. Qseed2Set(n, g, r, c) BY <1>3, <2>2 DEF Qseed2Set, d
  <2>8. Qseed3Set(n, g, r, c, rot90) BY <1>3, <2>6 DEF Qseed3Set, HasQseed3
  <2> QED BY <2>4, <2>5, <2>6, <2>7, <2>8 DEF ScalerSet
<1>4. CASE HasQseed3 /\ r # "RECT_1"
  <2>1. n = [p EXCEPT !.scaler3 = s3] BY <1>1, <1>4
  <2>2. DOMAIN n = Fields /\ n.scaler3 = s3 BY <2>1, <1>2 DEF IsRegs, Fields
  <2>3. Others(n, p, {"scaler3"}) BY <2>1, <1>2 DEF IsRegs, Fields, Others
  <2>4. IsRegs(n) BY <1>2, <2>2, <2>3 DEF IsRegs, Others, Fields
  <2>5. Others(n, g, {"pe", "scaler2", "decimation", "scaler3"}) BY <1>2, <2>3 DEF Others, Fields
  <2>6. /\ n.pe = PixelExt(c) /\ n.scaler2 = g.scaler2 /\ n.decimation = g.decimation
        /\ p.scaler3 = g.scaler3
    BY <1>2, <2>3 DEF Others, Fields
  <2>7. Qseed2Set(n, g, r, c) BY <1>4, <2>6 DEF Qseed2Set, HasQseed3
  <2>8. Qseed3Set(n, g, r, c, rot90) BY <1>4, <2>2, <2>6 DEF Qseed3Set, s3
  <2> QED BY <2>4, <2>5, <2>6, <2>7, <2>8 DEF ScalerSet
<1>5. CASE r = "RECT_1" \/ ~(Has("SCALER_QSEED2") \/ HasQseed3)
  <2>1. n = p BY <1>1, <1>5
  <2>2. /\ n.scaler2 = g.scaler2 /\ n.decimation = g.decimation /\ n.scaler3 = g.scaler3
    BY <1>2, <2>1 DEF Others, Fields
  <2>3. Others(n, g, {"pe", "scaler2", "decimation", "scaler3"}) BY <1>2, <2>1 DEF Others, Fields
  <2>4. Qseed2Set(n, g, r, c) /\ Qseed3Set(n, g, r, c, rot90)
    BY <1>5, <2>2 DEF Qseed2Set, Qseed3Set
  <2> QED BY <1>2, <2>1, <2>3, <2>4 DEF ScalerSet
<1> QED BY <1>3, <1>4, <1>5

(* setup_multirect *)
MultirectSet(n, g, r) ==
  n.multirect = IF ~Has("SMART_DMA_V2") THEN g.multirect
                ELSE IF r = "SOLO" THEN [rects |-> {}, time |-> FALSE]
                ELSE [rects |-> g.multirect.rects \cup {r}, time |-> mode = "TIME_MX"]

LEMMA MultirectStep ==
  ASSUME NEW g, IsRegs(g), NEW r, NEW n, n = WriteMultirect(g, r)
  PROVE  IsRegs(n) /\ Others(n, g, {"multirect"}) /\ MultirectSet(n, g, r)
<1>1. CASE ~Has("SMART_DMA_V2")
  <2>1. n = g BY <1>1 DEF WriteMultirect
  <2> QED BY <1>1, <2>1 DEF Others, MultirectSet
<1>2. CASE Has("SMART_DMA_V2")
  <2> DEFINE m == IF r = "SOLO" THEN [rects |-> {}, time |-> FALSE]
                  ELSE [rects |-> g.multirect.rects \cup {r}, time |-> mode = "TIME_MX"]
  <2>1. n = [g EXCEPT !.multirect = m] BY <1>2 DEF WriteMultirect
  <2>2. m = [rects |-> m.rects, time |-> m.time]
    <3>1. CASE r = "SOLO"
      <4>1. m = [rects |-> {}, time |-> FALSE] BY <3>1
      <4> QED BY <4>1
    <3>2. CASE r # "SOLO"
      <4>1. m = [rects |-> g.multirect.rects \cup {r}, time |-> mode = "TIME_MX"] BY <3>2
      <4> QED BY <4>1
    <3> QED BY <3>1, <3>2
  <2> HIDE DEF m
  <2>3. DOMAIN n = Fields /\ n.multirect = m BY <2>1 DEF IsRegs, Fields
  <2>4. Others(n, g, {"multirect"}) BY <2>1 DEF IsRegs, Fields, Others
  <2>5. IsRegs(n) BY <2>2, <2>3, <2>4 DEF IsRegs, Others, Fields
  <2> QED BY <1>2, <2>3, <2>4, <2>5 DEF MultirectSet, m
<1> QED BY <1>1, <1>2

(* setup_format *)
HasCscMode == (Has("CSC") /\ Has("SCALER_QSEED2")) \/ (~Has("CSC") /\ Has("CSC_10BIT"))

FormatOf(c, flags) ==
  [name |-> c.name, ubwc |-> c.ubwc, rot90 |-> "ROT_90" \in flags, solid |-> "SOLID_FILL" \in flags]
OpmodeOf(c, flags) ==
  (flags \cap {"FLIP_LR", "FLIP_UD"}) \cup {"PE_OVERRIDE"} \cup (IF c.ubwc THEN {"BWC_EN"} ELSE {})

FormatSet(n, g, r, c, flags) ==
  /\ n.fetchHbb = (g.fetchHbb \/ c.ubwc)
  /\ BankSet(n.ubwc, g.ubwc, UbwcBank(r), IF c.ubwc THEN UbwcCtrl(Fmt(c)) ELSE g.ubwc[UbwcBank(r)])
  /\ BankSet(n.opmode, g.opmode, Bank(r), OpmodeOf(c, flags))
  /\ BankSet(n.format, g.format, Bank(r), FormatOf(c, flags))
  /\ n.cscOn = IF HasCscMode THEN Fmt(c).yuv ELSE g.cscOn

LEMMA FormatStep ==
  ASSUME NEW g, IsRegs(g), NEW r, NEW c, NEW flags, NEW n, n = SetupFormat(g, r, c, flags)
  PROVE  /\ IsRegs(n) /\ Others(n, g, {"fetchHbb", "ubwc", "opmode", "format", "cscOn"})
         /\ FormatSet(n, g, r, c, flags)
<1> DEFINE b == Bank(r)
           u == UbwcBank(r)
           hbb    == g.fetchHbb \/ c.ubwc
           ctrl   == IF c.ubwc THEN UbwcCtrl(Fmt(c)) ELSE g.ubwc[u]
           opmode == OpmodeOf(c, flags)
           format == FormatOf(c, flags)
           m == [g EXCEPT !.fetchHbb = hbb, !.ubwc[u] = ctrl, !.opmode[b] = opmode,
                          !.format[b] = format]
           yuv == Fmt(c).yuv
<1>1. b \in Banks /\ u \in Banks BY BankCases
<1>2. n = SetupCscMode(m, yuv) BY DEF SetupFormat, OpmodeOf, FormatOf
<1>3. hbb = (g.fetchHbb \/ c.ubwc) OBVIOUS
<1> HIDE DEF b, u, hbb, ctrl, opmode, format
<1>5. DOMAIN m = Fields BY DEF IsRegs, Fields
<1>6. m.fetchHbb = hbb /\ m.ubwc = [g.ubwc EXCEPT ![u] = ctrl] BY DEF IsRegs, Fields
<1>7. m.opmode = [g.opmode EXCEPT ![b] = opmode] /\ m.format = [g.format EXCEPT ![b] = format]
  BY DEF IsRegs, Fields
<1>8. Others(m, g, {"fetchHbb", "ubwc", "opmode", "format"}) BY DEF IsRegs, Fields, Others
<1> HIDE DEF m, yuv
<1>10. HasCscMode => n = [m EXCEPT !.cscOn = yuv] BY <1>2 DEF SetupCscMode, HasCscMode
<1>11. ~HasCscMode => n = m BY <1>2 DEF SetupCscMode, HasCscMode
<1>12. DOMAIN n = Fields /\ Others(n, m, {"cscOn"})
  <2>1. CASE HasCscMode BY <2>1, <1>10, <1>5 DEF Others, Fields
  <2>2. CASE ~HasCscMode BY <2>2, <1>11, <1>5 DEF Others, Fields
  <2> QED BY <2>1, <2>2
<1>13. n.cscOn = IF HasCscMode THEN yuv ELSE g.cscOn
  <2>1. CASE HasCscMode BY <2>1, <1>10, <1>5 DEF Fields
  <2>2. CASE ~HasCscMode BY <2>2, <1>11, <1>8 DEF Fields, Others
  <2> QED BY <2>1, <2>2
<1>14. Others(n, g, {"fetchHbb", "ubwc", "opmode", "format", "cscOn"})
  BY <1>8, <1>12 DEF Others, Fields
<1>15. /\ n.fetchHbb = hbb /\ n.ubwc = [g.ubwc EXCEPT ![u] = ctrl]
       /\ n.opmode = [g.opmode EXCEPT ![b] = opmode] /\ n.format = [g.format EXCEPT ![b] = format]
  BY <1>6, <1>7, <1>12 DEF Others, Fields
<1>16. IsRegs(n) BY <1>12, <1>14, <1>15 DEF IsRegs, Others, Fields
<1>17. BankSet(n.ubwc, g.ubwc, u, ctrl)
  BY <1>1, <1>15 DEF IsRegs, BankSet
<1>18. BankSet(n.opmode, g.opmode, b, opmode) /\ BankSet(n.format, g.format, b, format)
  BY <1>1, <1>15 DEF IsRegs, BankSet
<1>19. FormatSet(n, g, r, c, flags)
  BY <1>3, <1>13, <1>15, <1>17, <1>18 DEF FormatSet, b, u, ctrl, opmode, format, yuv
<1> QED BY <1>14, <1>16, <1>19

(* setup_cdp *)
CdpOf(c) ==
  {"PRELOAD_AHEAD_64", "ENABLE"} \cup (IF c.ubwc THEN {"UBWC_META", "TILE_AMORTIZE"} ELSE {})
CdpSet(n, g, r, c) == IF Has("CDP") THEN BankSet(n.cdp, g.cdp, Bank(r), CdpOf(c)) ELSE n.cdp = g.cdp

LEMMA CdpStep ==
  ASSUME NEW g, IsRegs(g), NEW r, NEW c, NEW n, n = SetupCdp(g, r, c)
  PROVE  IsRegs(n) /\ Others(n, g, {"cdp"}) /\ CdpSet(n, g, r, c)
<1>1. CASE ~Has("CDP")
  <2>1. n = g BY <1>1 DEF SetupCdp
  <2> QED BY <1>1, <2>1 DEF Others, CdpSet
<1>2. CASE Has("CDP")
  <2> DEFINE b == Bank(r)
             v == CdpOf(c)
  <2>1. b \in Banks BY BankCases
  <2>2. n = [g EXCEPT !.cdp[b] = v] BY <1>2 DEF SetupCdp, CdpOf
  <2> HIDE DEF b, v
  <2>3. DOMAIN n = Fields /\ n.cdp = [g.cdp EXCEPT ![b] = v] BY <2>2 DEF IsRegs, Fields
  <2>4. Others(n, g, {"cdp"}) BY <2>2 DEF IsRegs, Fields, Others
  <2>5. IsRegs(n) BY <2>3, <2>4 DEF IsRegs, Others, Fields
  <2>6. CdpSet(n, g, r, c) BY <1>2, <2>1, <2>3 DEF IsRegs, CdpSet, BankSet, b, v
  <2> QED BY <2>4, <2>5, <2>6
<1> QED BY <1>1, <1>2

(* setup_qos_lut *)
UsageOf(c) == IF ~c.rt THEN "NRT" ELSE IF c.ubwc THEN "MACROTILE" ELSE "LINEAR"
QosSet(n, c) ==
  n.qos.creq = QosLut(sspp, c, mode) /\ n.qos.usage = UsageOf(c) /\ (c.rt => n.qos.danger = TRUE)

LEMMA QosStep ==
  ASSUME NEW g, IsRegs(g), NEW c, NEW junk, NEW n, n = SetQosLut(g, c, junk)
  PROVE  IsRegs(n) /\ Others(n, g, {"qos"}) /\ QosSet(n, c)
<1> DEFINE lut == QosLut(sspp, c, mode)
           q == [creq |-> lut, usage |-> UsageOf(c), danger |-> IF c.rt THEN TRUE ELSE junk]
<1>1. n = [g EXCEPT !.qos = q] BY DEF SetQosLut, UsageOf
<1>2. q.creq = lut /\ q.usage = UsageOf(c) /\ (c.rt => q.danger = TRUE) BY SMT
<1> HIDE DEF q
<1>3. DOMAIN n = Fields /\ n.qos = q BY <1>1 DEF IsRegs, Fields
<1>4. Others(n, g, {"qos"}) BY <1>1 DEF IsRegs, Fields, Others
<1>5. IsRegs(n) BY <1>3, <1>4 DEF IsRegs, Others, Fields
<1>6. QosSet(n, c) BY <1>2, <1>3 DEF QosSet
<1> QED BY <1>4, <1>5, <1>6

LEMMA RecordSet ==
  ASSUME NEW x, NEW y, NEW z
  PROVE  /\ [[reg |-> x, clocked |-> y] EXCEPT !.reg = z] = [reg |-> z, clocked |-> y]
         /\ [[reg |-> x, clocked |-> y] EXCEPT !.clocked = z] = [reg |-> x, clocked |-> z]
<1> DEFINE s == [reg |-> x, clocked |-> y]
           n == [s EXCEPT !.reg = z]
           m == [s EXCEPT !.clocked = z]
<1>1. s = [reg |-> x, clocked |-> y] /\ n = [s EXCEPT !.reg = z] /\ m = [s EXCEPT !.clocked = z]
  OBVIOUS
<1> HIDE DEF s, n, m
<1>2. n = [reg |-> z, clocked |-> y] BY <1>1
<1>3. m = [reg |-> x, clocked |-> z] BY <1>1
<1> QED BY <1>2, <1>3 DEF s, n, m

(* The clock of VBIF is as it was after each write to VBIF, and was on. *)
LEMMA ClockStep ==
  ASSUME NEW g, IsRegs(g), g.clk \in BOOLEAN, NEW s, s = [reg |-> g, clocked |-> TRUE],
         NEW t, t = WithClock(s)
  PROVE  t = [reg |-> t.reg, clocked |-> TRUE] /\ IsRegs(t.reg) /\ Others(t.reg, g, {})
<1> DEFINE on  == [g EXCEPT !.clk = TRUE]
           off == [on EXCEPT !.clk = FALSE]
<1>1. DOMAIN on = Fields /\ on.clk = TRUE /\ Others(on, g, {"clk"})
  BY DEF IsRegs, Fields, Others
<1>2. DOMAIN off = Fields /\ off.clk = FALSE /\ Others(off, on, {"clk"})
  BY <1>1 DEF Fields, Others
<1> HIDE DEF on, off
<1>3. ClkForced(s, TRUE) = [reg |-> on, clocked |-> TRUE]
  <2>1. s.reg = g BY SMT
  <2>2. ClkForced(s, TRUE) = [s EXCEPT !.reg = on] BY <2>1 DEF ClkForced, on
  <2> QED BY <2>2, RecordSet
<1>4. t = [reg |-> IF g.clk THEN on ELSE off, clocked |-> TRUE]
  <2> DEFINE first == [reg |-> on, clocked |-> TRUE]
  <2>1. first.reg = on /\ first.clocked = TRUE BY SMT
  <2>2. [first EXCEPT !.clocked = @ /\ first.reg.clk] = first
    <3>1. (first.clocked /\ first.reg.clk) = TRUE BY <1>1, <2>1
    <3>2. [first EXCEPT !.clocked = TRUE] = first BY RecordSet
    <3> QED BY <3>1, <3>2
  <2>3. ClkForced(first, FALSE) = [reg |-> off, clocked |-> TRUE]
    <3>1. ClkForced(first, FALSE) = [first EXCEPT !.reg = off] BY <2>1 DEF ClkForced, off
    <3> QED BY <3>1, RecordSet
  <2>4. ForcedOn(s) = ~g.clk BY DEF ForcedOn
  <2> HIDE DEF first
  <2>5. t = IF ~g.clk THEN ClkForced(first, FALSE) ELSE first
    BY <1>3, <2>2, <2>4 DEF WithClock, first
  <2> QED BY <2>3, <2>5 DEF first
<1>5. Others(t.reg, g, {}) /\ DOMAIN t.reg = Fields
  <2>1. CASE g.clk
    <3>1. t.reg = on BY <1>4, <2>1
    <3> QED BY <1>1, <2>1, <3>1 DEF Others, Fields
  <2>2. CASE ~g.clk
    <3>1. t.reg = off BY <1>4, <2>2
    <3>2. g.clk = FALSE BY <2>2
    <3> QED BY <1>1, <1>2, <3>1, <3>2 DEF Others, Fields
  <2> QED BY <2>1, <2>2
<1>6. IsRegs(t.reg) BY <1>5 DEF IsRegs, Others, Fields
<1>7. t = [reg |-> t.reg, clocked |-> TRUE]
  <2> DEFINE x == IF g.clk THEN on ELSE off
  <2>1. t = [reg |-> x, clocked |-> TRUE] BY <1>4
  <2> HIDE DEF x
  <2>2. t.reg = x BY <2>1
  <2> QED BY <2>1, <2>2
<1> QED BY <1>5, <1>6, <1>7

-----------------------------------------------------------------------------
(* A whole update, and a whole fill *)
UpdateSet(n, g, r, c, rot) ==
  /\ AddressSet(n, g, r, Layout(c)) /\ RectsSet(n, g, r, c) /\ ScalerSet(n, g, r, c, rot.angle = 90)
  /\ MultirectSet(n, g, r) /\ FormatSet(n, g, r, c, Flags(rot)) /\ CdpSet(n, g, r, c) /\ QosSet(n, c)
  /\ n.color = g.color /\ n.csc = g.csc /\ n.clk = g.clk

(* A pair of registers and VBIF that was told nothing without its clock *)
IsTold(t) == t = [reg |-> t.reg, clocked |-> TRUE]

LEMMA UpdateStep ==
  ASSUME NEW g, IsRegs(g), g.clk \in BOOLEAN, NEW r \in Rects, NEW c, NEW junk,
         NEW remap, Has("SCALER_QSEED2") => CanBuild2(c),
         NEW t, t = UpdatePipe([reg |-> g, clocked |-> TRUE], r, c, junk, remap)
  PROVE  /\ IsTold(t) /\ t.clocked = TRUE /\ IsRegs(t.reg)
         /\ UpdateSet(t.reg, g, r, c, PipeRotation(sspp, c))
<1> DEFINE rot == PipeRotation(sspp, c)
           g1 == SetupSourceAddress(g, r, Layout(c))
           g2 == SetupRects(g1, r, c)
           g3 == SetupScaler(g2, r, c, rot.angle = 90)
           g4 == WriteMultirect(g3, r)
           g5 == SetupFormat(g4, r, c, Flags(rot))
           g6 == SetupCdp(g5, r, c)
           g7 == SetQosLut(g6, c, junk)
           s1 == WithClock([reg |-> g7, clocked |-> TRUE])
           s2 == WithClock(s1)
<1>1. t = IF remap THEN s2 ELSE s1
  <2>1. \A x : [[reg |-> g, clocked |-> TRUE] EXCEPT !.reg = x] = [reg |-> x, clocked |-> TRUE]
    <3>1. ASSUME NEW a, NEW b, NEW x
          PROVE  [[reg |-> a, clocked |-> b] EXCEPT !.reg = x] = [reg |-> x, clocked |-> b]
      BY RecordSet
    <3> QED BY <3>1
  <2>2. [reg |-> g, clocked |-> TRUE].reg = g OBVIOUS
  <2> QED BY <2>1, <2>2 DEF UpdatePipe
<1>2. IsLayout(Layout(c)) BY DEF IsLayout, Layout
<1>3. IsRegs(g1) /\ Others(g1, g, {"addr", "stride"}) /\ AddressSet(g1, g, r, Layout(c))
  BY <1>2, AddressStep
<1> HIDE DEF g1
<1>4. IsRegs(g2) /\ Others(g2, g1, {"src", "out"}) /\ RectsSet(g2, g1, r, c)
  BY <1>3, RectsStep
<1> HIDE DEF g2
<1>5. /\ IsRegs(g3) /\ Others(g3, g2, {"pe", "scaler2", "decimation", "scaler3"})
      /\ ScalerSet(g3, g2, r, c, rot.angle = 90)
  BY <1>4, ScalerStep
<1> HIDE DEF g3
<1>6. IsRegs(g4) /\ Others(g4, g3, {"multirect"}) /\ MultirectSet(g4, g3, r)
  BY <1>5, MultirectStep
<1> HIDE DEF g4
<1>7. /\ IsRegs(g5) /\ Others(g5, g4, {"fetchHbb", "ubwc", "opmode", "format", "cscOn"})
      /\ FormatSet(g5, g4, r, c, Flags(rot))
  BY <1>6, FormatStep
<1> HIDE DEF g5
<1>8. IsRegs(g6) /\ Others(g6, g5, {"cdp"}) /\ CdpSet(g6, g5, r, c)
  BY <1>7, CdpStep
<1> HIDE DEF g6
<1>9. IsRegs(g7) /\ Others(g7, g6, {"qos"}) /\ QosSet(g7, c)
  BY <1>8, QosStep
<1> HIDE DEF g7
<1>10. g7.clk = g.clk
  BY <1>3, <1>4, <1>5, <1>6, <1>7, <1>8, <1>9 DEF Others, Fields
<1>11. s1 = [reg |-> s1.reg, clocked |-> TRUE] /\ IsRegs(s1.reg) /\ Others(s1.reg, g7, {})
  BY <1>9, <1>10, ClockStep
<1>12. s1.reg.clk = g.clk BY <1>10, <1>11 DEF Others, Fields
<1> HIDE DEF s1
<1>13. s2 = [reg |-> s2.reg, clocked |-> TRUE] /\ IsRegs(s2.reg) /\ Others(s2.reg, s1.reg, {})
  BY <1>11, <1>12, ClockStep
<1> HIDE DEF s2
<1>14. t = [reg |-> t.reg, clocked |-> TRUE] /\ IsRegs(t.reg) /\ Others(t.reg, g7, {})
  BY <1>1, <1>11, <1>13 DEF Others
<1> DEFINE n == t.reg
<1> HIDE DEF n, rot
<1>15. n.addr = g1.addr /\ n.stride = g1.stride
  BY <1>4, <1>5, <1>6, <1>7, <1>8, <1>9, <1>14 DEF Others, Fields, n
<1>16. /\ n.src = g2.src /\ n.out = g2.out /\ g1.src = g.src /\ g1.out = g.out
  BY <1>3, <1>5, <1>6, <1>7, <1>8, <1>9, <1>14 DEF Others, Fields, n
<1>17. /\ n.pe = g3.pe /\ n.scaler2 = g3.scaler2 /\ n.decimation = g3.decimation
       /\ n.scaler3 = g3.scaler3
       /\ g2.scaler2 = g.scaler2 /\ g2.decimation = g.decimation /\ g2.scaler3 = g.scaler3
  BY <1>3, <1>4, <1>6, <1>7, <1>8, <1>9, <1>14 DEF Others, Fields, n
<1>18. n.multirect = g4.multirect /\ g3.multirect = g.multirect
  BY <1>3, <1>4, <1>5, <1>7, <1>8, <1>9, <1>14 DEF Others, Fields, n
<1>19. /\ n.fetchHbb = g5.fetchHbb /\ n.ubwc = g5.ubwc /\ n.opmode = g5.opmode
       /\ n.format = g5.format /\ n.cscOn = g5.cscOn
       /\ g4.fetchHbb = g.fetchHbb /\ g4.ubwc = g.ubwc /\ g4.opmode = g.opmode
       /\ g4.format = g.format /\ g4.cscOn = g.cscOn
  BY <1>3, <1>4, <1>5, <1>6, <1>8, <1>9, <1>14 DEF Others, Fields, n
<1>20. n.cdp = g6.cdp /\ g5.cdp = g.cdp
  BY <1>3, <1>4, <1>5, <1>6, <1>7, <1>9, <1>14 DEF Others, Fields, n
<1>21. n.qos = g7.qos /\ n.clk = g.clk
  BY <1>10, <1>14 DEF Others, Fields, n
<1>22. n.color = g.color /\ n.csc = g.csc
  BY <1>3, <1>4, <1>5, <1>6, <1>7, <1>8, <1>9, <1>14 DEF Others, Fields, n
<1>23. AddressSet(n, g, r, Layout(c)) BY <1>3, <1>15 DEF AddressSet
<1>24. RectsSet(n, g, r, c) BY <1>4, <1>16 DEF RectsSet
<1>25. ScalerSet(n, g, r, c, rot.angle = 90)
  BY <1>5, <1>17 DEF ScalerSet, Qseed2Set, Qseed3Set
<1>26. MultirectSet(n, g, r) BY <1>6, <1>18 DEF MultirectSet
<1>27. FormatSet(n, g, r, c, Flags(rot)) BY <1>7, <1>19 DEF FormatSet
<1>28. CdpSet(n, g, r, c) BY <1>8, <1>20 DEF CdpSet
<1>29. QosSet(n, c) BY <1>9, <1>21 DEF QosSet
<1>30. t.clocked = TRUE BY <1>14
<1>31. IsTold(t) BY <1>14 DEF IsTold
<1> QED BY <1>14, <1>21, <1>22, <1>23, <1>24, <1>25, <1>26, <1>27, <1>28, <1>29, <1>30, <1>31
       DEF UpdateSet, n, rot

(* A fill has the size of its place, and is not decimated. *)
LEMMA FillFields ==
  ASSUME NEW c \in Configurations
  PROVE  LET f == FillConfig(c)
         IN  /\ f \in Configurations
             /\ f.name = "ARGB8888" /\ f.ubwc = FALSE /\ f.rotation = c.rotation /\ f.rt = c.rt
             /\ f.x = 0 /\ f.y = 0 /\ f.w = c.dw /\ f.h = c.dh
             /\ f.dx = c.dx /\ f.dy = c.dy /\ f.dw = c.dw /\ f.dh = c.dh
<1> DEFINE f == FillConfig(c)
<1>1. f = [name |-> "ARGB8888", ubwc |-> FALSE, x |-> 0, y |-> 0, w |-> c.dw, h |-> c.dh,
           dx |-> c.dx, dy |-> c.dy, dw |-> c.dw, dh |-> c.dh, pitch |-> c.pitch, fb |-> c.fb,
           rt |-> c.rt, rotation |-> c.rotation]
  <2>1. c = [name |-> c.name, ubwc |-> c.ubwc, x |-> c.x, y |-> c.y, w |-> c.w, h |-> c.h,
             dx |-> c.dx, dy |-> c.dy, dw |-> c.dw, dh |-> c.dh, pitch |-> c.pitch, fb |-> c.fb,
             rt |-> c.rt, rotation |-> c.rotation]
    BY DEF Configurations
  <2>2. f = [c EXCEPT !.name = "ARGB8888", !.ubwc = FALSE, !.x = 0, !.y = 0, !.w = c.dw, !.h = c.dh]
    BY DEF FillConfig
  <2> HIDE DEF f
  <2> QED BY <2>1, <2>2
<1>2. "ARGB8888" \in DOMAIN MsmFormat BY DEF MsmFormat
<1>3. /\ c.dw \in Nat \ {0} /\ c.dh \in Nat \ {0} /\ c.dx \in Nat /\ c.dy \in Nat /\ c.pitch \in Nat
      /\ c.fb \in Nat \ {0} /\ c.rt \in BOOLEAN
      /\ c.rotation \in [angle : {0, 90, 180, 270}, reflect : SUBSET {"X", "Y"}]
  BY DEF Configurations
<1> HIDE DEF f
<1>4. f \in Configurations BY <1>1, <1>2, <1>3 DEF Configurations
<1> QED BY <1>1, <1>4 DEF f

LEMMA NotDecimated ==
  ASSUME NEW n \in Nat \ {0}
  PROVE  CalcDecimation(n, n, 4) = 0 /\ Decimated(n, 0) = n
<1>1. Decimated(n, 0) = n
  <2>1. 2 ^ 0 = 1 OBVIOUS
  <2> QED BY <2>1 DEF Decimated, CeilDiv
<1> DEFINE Fits(e) == Decimated(n, e) <= n * 4
           P(exp)  == /\ exp = 4 \/ Decimated(n, exp) <= n * 4
                      /\ \A e \in 0..(exp - 1) : Decimated(n, e) > n * 4
           exp     == CHOOSE x \in 0..4 : P(x)
<1>2. P(0) BY <1>1
<1>3. CalcDecimation(n, n, 4) = exp BY DEF CalcDecimation, DPU_QSEED2_MAX_DOWNSCALE
<1>4. exp \in 0..4 /\ P(exp)
  <2> HIDE DEF P
  <2>1. \E x \in 0..4 : P(x) BY <1>2
  <2> QED BY <2>1
<1>5. exp = 0
  <2>1. CASE exp # 0
    <3>1. 0 \in 0..(exp - 1) BY <1>4, <2>1
    <3>2. Decimated(n, 0) > n * 4 BY <1>4, <3>1
    <3> QED BY <1>1, <3>2
  <2> QED BY <2>1
<1> QED BY <1>1, <1>3, <1>5

LEMMA FillBuilds == ASSUME NEW c \in Configurations PROVE CanBuild2(FillConfig(c))
<1> DEFINE f == FillConfig(c)
<1>1. f.w = c.dw /\ f.h = c.dh /\ f.dw = c.dw /\ f.dh = c.dh BY FillFields
<1>2. c.dw \in Nat \ {0} /\ c.dh \in Nat \ {0} BY DEF Configurations
<1> HIDE DEF f
<1>3. /\ Decimated(c.dw, CalcDecimation(c.dw, c.dw, 4)) = c.dw
      /\ Decimated(c.dh, CalcDecimation(c.dh, c.dh, 4)) = c.dh
  BY <1>2, NotDecimated
<1>4. HasPhaseStep(c.dw, c.dw) /\ HasPhaseStep(c.dh, c.dh)
  BY <1>2 DEF HasPhaseStep, DPU_QSEED2_MAX_DOWNSCALE
<1>5. CanBuild2(f)
  BY <1>1, <1>2, <1>3, <1>4 DEF CanBuild2, MAX_HORZ_DECIMATION, MAX_VERT_DECIMATION
<1> QED BY <1>5 DEF f

FillSet(n, g, r, c, junk) ==
  /\ AddressSet(n, g, r, EmptyLayout) /\ RectsSet(n, g, r, FillConfig(c))
  /\ ScalerSet(n, g, r, FillConfig(c), junk) /\ FormatSet(n, g, r, FillConfig(c), {"SOLID_FILL"})
  /\ BankSet(n.color, g.color, Bank(r), "white")
  /\ n.multirect = g.multirect /\ n.cdp = g.cdp /\ n.qos = g.qos /\ n.csc = g.csc /\ n.clk = g.clk

LEMMA FillStep ==
  ASSUME NEW g, IsRegs(g), NEW r \in Rects, NEW c \in Configurations, NEW junk,
         NEW n, n = ColorFill(g, r, c, junk)
  PROVE  IsRegs(n) /\ FillSet(n, g, r, c, junk)
<1> DEFINE f  == FillConfig(c)
           b  == Bank(r)
           g1 == SetupSourceAddress(g, r, EmptyLayout)
           g2 == [g1 EXCEPT !.color[b] = "white"]
           g3 == SetupFormat(g2, r, f, {"SOLID_FILL"})
           g4 == SetupRects(g3, r, f)
<1>1. n = SetupScaler(g4, r, f, junk) BY DEF ColorFill
<1>2. IsLayout(EmptyLayout) BY DEF IsLayout, EmptyLayout
<1>3. IsRegs(g1) /\ Others(g1, g, {"addr", "stride"}) /\ AddressSet(g1, g, r, EmptyLayout)
  BY <1>2, AddressStep
<1>4. b \in Banks BY BankCases
<1> HIDE DEF g1, b
<1>5. DOMAIN g2 = Fields /\ g2.color = [g1.color EXCEPT ![b] = "white"] BY <1>3 DEF IsRegs, Fields
<1>6. Others(g2, g1, {"color"}) BY <1>3 DEF IsRegs, Fields, Others
<1> HIDE DEF g2
<1>7. IsRegs(g2) BY <1>3, <1>5, <1>6 DEF IsRegs, Others, Fields
<1>8. BankSet(g2.color, g1.color, b, "white") BY <1>3, <1>4, <1>5 DEF IsRegs, BankSet
<1>9. /\ IsRegs(g3) /\ Others(g3, g2, {"fetchHbb", "ubwc", "opmode", "format", "cscOn"})
      /\ FormatSet(g3, g2, r, f, {"SOLID_FILL"})
  BY <1>7, FormatStep
<1> HIDE DEF g3
<1>10. IsRegs(g4) /\ Others(g4, g3, {"src", "out"}) /\ RectsSet(g4, g3, r, f)
  BY <1>9, RectsStep
<1> HIDE DEF g4
<1>11. CanBuild2(f) BY FillBuilds
<1> HIDE DEF f
<1>12. /\ IsRegs(n) /\ Others(n, g4, {"pe", "scaler2", "decimation", "scaler3"})
       /\ ScalerSet(n, g4, r, f, junk)
  BY <1>1, <1>10, <1>11, ScalerStep
<1>13. n.addr = g1.addr /\ n.stride = g1.stride
  BY <1>6, <1>9, <1>10, <1>12 DEF Others, Fields
<1>14. n.color = g2.color /\ g1.color = g.color
  BY <1>3, <1>9, <1>10, <1>12 DEF Others, Fields
<1>15. /\ n.fetchHbb = g3.fetchHbb /\ n.ubwc = g3.ubwc /\ n.opmode = g3.opmode
       /\ n.format = g3.format /\ n.cscOn = g3.cscOn
       /\ g2.fetchHbb = g.fetchHbb /\ g2.ubwc = g.ubwc /\ g2.opmode = g.opmode
       /\ g2.format = g.format /\ g2.cscOn = g.cscOn
  BY <1>3, <1>6, <1>10, <1>12 DEF Others, Fields
<1>16. n.src = g4.src /\ n.out = g4.out /\ g3.src = g.src /\ g3.out = g.out
  BY <1>3, <1>6, <1>9, <1>12 DEF Others, Fields
<1>17. g4.scaler2 = g.scaler2 /\ g4.decimation = g.decimation /\ g4.scaler3 = g.scaler3
  BY <1>3, <1>6, <1>9, <1>10 DEF Others, Fields
<1>18. /\ n.multirect = g.multirect /\ n.cdp = g.cdp /\ n.qos = g.qos /\ n.csc = g.csc
       /\ n.clk = g.clk
  BY <1>3, <1>6, <1>9, <1>10, <1>12 DEF Others, Fields
<1>19. AddressSet(n, g, r, EmptyLayout) BY <1>3, <1>13 DEF AddressSet
<1>20. RectsSet(n, g, r, f) BY <1>10, <1>16 DEF RectsSet
<1>21. ScalerSet(n, g, r, f, junk) BY <1>12, <1>17 DEF ScalerSet, Qseed2Set, Qseed3Set
<1>22. FormatSet(n, g, r, f, {"SOLID_FILL"}) BY <1>9, <1>15 DEF FormatSet
<1>23. BankSet(n.color, g.color, b, "white") BY <1>8, <1>14
<1> QED BY <1>12, <1>18, <1>19, <1>20, <1>21, <1>22, <1>23 DEF FillSet, f, b

(* The matrix of a flush *)
CscOf == IF Has("CSC_10BIT") THEN "csc10_601L" ELSE "csc_601L"
HasCsc == Has("CSC") \/ Has("CSC_10BIT")

LEMMA FlushStep ==
  ASSUME NEW g, IsRegs(g), NEW c, NEW n, n = FlushCsc(g, c)
  PROVE  /\ IsRegs(n) /\ Others(n, g, {"csc"})
         /\ n.csc = IF HasCsc /\ Fmt(c).yuv THEN CscOf ELSE g.csc
<1>1. CASE HasCsc /\ Fmt(c).yuv
  <2>1. n = [g EXCEPT !.csc = CscOf] BY <1>1 DEF FlushCsc, HasCsc, CscOf
  <2>2. DOMAIN n = Fields /\ n.csc = CscOf BY <2>1 DEF IsRegs, Fields
  <2>3. Others(n, g, {"csc"}) BY <2>1 DEF IsRegs, Fields, Others
  <2>4. IsRegs(n) BY <2>2, <2>3 DEF IsRegs, Others, Fields
  <2> QED BY <1>1, <2>2, <2>3, <2>4
<1>2. CASE ~(HasCsc /\ Fmt(c).yuv)
  <2>1. n = g BY <1>2 DEF FlushCsc, HasCsc
  <2> QED BY <1>2, <2>1 DEF Others
<1> QED BY <1>1, <1>2

-----------------------------------------------------------------------------
(* What the registers of a rectangle show *)
RectShown(g, r, c, layout, flags) ==
  /\ \A i \in At(r) : /\ g.addr[i] = layout.addr[PlaneAt(r, i)]
                      /\ g.stride[i] = layout.pitch[PlaneAt(r, i)] % 65536
  /\ g.src[Bank(r)] = Crop(c) /\ g.out[Bank(r)] = Place(c)
  /\ g.format[Bank(r)] = FormatOf(c, flags) /\ g.opmode[Bank(r)] = OpmodeOf(c, flags)
  /\ g.cscOn = (HasCscMode /\ Fmt(c).yuv)

ScalerShown(g, r, c, rot90) ==
  /\ HasQseed3 /\ r # "RECT_1" =>
       g.scaler3 = Scaler3Of(Fmt(c), Scaler3Cfg(sspp, c, rot90), g.scaler3.cfg)
  /\ r = "SOLO" =>
       /\ g.pe = PixelExt(c)
       /\ Has("SCALER_QSEED2") =>
            /\ g.scaler2 = PackRegs(BuildCfg2(c))
            /\ g.decimation = <<2 ^ BuildCfg2(c).x.decimate - 1, 2 ^ BuildCfg2(c).y.decimate - 1>>

(* What a fill leaves alone. *)
KeptShown(g, r, c) ==
  /\ Has("CDP") => g.cdp[Bank(r)] = CdpOf(c)
  /\ c.ubwc => /\ g.fetchHbb = TRUE
               /\ r = "SOLO" \/ sspp.core >= 8 => g.ubwc[UbwcBank(r)] = UbwcCtrl(Fmt(c))
  /\ Has("SMART_DMA_V2") =>
       IF r = "SOLO" THEN g.multirect = [rects |-> {}, time |-> FALSE]
       ELSE r \in g.multirect.rects /\ g.multirect.time = (mode = "TIME_MX")
  /\ c.rt => g.qos.danger = TRUE
  /\ r = "SOLO" => g.qos.creq = QosLut(sspp, c, mode) /\ g.qos.usage = UsageOf(c)

PlaneShown(g, r, c) ==
  LET rotation == PipeRotation(sspp, c)
  IN  /\ RectShown(g, r, c, Layout(c), Flags(rotation)) /\ ScalerShown(g, r, c, rotation.angle = 90)
      /\ KeptShown(g, r, c)

FillShown(g, r, c, junk) ==
  /\ RectShown(g, r, FillConfig(c), EmptyLayout, {"SOLID_FILL"})
  /\ ScalerShown(g, r, FillConfig(c), junk)
  /\ KeptShown(g, r, c) /\ g.color[Bank(r)] = "white"

Shows(g, r) ==
  IF r \in DOMAIN filled THEN FillShown(g, r, shown[r], filled[r]) ELSE PlaneShown(g, r, shown[r])

CscLoaded(g, r) == r \notin DOMAIN filled /\ HasCsc /\ Fmt(shown[r]).yuv => g.csc = CscOf

(* What an SSPP does not have stays at reset. *)
AtReset(g) ==
  /\ ~Has("SCALER_QSEED2") => g.scaler2 = Scaler2Off /\ g.decimation = <<0, 0>>
  /\ ~HasQseed3 => g.scaler3 = Reset.scaler3
  /\ ~Has("CDP") => g.cdp = Reset.cdp
  /\ ~HasCscMode => g.cscOn = FALSE
  /\ ~Has("SMART_DMA_V2") => g.multirect = Reset.multirect
  /\ g.multirect.rects \subseteq {"RECT_0", "RECT_1"}

-----------------------------------------------------------------------------
(* The inductive invariant *)
Halved(c) == Has("SMART_DMA_V2") /\ c.w = c.dw /\ c.h = c.dh /\ ~Fmt(c).yuv

ShownOK ==
  /\ shown = <<>> \/ DOMAIN shown = {"SOLO"} \/ DOMAIN shown = {"RECT_0", "RECT_1"}
  /\ \A r \in DOMAIN shown :
       /\ shown[r] \in Configurations /\ Accepted(shown[r])
       /\ r # "SOLO" => Halved(shown[r])
  /\ \A r, q \in DOMAIN shown : shown[r].rt = shown[q].rt

RegsOK(g) == IsRegs(g) /\ AtReset(g) /\ g.clk \in BOOLEAN

PipeInv ==
  /\ ShownOK /\ RegsOK(reg) /\ clocked = TRUE
  /\ notUpdated \subseteq toFlush /\ toFlush \subseteq DOMAIN shown
  /\ \A r \in DOMAIN shown \ notUpdated : Shows(reg, r)
  /\ \A r \in DOMAIN shown \ toFlush : CscLoaded(reg, r)

-----------------------------------------------------------------------------
(* What is written is shown. *)
FormatIsFine(f) ==
  /\ f.yuv \in BOOLEAN /\ f.hsub \in {1, 2} /\ f.vsub \in {1, 2} /\ f.bpp \in {2, 4}
  /\ ~f.yuv => f.hsub = 1 /\ f.vsub = 1

LEMMA Formats == \A name \in DOMAIN MsmFormat : FormatIsFine(MsmFormat[name])
<1>1. \A alpha, dx : \A bpp \in {2, 4} : FormatIsFine(Rgb(alpha, dx, bpp))
  BY DEF FormatIsFine, Rgb
<1>2. \A dx : \A hsub, vsub \in {1, 2} : FormatIsFine(Yuv(hsub, vsub, dx)) BY DEF FormatIsFine, Yuv
<1>3. DOMAIN MsmFormat = {"ARGB8888", "XRGB8888", "RGB565", "ARGB2101010", "NV12", "NV16", "P010"}
  BY DEF MsmFormat
<1>4. /\ MsmFormat["ARGB8888"] = Rgb(TRUE, FALSE, 4) /\ MsmFormat["XRGB8888"] = Rgb(FALSE, FALSE, 4)
      /\ MsmFormat["RGB565"] = Rgb(FALSE, FALSE, 2)
      /\ MsmFormat["ARGB2101010"] = Rgb(TRUE, TRUE, 4)
  BY DEF MsmFormat
<1>5. /\ MsmFormat["NV12"] = Yuv(2, 2, FALSE) /\ MsmFormat["NV16"] = Yuv(2, 1, FALSE)
      /\ MsmFormat["P010"] = Yuv(2, 2, TRUE)
  BY DEF MsmFormat
<1> QED BY <1>1, <1>2, <1>3, <1>4, <1>5

LEMMA YuvOrNot == ASSUME NEW c \in Configurations PROVE Fmt(c).yuv \in BOOLEAN
<1>1. c.name \in DOMAIN MsmFormat BY DEF Configurations
<1> QED BY <1>1, Formats DEF Fmt, FormatIsFine

LEMMA RectWritten ==
  ASSUME NEW n, NEW g, NEW r, NEW c \in Configurations, NEW layout, NEW flags, AtReset(g),
         AddressSet(n, g, r, layout), RectsSet(n, g, r, c), FormatSet(n, g, r, c, flags)
  PROVE  RectShown(n, r, c, layout, flags)
<1>1. Bank(r) \in Banks BY BankCases
<1>2. At(r) \subseteq 0..3 BY DEF At
<1>3. \A i \in At(r) : /\ n.addr[i] = layout.addr[PlaneAt(r, i)]
                       /\ n.stride[i] = layout.pitch[PlaneAt(r, i)] % 65536
  BY <1>2 DEF AddressSet
<1>4. n.src[Bank(r)] = Crop(c) /\ n.out[Bank(r)] = Place(c) BY <1>1 DEF RectsSet, BankSet
<1>5. n.format[Bank(r)] = FormatOf(c, flags) /\ n.opmode[Bank(r)] = OpmodeOf(c, flags)
  BY <1>1 DEF FormatSet, BankSet
<1>6. n.cscOn = (HasCscMode /\ Fmt(c).yuv)
  BY YuvOrNot DEF FormatSet, AtReset
<1> QED BY <1>3, <1>4, <1>5, <1>6 DEF RectShown

LEMMA Scaler3Again ==
  ASSUME NEW f, NEW s, NEW old
  PROVE  LET new == Scaler3Of(f, s, old)
         IN  /\ new = Scaler3Of(f, s, new.cfg)
             /\ new.on = s.enable /\ new.yuv = (s.enable /\ f.yuv) /\ new.dx = f.dx
             /\ new.cfg = IF s.enable THEN s ELSE old
<1> DEFINE new == Scaler3Of(f, s, old)
<1>1. new.cfg = IF s.enable THEN s ELSE old BY DEF Scaler3Of
<1>2. (IF s.enable THEN s ELSE old) = (IF s.enable THEN s ELSE new.cfg) BY <1>1
<1>3. new = Scaler3Of(f, s, new.cfg) BY <1>2 DEF Scaler3Of
<1>4. new.on = s.enable /\ new.yuv = (s.enable /\ f.yuv) /\ new.dx = f.dx BY DEF Scaler3Of
<1> QED BY <1>1, <1>3, <1>4

LEMMA ScalerWritten ==
  ASSUME NEW n, NEW g, NEW r, NEW c, NEW rot90, ScalerSet(n, g, r, c, rot90)
  PROVE  ScalerShown(n, r, c, rot90)
<1>1. ASSUME HasQseed3, r # "RECT_1"
      PROVE  n.scaler3 = Scaler3Of(Fmt(c), Scaler3Cfg(sspp, c, rot90), n.scaler3.cfg)
  <2>1. n.scaler3 = Scaler3Of(Fmt(c), Scaler3Cfg(sspp, c, rot90), g.scaler3.cfg)
    BY <1>1 DEF ScalerSet, Qseed3Set
  <2> QED BY <2>1, Scaler3Again
<1>2. r = "SOLO" => n.pe = PixelExt(c) BY DEF ScalerSet
<1>3. r = "SOLO" /\ Has("SCALER_QSEED2") =>
        /\ n.scaler2 = PackRegs(BuildCfg2(c))
        /\ n.decimation = <<2 ^ BuildCfg2(c).x.decimate - 1, 2 ^ BuildCfg2(c).y.decimate - 1>>
  BY DEF ScalerSet, Qseed2Set
<1> QED BY <1>1, <1>2, <1>3 DEF ScalerShown

LEMMA UpdateShown ==
  ASSUME NEW n, NEW g, RegsOK(g), IsRegs(n), NEW r \in Rects, NEW c \in Configurations,
         UpdateSet(n, g, r, c, PipeRotation(sspp, c))
  PROVE  PlaneShown(n, r, c) /\ RegsOK(n)
<1> DEFINE rot == PipeRotation(sspp, c)
<1>1. RectShown(n, r, c, Layout(c), Flags(rot)) BY RectWritten DEF UpdateSet, RegsOK
<1>2. ScalerShown(n, r, c, rot.angle = 90) BY ScalerWritten DEF UpdateSet
<1>3. KeptShown(n, r, c)
  <2>1. Bank(r) \in Banks /\ UbwcBank(r) \in Banks BY BankCases
  <2>2. Has("CDP") => n.cdp[Bank(r)] = CdpOf(c) BY <2>1 DEF UpdateSet, CdpSet, BankSet
  <2>3. c.ubwc => n.fetchHbb = TRUE BY DEF UpdateSet, FormatSet
  <2>4. c.ubwc => n.ubwc[UbwcBank(r)] = UbwcCtrl(Fmt(c))
    BY <2>1 DEF UpdateSet, FormatSet, BankSet
  <2>5. Has("SMART_DMA_V2") =>
          IF r = "SOLO" THEN n.multirect = [rects |-> {}, time |-> FALSE]
          ELSE r \in n.multirect.rects /\ n.multirect.time = (mode = "TIME_MX")
    <3>1. CASE r = "SOLO" BY <3>1 DEF UpdateSet, MultirectSet
    <3>2. CASE r # "SOLO" /\ Has("SMART_DMA_V2")
      <4>1. n.multirect = [rects |-> g.multirect.rects \cup {r}, time |-> mode = "TIME_MX"]
        BY <3>2 DEF UpdateSet, MultirectSet
      <4> QED BY <3>2, <4>1
    <3> QED BY <3>1, <3>2
  <2>6. c.rt => n.qos.danger = TRUE BY DEF UpdateSet, QosSet
  <2>7. n.qos.creq = QosLut(sspp, c, mode) /\ n.qos.usage = UsageOf(c) BY DEF UpdateSet, QosSet
  <2> QED BY <2>2, <2>3, <2>4, <2>5, <2>6, <2>7 DEF KeptShown
<1>4. AtReset(n)
  <2>1. ~Has("SCALER_QSEED2") => n.scaler2 = Scaler2Off /\ n.decimation = <<0, 0>>
    BY DEF RegsOK, AtReset, UpdateSet, ScalerSet, Qseed2Set
  <2>2. ~HasQseed3 => n.scaler3 = Reset.scaler3
    BY DEF RegsOK, AtReset, UpdateSet, ScalerSet, Qseed3Set
  <2>3. ~Has("CDP") => n.cdp = Reset.cdp BY DEF RegsOK, AtReset, UpdateSet, CdpSet
  <2>4. ~HasCscMode => n.cscOn = FALSE BY DEF RegsOK, AtReset, UpdateSet, FormatSet
  <2>5. ~Has("SMART_DMA_V2") => n.multirect = Reset.multirect
    BY DEF RegsOK, AtReset, UpdateSet, MultirectSet
  <2>6. n.multirect.rects \subseteq {"RECT_0", "RECT_1"}
    <3>1. n.multirect = g.multirect \/ n.multirect.rects = {}
          \/ (r # "SOLO" /\ n.multirect.rects = g.multirect.rects \cup {r})
      BY DEF UpdateSet, MultirectSet
    <3>2. g.multirect.rects \subseteq {"RECT_0", "RECT_1"} BY DEF RegsOK, AtReset
    <3> QED BY <3>1, <3>2 DEF Rects
  <2> QED BY <2>1, <2>2, <2>3, <2>4, <2>5, <2>6 DEF AtReset
<1>5. n.clk \in BOOLEAN BY DEF UpdateSet, RegsOK
<1> QED BY <1>1, <1>2, <1>3, <1>4, <1>5 DEF PlaneShown, RegsOK

LEMMA FillShownAfter ==
  ASSUME NEW n, NEW g, RegsOK(g), IsRegs(n), NEW r \in Rects, NEW c \in Configurations, NEW junk,
         KeptShown(g, r, c), FillSet(n, g, r, c, junk)
  PROVE  FillShown(n, r, c, junk) /\ RegsOK(n)
<1> DEFINE f == FillConfig(c)
<1>1. f \in Configurations /\ f.ubwc = FALSE BY FillFields
<1>2. RectShown(n, r, f, EmptyLayout, {"SOLID_FILL"}) BY <1>1, RectWritten DEF FillSet, RegsOK
<1>3. ScalerShown(n, r, f, junk) BY ScalerWritten DEF FillSet
<1>4. Bank(r) \in Banks /\ UbwcBank(r) \in Banks BY BankCases
<1>5. n.color[Bank(r)] = "white" BY <1>4 DEF FillSet, BankSet
<1> HIDE DEF f
<1>6. n.cdp = g.cdp /\ n.multirect = g.multirect /\ n.qos = g.qos /\ n.clk = g.clk BY DEF FillSet
<1>7. /\ g.fetchHbb = TRUE => n.fetchHbb = TRUE
      /\ n.ubwc[UbwcBank(r)] = g.ubwc[UbwcBank(r)]
  BY <1>1, <1>4 DEF FillSet, FormatSet, BankSet, f
<1>8. KeptShown(n, r, c) BY <1>6, <1>7 DEF KeptShown
<1>9. AtReset(n)
  <2>1. ~Has("SCALER_QSEED2") => n.scaler2 = Scaler2Off /\ n.decimation = <<0, 0>>
    BY DEF RegsOK, AtReset, FillSet, ScalerSet, Qseed2Set
  <2>2. ~HasQseed3 => n.scaler3 = Reset.scaler3
    BY DEF RegsOK, AtReset, FillSet, ScalerSet, Qseed3Set
  <2>3. ~HasCscMode => n.cscOn = FALSE BY DEF RegsOK, AtReset, FillSet, FormatSet
  <2> QED BY <1>6, <2>1, <2>2, <2>3 DEF AtReset, RegsOK
<1> QED BY <1>2, <1>3, <1>5, <1>6, <1>8, <1>9 DEF FillShown, RegsOK, f

(* The other half is left alone. *)
LEMMA RectKept ==
  ASSUME NEW n, NEW g, NEW r, NEW q, {r, q} = {"RECT_0", "RECT_1"}, r # q,
         NEW c \in Configurations, NEW layout, NEW flags, AtReset(g), ~Fmt(c).yuv,
         AddressSet(n, g, r, layout), RectsSet(n, g, r, c), FormatSet(n, g, r, c, flags),
         NEW d, NEW layoutQ, NEW flagsQ, ~Fmt(d).yuv, RectShown(g, q, d, layoutQ, flagsQ)
  PROVE  RectShown(n, q, d, layoutQ, flagsQ)
<1>1. (r = "RECT_0" /\ q = "RECT_1") \/ (r = "RECT_1" /\ q = "RECT_0") OBVIOUS
<1>2. Bank(q) \in Banks /\ Bank(q) # Bank(r) BY <1>1 DEF Bank, Banks
<1>3. \A i \in At(q) : i \in 0..3 /\ i \notin At(r) BY <1>1 DEF At
<1>4. \A i \in At(q) : n.addr[i] = g.addr[i] /\ n.stride[i] = g.stride[i] BY <1>3 DEF AddressSet
<1>5. n.src[Bank(q)] = g.src[Bank(q)] /\ n.out[Bank(q)] = g.out[Bank(q)]
  BY <1>2 DEF RectsSet, BankSet
<1>6. n.format[Bank(q)] = g.format[Bank(q)] /\ n.opmode[Bank(q)] = g.opmode[Bank(q)]
  BY <1>2 DEF FormatSet, BankSet
<1>7. n.cscOn = (HasCscMode /\ Fmt(d).yuv)
  BY YuvOrNot DEF FormatSet, AtReset
<1> QED BY <1>4, <1>5, <1>6, <1>7 DEF RectShown

LEMMA ScalerKept ==
  ASSUME NEW n, NEW g, NEW r, NEW q, {r, q} = {"RECT_0", "RECT_1"}, r # q, NEW c, NEW rot90,
         ScalerSet(n, g, r, c, rot90), NEW d, NEW rotQ, ScalerShown(g, q, d, rotQ)
  PROVE  ScalerShown(n, q, d, rotQ)
<1>1. q # "SOLO" /\ (q # "RECT_1" => r = "RECT_1") OBVIOUS
<1>2. r = "RECT_1" => n.scaler3 = g.scaler3 BY DEF ScalerSet, Qseed3Set
<1> QED BY <1>1, <1>2 DEF ScalerShown

LEMMA KeptByUpdate ==
  ASSUME NEW n, NEW g, NEW r, NEW q, {r, q} = {"RECT_0", "RECT_1"}, r # q, NEW c, NEW rot,
         UpdateSet(n, g, r, c, rot), NEW d, d.rt = c.rt, KeptShown(g, q, d)
  PROVE  KeptShown(n, q, d)
<1>1. (r = "RECT_0" /\ q = "RECT_1") \/ (r = "RECT_1" /\ q = "RECT_0") OBVIOUS
<1>2. Bank(q) \in Banks /\ Bank(q) # Bank(r) BY <1>1 DEF Bank, Banks
<1>3. q # "SOLO" /\ r # "SOLO" BY <1>1
<1>4. Has("CDP") => n.cdp[Bank(q)] = CdpOf(d)
  BY <1>2 DEF KeptShown, UpdateSet, CdpSet, BankSet
<1>5. d.ubwc => n.fetchHbb = TRUE BY DEF KeptShown, UpdateSet, FormatSet
<1>6. d.ubwc /\ sspp.core >= 8 => n.ubwc[UbwcBank(q)] = UbwcCtrl(Fmt(d))
  BY <1>2 DEF KeptShown, UpdateSet, FormatSet, BankSet, UbwcBank
<1>7. ASSUME Has("SMART_DMA_V2")
      PROVE  q \in n.multirect.rects /\ n.multirect.time = (mode = "TIME_MX")
  <2>1. n.multirect = [rects |-> g.multirect.rects \cup {r}, time |-> mode = "TIME_MX"]
    BY <1>3, <1>7 DEF UpdateSet, MultirectSet
  <2>2. q \in g.multirect.rects BY <1>3, <1>7 DEF KeptShown
  <2> QED BY <2>1, <2>2
<1>8. d.rt => n.qos.danger = TRUE BY DEF UpdateSet, QosSet
<1> QED BY <1>3, <1>4, <1>5, <1>6, <1>7, <1>8 DEF KeptShown

LEMMA KeptByFill ==
  ASSUME NEW n, NEW g, NEW r, NEW q, {r, q} = {"RECT_0", "RECT_1"}, r # q,
         NEW c \in Configurations, NEW junk, FillSet(n, g, r, c, junk), NEW d, KeptShown(g, q, d)
  PROVE  KeptShown(n, q, d)
<1>1. (r = "RECT_0" /\ q = "RECT_1") \/ (r = "RECT_1" /\ q = "RECT_0") OBVIOUS
<1>2. Bank(q) \in Banks /\ Bank(q) # Bank(r) /\ q # "SOLO" BY <1>1 DEF Bank, Banks
<1>3. n.cdp = g.cdp /\ n.multirect = g.multirect /\ n.qos = g.qos BY DEF FillSet
<1>4. d.ubwc => n.fetchHbb = TRUE BY DEF KeptShown, FillSet, FormatSet
<1>5. d.ubwc /\ sspp.core >= 8 => n.ubwc[UbwcBank(q)] = UbwcCtrl(Fmt(d))
  BY <1>2 DEF KeptShown, FillSet, FormatSet, BankSet, UbwcBank
<1> QED BY <1>2, <1>3, <1>4, <1>5 DEF KeptShown

-----------------------------------------------------------------------------
(* One half is written, both are shown. *)
LEMMA TwoHalves ==
  ASSUME ShownOK, NEW r \in DOMAIN shown, NEW q \in DOMAIN shown, r # q
  PROVE  /\ {r, q} = {"RECT_0", "RECT_1"}
         /\ shown[r] \in Configurations /\ shown[q] \in Configurations
         /\ Halved(shown[r]) /\ Halved(shown[q]) /\ shown[r].rt = shown[q].rt
<1>1. shown # <<>> /\ DOMAIN shown # {"SOLO"}
  <2>1. DOMAIN <<>> = {} BY SMT
  <2> QED BY <2>1
<1>2. DOMAIN shown = {"RECT_0", "RECT_1"} BY <1>1 DEF ShownOK
<1> QED BY <1>2 DEF ShownOK

LEMMA UpdateKeeps ==
  ASSUME ShownOK, NEW r \in DOMAIN shown, NEW q \in DOMAIN shown, r # q, NEW g, RegsOK(g), NEW n,
         UpdateSet(n, g, r, shown[r], PipeRotation(sspp, shown[r]))
  PROVE  /\ PlaneShown(g, q, shown[q]) => PlaneShown(n, q, shown[q])
         /\ \A junk : FillShown(g, q, shown[q], junk) => FillShown(n, q, shown[q], junk)
<1> DEFINE c   == shown[r]
           d   == shown[q]
           rot == PipeRotation(sspp, c)
<1>1. /\ {r, q} = {"RECT_0", "RECT_1"} /\ c \in Configurations /\ d \in Configurations
      /\ ~Fmt(c).yuv /\ ~Fmt(d).yuv /\ d.rt = c.rt
  BY TwoHalves DEF Halved
<1>2. FillConfig(d).name = "ARGB8888" BY <1>1, FillFields
<1>3. ~Fmt(FillConfig(d)).yuv BY <1>2 DEF Fmt, MsmFormat, Rgb
<1> HIDE DEF c, d, rot
<1>4. /\ AddressSet(n, g, r, Layout(c)) /\ RectsSet(n, g, r, c)
      /\ ScalerSet(n, g, r, c, rot.angle = 90) /\ FormatSet(n, g, r, c, Flags(rot))
      /\ n.color = g.color /\ UpdateSet(n, g, r, c, rot) /\ AtReset(g)
  BY DEF UpdateSet, RegsOK, c, rot
<1>5. ASSUME NEW e, ~Fmt(e).yuv, NEW layout, NEW flags, RectShown(g, q, e, layout, flags)
      PROVE  RectShown(n, q, e, layout, flags)
  BY <1>1, <1>4, <1>5, RectKept
<1>6. ASSUME NEW e, NEW rot90, ScalerShown(g, q, e, rot90) PROVE ScalerShown(n, q, e, rot90)
  BY <1>1, <1>4, <1>6, ScalerKept
<1>7. KeptShown(g, q, d) => KeptShown(n, q, d) BY <1>1, <1>4, KeptByUpdate
<1>8. PlaneShown(g, q, d) => PlaneShown(n, q, d) BY <1>1, <1>5, <1>6, <1>7 DEF PlaneShown
<1>9. ASSUME NEW junk, FillShown(g, q, d, junk) PROVE FillShown(n, q, d, junk)
  BY <1>3, <1>4, <1>5, <1>6, <1>7, <1>9 DEF FillShown
<1> QED BY <1>8, <1>9 DEF d

LEMMA FillKeeps ==
  ASSUME ShownOK, NEW r \in DOMAIN shown, NEW q \in DOMAIN shown, r # q, NEW g, RegsOK(g), NEW n,
         NEW rot90, FillSet(n, g, r, shown[r], rot90)
  PROVE  /\ PlaneShown(g, q, shown[q]) => PlaneShown(n, q, shown[q])
         /\ \A junk : FillShown(g, q, shown[q], junk) => FillShown(n, q, shown[q], junk)
<1> DEFINE c == shown[r]
           d == shown[q]
           f == FillConfig(c)
<1>1. /\ {r, q} = {"RECT_0", "RECT_1"} /\ c \in Configurations /\ d \in Configurations
      /\ ~Fmt(d).yuv
  BY TwoHalves DEF Halved
<1>2. FillConfig(d).name = "ARGB8888" /\ f.name = "ARGB8888" /\ f \in Configurations
  BY <1>1, FillFields
<1>3. ~Fmt(FillConfig(d)).yuv /\ ~Fmt(f).yuv BY <1>2 DEF Fmt, MsmFormat, Rgb
<1> HIDE DEF f
<1>4. /\ AddressSet(n, g, r, EmptyLayout) /\ RectsSet(n, g, r, f)
      /\ ScalerSet(n, g, r, f, rot90) /\ FormatSet(n, g, r, f, {"SOLID_FILL"})
      /\ BankSet(n.color, g.color, Bank(r), "white") /\ FillSet(n, g, r, c, rot90) /\ AtReset(g)
  BY DEF FillSet, RegsOK, f
<1> HIDE DEF c, d
<1>5. ASSUME NEW e, ~Fmt(e).yuv, NEW layout, NEW flags, RectShown(g, q, e, layout, flags)
      PROVE  RectShown(n, q, e, layout, flags)
  BY <1>1, <1>2, <1>3, <1>4, <1>5, RectKept
<1>6. ASSUME NEW e, NEW rotQ, ScalerShown(g, q, e, rotQ) PROVE ScalerShown(n, q, e, rotQ)
  BY <1>1, <1>4, <1>6, ScalerKept
<1>7. KeptShown(g, q, d) => KeptShown(n, q, d) BY <1>1, <1>4, KeptByFill
<1>8. PlaneShown(g, q, d) => PlaneShown(n, q, d) BY <1>1, <1>5, <1>6, <1>7 DEF PlaneShown
<1>9. n.color[Bank(q)] = g.color[Bank(q)]
  <2>1. Bank(q) \in Banks /\ Bank(q) # Bank(r) BY <1>1 DEF Bank, Banks
  <2> QED BY <1>4, <2>1 DEF BankSet
<1>10. ASSUME NEW junk, FillShown(g, q, d, junk) PROVE FillShown(n, q, d, junk)
  BY <1>3, <1>5, <1>6, <1>7, <1>9, <1>10 DEF FillShown
<1> QED BY <1>8, <1>10 DEF d

LEMMA FlushKeeps ==
  ASSUME NEW g, RegsOK(g), NEW n, IsRegs(n), Others(n, g, {"csc"})
  PROVE  /\ RegsOK(n)
         /\ \A r, c : PlaneShown(g, r, c) => PlaneShown(n, r, c)
         /\ \A r, c, junk : FillShown(g, r, c, junk) => FillShown(n, r, c, junk)
<1>1. \A k \in Fields \ {"csc"} : n[k] = g[k] BY DEF Others
<1>2. /\ n.addr = g.addr /\ n.stride = g.stride /\ n.src = g.src /\ n.out = g.out
      /\ n.format = g.format /\ n.opmode = g.opmode /\ n.cscOn = g.cscOn
  BY <1>1 DEF Fields
<1>3. n.scaler3 = g.scaler3 /\ n.pe = g.pe /\ n.scaler2 = g.scaler2 /\ n.decimation = g.decimation
  BY <1>1 DEF Fields
<1>4. /\ n.cdp = g.cdp /\ n.fetchHbb = g.fetchHbb /\ n.ubwc = g.ubwc
      /\ n.multirect = g.multirect /\ n.qos = g.qos /\ n.color = g.color /\ n.clk = g.clk
  BY <1>1 DEF Fields
<1>5. \A r, c, layout, flags : RectShown(g, r, c, layout, flags) => RectShown(n, r, c, layout, flags)
  BY <1>2 DEF RectShown
<1>6. \A r, c, rot90 : ScalerShown(g, r, c, rot90) => ScalerShown(n, r, c, rot90)
  BY <1>3 DEF ScalerShown
<1>7. \A r, c : KeptShown(g, r, c) => KeptShown(n, r, c) BY <1>4 DEF KeptShown
<1>8. RegsOK(n) BY <1>2, <1>3, <1>4 DEF RegsOK, AtReset
<1>9. \A r, c : PlaneShown(g, r, c) => PlaneShown(n, r, c) BY <1>5, <1>6, <1>7 DEF PlaneShown
<1>10. \A r, c, junk : FillShown(g, r, c, junk) => FillShown(n, r, c, junk)
  BY <1>4, <1>5, <1>6, <1>7 DEF FillShown
<1> QED BY <1>8, <1>9, <1>10

-----------------------------------------------------------------------------
(* The steps *)
LEMMA RegsCarried == ASSUME sspp' = sspp, NEW n, RegsOK(n) PROVE RegsOK(n)'
BY DEF RegsOK, AtReset, IsRegs, HasQseed3, HasCscMode, Has

LEMMA AcceptedCarried == ASSUME sspp' = sspp, NEW c, Accepted(c) PROVE Accepted(c)'
BY DEF Accepted

LEMMA HalvedCarried == ASSUME sspp' = sspp, NEW c, Halved(c) PROVE Halved(c)'
BY DEF Halved, Has

LEMMA CscCarried == ASSUME sspp' = sspp PROVE HasCsc' = HasCsc /\ CscOf' = CscOf
BY DEF HasCsc, CscOf, Has

(* A configuration that was shown still may be. *)
LEMMA ConfigCarried ==
  ASSUME sspp' = sspp, NEW r, NEW c, Accepted(c), r # "SOLO" => Halved(c)
  PROVE  Accepted(c)' /\ (r # "SOLO" => Halved(c)')
<1>1. Accepted(c)' BY AcceptedCarried
<1>2. r # "SOLO" => Halved(c)' BY HalvedCarried
<1> QED BY <1>1, <1>2

LEMMA CarriedOfMode ==
  ASSUME sspp' = sspp, mode' = mode, NEW n, NEW r, NEW c
  PROVE  /\ PlaneShown(n, r, c) => PlaneShown(n, r, c)'
         /\ \A junk : FillShown(n, r, c, junk) => FillShown(n, r, c, junk)'
<1>1. ASSUME NEW d, NEW layout, NEW flags, RectShown(n, r, d, layout, flags)
      PROVE  RectShown(n, r, d, layout, flags)'
  BY <1>1 DEF RectShown, HasCscMode, Has
<1>2. ASSUME NEW d, NEW rot90, ScalerShown(n, r, d, rot90) PROVE ScalerShown(n, r, d, rot90)'
  BY <1>2 DEF ScalerShown, HasQseed3, PixelExt, Has
<1>3. KeptShown(n, r, c) => KeptShown(n, r, c)' BY DEF KeptShown, UbwcBank, UbwcCtrl, Has
<1>4. PlaneShown(n, r, c) => PlaneShown(n, r, c)' BY <1>1, <1>2, <1>3 DEF PlaneShown
<1>5. ASSUME NEW junk, FillShown(n, r, c, junk) PROVE FillShown(n, r, c, junk)'
  BY <1>1, <1>2, <1>3, <1>5 DEF FillShown
<1> QED BY <1>4, <1>5

LEMMA ShowsCarried ==
  ASSUME sspp' = sspp, mode' = mode, shown' = shown, NEW g, NEW q, Shows(g, q),
         q \in DOMAIN filled' <=> q \in DOMAIN filled,
         q \in DOMAIN filled => filled'[q] = filled[q]
  PROVE  Shows(g, q)'
<1>1. CASE q \in DOMAIN filled
  <2>1. PICK c, junk : c = shown[q] /\ junk = filled[q] OBVIOUS
  <2>2. FillShown(g, q, c, junk) BY <1>1, <2>1 DEF Shows
  <2>3. FillShown(g, q, c, junk)' BY <2>2, CarriedOfMode
  <2>4. c = shown'[q] /\ junk = filled'[q] /\ q \in DOMAIN filled' BY <1>1, <2>1
  <2> QED BY <2>3, <2>4 DEF Shows
<1>2. CASE q \notin DOMAIN filled
  <2>1. PICK c : c = shown[q] OBVIOUS
  <2>2. PlaneShown(g, q, c) BY <1>2, <2>1 DEF Shows
  <2>3. PlaneShown(g, q, c)' BY <2>2, CarriedOfMode
  <2>4. c = shown'[q] /\ q \notin DOMAIN filled' BY <1>2, <2>1
  <2> QED BY <2>3, <2>4 DEF Shows
<1> QED BY <1>1, <1>2

LEMMA SameShown == ASSUME ShownOK, sspp' = sspp, shown' = shown PROVE ShownOK'
<1>1. ASSUME NEW q \in DOMAIN shown
      PROVE  Accepted(shown[q])' /\ (q # "SOLO" => Halved(shown[q])')
  <2>1. PICK d : d = shown[q] OBVIOUS
  <2>2. Accepted(d) /\ (q # "SOLO" => Halved(d)) BY <2>1 DEF ShownOK
  <2>3. Accepted(d)' /\ (q # "SOLO" => Halved(d)') BY <2>2, ConfigCarried
  <2> QED BY <2>1, <2>3
<1> QED BY <1>1 DEF ShownOK

LEMMA SwapStep ==
  ASSUME PipeInv, Idle, NEW new, NEW how, SwapState(new, how),
         DOMAIN new = {"SOLO"} \/ DOMAIN new = {"RECT_0", "RECT_1"},
         \A r \in DOMAIN new : /\ new[r] \in Configurations /\ Accepted(new[r])
                               /\ r # "SOLO" => Halved(new[r]),
         \A r, q \in DOMAIN new : new[r].rt = new[q].rt
  PROVE  PipeInv'
<1>1. /\ shown' = new /\ notUpdated' = DOMAIN new /\ toFlush' = DOMAIN new
      /\ sspp' = sspp /\ reg' = reg /\ clocked' = clocked
  BY DEF SwapState
<1>2. ShownOK'
  <2>1. ASSUME NEW r \in DOMAIN new
        PROVE  Accepted(new[r])' /\ (r # "SOLO" => Halved(new[r])')
    <3>1. PICK d : d = new[r] OBVIOUS
    <3>2. Accepted(d) /\ (r # "SOLO" => Halved(d)) BY <3>1
    <3>3. Accepted(d)' /\ (r # "SOLO" => Halved(d)') BY <1>1, <3>2, ConfigCarried
    <3> QED BY <3>1, <3>3
  <2> QED BY <1>1, <2>1 DEF ShownOK
<1>3. RegsOK(reg)'
  <2>1. PICK g : g = reg OBVIOUS
  <2>2. RegsOK(g)' BY <1>1, <2>1, RegsCarried DEF PipeInv
  <2> QED BY <1>1, <2>1, <2>2
<1> QED BY <1>1, <1>2, <1>3 DEF PipeInv

LEMMA CheckSoloStep == ASSUME PipeInv, CheckSolo PROVE PipeInv'
<1>1. PICK c \in Solos : Accepted(c) /\ SwapState(Alone(c), "NONE") BY DEF CheckSolo
<1>2. c \in Configurations BY PipeAssumption
<1> DEFINE new == Alone(c)
<1>3. DOMAIN new = {"SOLO"} /\ \A r \in DOMAIN new : new[r] = c BY DEF Alone
<1> HIDE DEF new
<1>4. Idle /\ SwapState(new, "NONE") BY <1>1 DEF CheckSolo, new
<1> QED BY <1>1, <1>2, <1>3, <1>4, SwapStep

LEMMA TwoStep ==
  ASSUME PipeInv, Idle, NEW a \in Halves, NEW b \in Halves, NEW how, SwapState(Two(a, b), how),
         a.rt = b.rt, NEW n, NEW m,
         Accepted(a) /\ FitsMultirect(a, n), Accepted(b) /\ FitsMultirect(b, m)
  PROVE  PipeInv'
<1>1. a \in Configurations /\ b \in Configurations BY PipeAssumption
<1>2. Halved(a) /\ Halved(b) BY DEF FitsMultirect, Halved
<1> DEFINE new == Two(a, b)
<1>3. DOMAIN new = {"RECT_0", "RECT_1"} /\ \A r \in DOMAIN new : new[r] = a \/ new[r] = b
  BY DEF Two
<1> HIDE DEF new
<1>4. SwapState(new, how) BY DEF new
<1>5. \A r \in DOMAIN new : /\ new[r] \in Configurations /\ Accepted(new[r])
                            /\ r # "SOLO" => Halved(new[r])
  BY <1>1, <1>2, <1>3
<1>6. \A r, q \in DOMAIN new : new[r].rt = new[q].rt BY <1>3
<1> QED BY <1>3, <1>4, <1>5, <1>6, SwapStep

LEMMA CheckSplitStep == ASSUME PipeInv, CheckSplit PROVE PipeInv'
<1>1. Idle BY DEF CheckSplit
<1>2. PICK a \in Halves, b \in Halves :
        /\ b = [a EXCEPT !.x = a.x + a.w, !.dx = a.dx + a.dw]
        /\ \A c \in {a, b} : Accepted(c) /\ FitsMultirect(c, EarlierAngle) /\ FitsParallel(c)
        /\ SwapState(Two(a, b), "PARALLEL")
  BY Zenon DEF CheckSplit
<1>3. a.rt = b.rt
  <2>1. a \in Configurations BY PipeAssumption
  <2> QED BY <1>2, <2>1 DEF Configurations
<1>4. Accepted(a) /\ FitsMultirect(a, EarlierAngle) /\ Accepted(b) /\ FitsMultirect(b, EarlierAngle)
  BY <1>2
<1> QED BY <1>1, <1>2, <1>3, <1>4, TwoStep

LEMMA CheckSharedStep == ASSUME PipeInv, CheckShared PROVE PipeInv'
<1>1. Idle BY DEF CheckShared
<1>2. PICK a \in Halves, b \in Halves, how \in {"PARALLEL", "TIME_MX"} :
        /\ a.rt = b.rt /\ \A c \in {a, b} : Accepted(c) /\ FitsMultirect(c, 0)
        /\ SwapState(Two(a, b), how)
  BY DEF CheckShared
<1>3. Accepted(a) /\ FitsMultirect(a, 0) /\ Accepted(b) /\ FitsMultirect(b, 0) BY <1>2
<1> QED BY <1>1, <1>2, <1>3, TwoStep

(* What Accepted means for the scaler. *)
LEMMA AcceptedBuilds == ASSUME NEW c, Accepted(c) PROVE Has("SCALER_QSEED2") => CanBuild2(c)
BY DEF Accepted, CheckPipe, Has

LEMMA UpdateOfInv == ASSUME PipeInv, NEW r, Update(r) PROVE PipeInv'
<1> DEFINE c   == shown[r]
           rot == PipeRotation(sspp, c)
<1>1. PICK junk, remap :
        LET s == UpdatePipe([reg |-> reg, clocked |-> clocked], r, c, junk, remap)
        IN  reg' = s.reg /\ clocked' = s.clocked
  BY DEF Update
<1>2. /\ r \in notUpdated /\ notUpdated' = notUpdated \ {r}
      /\ filled' = Restrict(filled, DOMAIN filled \ {r})
      /\ sspp' = sspp /\ shown' = shown /\ mode' = mode /\ toFlush' = toFlush
  BY DEF Update
<1>3. r \in DOMAIN shown /\ r \in toFlush BY <1>2 DEF PipeInv
<1>4. r \in Rects /\ c \in Configurations /\ Accepted(c)
  <2>1. DOMAIN <<>> = {} BY SMT
  <2> QED BY <1>3, <2>1 DEF PipeInv, ShownOK, Rects
<1>5. PICK t : t = UpdatePipe([reg |-> reg, clocked |-> TRUE], r, c, junk, remap) OBVIOUS
<1>6. reg' = t.reg /\ clocked' = t.clocked BY <1>1, <1>5 DEF PipeInv
<1>7. RegsOK(reg) BY DEF PipeInv
<1>8. /\ t.clocked = TRUE /\ IsRegs(t.reg)
      /\ UpdateSet(t.reg, reg, r, c, rot)
  <2>1. Has("SCALER_QSEED2") => CanBuild2(c) BY <1>4, AcceptedBuilds
  <2>2. IsRegs(reg) /\ reg.clk \in BOOLEAN BY <1>7 DEF RegsOK
  <2>3. ASSUME NEW g, g = reg
        PROVE  /\ t.clocked = TRUE /\ IsRegs(t.reg)
               /\ UpdateSet(t.reg, g, r, c, rot)
    <3>1. IsRegs(g) /\ g.clk \in BOOLEAN BY <2>2, <2>3
    <3>2. t = UpdatePipe([reg |-> g, clocked |-> TRUE], r, c, junk, remap) BY <1>5, <2>3
    <3> HIDE DEF c
    <3> QED BY <1>4, <2>1, <3>1, <3>2, UpdateStep DEF rot
  <2> QED BY <2>3
<1>9. PICK n : n = t.reg OBVIOUS
<1>10. PlaneShown(n, r, c) /\ RegsOK(n) BY <1>4, <1>7, <1>8, <1>9, UpdateShown
<1>11. n = reg' /\ clocked' = TRUE BY <1>6, <1>8, <1>9
<1>12. DOMAIN filled' = DOMAIN filled \ {r} /\ \A q \in DOMAIN filled' : filled'[q] = filled[q]
  BY <1>2 DEF Restrict
<1>13. ASSUME NEW q \in DOMAIN shown \ (notUpdated \ {r}) PROVE Shows(reg, q)'
  <2>1. CASE q = r
    <3>1. PlaneShown(n, r, c)' BY <1>2, <1>10, CarriedOfMode
    <3> QED BY <1>2, <1>11, <1>12, <2>1, <3>1 DEF Shows
  <2>2. CASE q # r
    <3>1. Shows(reg, q) BY <2>2 DEF PipeInv
    <3>2. /\ PlaneShown(reg, q, shown[q]) => PlaneShown(n, q, shown[q])
          /\ \A a : FillShown(reg, q, shown[q], a) => FillShown(n, q, shown[q], a)
      BY <1>3, <1>7, <1>8, <1>9, <2>2, UpdateKeeps DEF PipeInv
    <3>3. Shows(n, q) BY <3>1, <3>2 DEF Shows
    <3>4. Shows(n, q)' BY <1>2, <1>12, <2>2, <3>3, ShowsCarried
    <3> QED BY <1>11, <3>4 DEF Shows
  <2> QED BY <2>1, <2>2
<1>14. n.csc = reg.csc BY <1>8, <1>9 DEF UpdateSet
<1>15. ASSUME NEW q \in DOMAIN shown \ toFlush PROVE CscLoaded(reg, q)'
  <2>1. CscLoaded(reg, q) /\ q # r BY <1>3 DEF PipeInv
  <2>2. HasCsc' = HasCsc /\ CscOf' = CscOf BY <1>2, CscCarried
  <2> QED BY <1>2, <1>11, <1>12, <1>14, <2>1, <2>2 DEF CscLoaded
<1>16. RegsOK(reg)'
  <2>1. RegsOK(n)' BY <1>2, <1>10, RegsCarried
  <2> QED BY <1>11, <2>1
<1>17. ShownOK' BY <1>2, SameShown DEF PipeInv
<1> QED BY <1>2, <1>11, <1>13, <1>15, <1>16, <1>17 DEF PipeInv

LEMMA FlushOfInv == ASSUME PipeInv, NEW r, Flush(r) PROVE PipeInv'
<1> DEFINE c == shown[r]
<1>1. /\ notUpdated = {} /\ r \in toFlush /\ toFlush' = toFlush \ {r}
      /\ sspp' = sspp /\ shown' = shown /\ mode' = mode /\ notUpdated' = notUpdated
      /\ clocked' = clocked
  BY DEF Flush
<1>2. r \in DOMAIN shown BY <1>1 DEF PipeInv
<1>3. r \in Rects /\ c \in Configurations /\ Accepted(c)
  <2>1. DOMAIN <<>> = {} BY SMT
  <2> QED BY <1>2, <2>1 DEF PipeInv, ShownOK, Rects
<1>4. RegsOK(reg) /\ ShownOK BY DEF PipeInv
<1>5. \A q \in DOMAIN shown : Shows(reg, q) BY <1>1 DEF PipeInv
<1>6. ShownOK' BY <1>1, <1>4, SameShown
<1>7. CASE r \in error
  <2>1. PICK junk : /\ reg' = ColorFill(reg, r, c, junk)
                    /\ filled' = [q \in DOMAIN filled \cup {r} |-> IF q = r THEN junk ELSE filled[q]]
    BY <1>7 DEF Flush
  <2>2. PICK n : n = reg' OBVIOUS
  <2>3. IsRegs(n) /\ FillSet(n, reg, r, c, junk) BY <1>3, <1>4, <2>1, <2>2, FillStep DEF RegsOK
  <2>4. KeptShown(reg, r, c) BY <1>2, <1>5 DEF Shows, PlaneShown, FillShown
  <2>5. FillShown(n, r, c, junk) /\ RegsOK(n) BY <1>3, <1>4, <2>3, <2>4, FillShownAfter
  <2>6. /\ DOMAIN filled' = DOMAIN filled \cup {r} /\ filled'[r] = junk
        /\ \A q \in DOMAIN filled \ {r} : filled'[q] = filled[q]
    BY <2>1
  <2>7. ASSUME NEW q \in DOMAIN shown PROVE Shows(n, q)'
    <3>1. CASE q = r
      <4>1. PICK d : d = c OBVIOUS
      <4>2. FillShown(n, r, d, junk)' BY <1>1, <2>5, <4>1, CarriedOfMode
      <4>3. d = shown'[r] BY <1>1, <4>1
      <4> QED BY <2>6, <3>1, <4>2, <4>3 DEF Shows
    <3>2. CASE q # r
      <4>1. Shows(reg, q) BY <1>5
      <4>2. /\ PlaneShown(reg, q, shown[q]) => PlaneShown(n, q, shown[q])
            /\ \A a : FillShown(reg, q, shown[q], a) => FillShown(n, q, shown[q], a)
        BY <1>2, <1>4, <2>3, <3>2, FillKeeps
      <4>3. Shows(n, q) BY <4>1, <4>2 DEF Shows
      <4> QED BY <1>1, <2>6, <3>2, <4>3, ShowsCarried
    <3> QED BY <3>1, <3>2
  <2>8. ASSUME NEW q \in DOMAIN shown, q \notin toFlush' PROVE CscLoaded(n, q)'
    <3>1. CASE q = r BY <2>6, <3>1 DEF CscLoaded
    <3>2. CASE q # r
      <4>1. CscLoaded(reg, q) BY <1>1, <2>8, <3>2 DEF PipeInv
      <4>2. n.csc = reg.csc BY <2>3 DEF FillSet
      <4>3. HasCsc' = HasCsc /\ CscOf' = CscOf BY <1>1, CscCarried
      <4> QED BY <1>1, <2>6, <3>2, <4>1, <4>2, <4>3 DEF CscLoaded
    <3> QED BY <3>1, <3>2
  <2>9. RegsOK(n)' BY <1>1, <2>5, RegsCarried
  <2> QED BY <1>1, <1>6, <2>2, <2>7, <2>8, <2>9 DEF PipeInv
<1>8. CASE r \notin error
  <2>1. reg' = FlushCsc(reg, c) /\ filled' = filled BY <1>8 DEF Flush
  <2>2. PICK n : n = reg' OBVIOUS
  <2>3. /\ IsRegs(n) /\ Others(n, reg, {"csc"})
        /\ n.csc = IF HasCsc /\ Fmt(c).yuv THEN CscOf ELSE reg.csc
    BY <1>4, <2>1, <2>2, FlushStep DEF RegsOK
  <2>4. /\ RegsOK(n)
        /\ \A q, d : PlaneShown(reg, q, d) => PlaneShown(n, q, d)
        /\ \A q, d, junk : FillShown(reg, q, d, junk) => FillShown(n, q, d, junk)
    BY <1>4, <2>3, FlushKeeps
  <2>5. ASSUME NEW q \in DOMAIN shown PROVE Shows(n, q)'
    <3>1. Shows(n, q) BY <1>5, <2>4 DEF Shows
    <3> QED BY <1>1, <2>1, <3>1, ShowsCarried
  <2>6. ASSUME NEW q \in DOMAIN shown, q \notin toFlush' PROVE CscLoaded(n, q)'
    <3>1. q # r => CscLoaded(reg, q) BY <1>1, <2>6 DEF PipeInv
    <3>2. CscLoaded(n, q) BY <2>3, <3>1 DEF CscLoaded
    <3>3. HasCsc' = HasCsc /\ CscOf' = CscOf BY <1>1, CscCarried
    <3> QED BY <1>1, <2>1, <3>2, <3>3 DEF CscLoaded
  <2>7. RegsOK(n)' BY <1>1, <2>4, RegsCarried
  <2> QED BY <1>1, <1>6, <2>2, <2>5, <2>6, <2>7 DEF PipeInv
<1> QED BY <1>7, <1>8

(* Steps that leave the registers alone *)
LEMMA QuietStep ==
  ASSUME PipeInv, UNCHANGED <<sspp, shown, mode, filled, notUpdated, reg, clocked>>,
         toFlush \subseteq toFlush', toFlush' \subseteq DOMAIN shown
  PROVE  PipeInv'
<1>1. PICK g : g = reg OBVIOUS
<1>2. ASSUME NEW q \in DOMAIN shown \ notUpdated PROVE Shows(g, q)'
  <2>1. Shows(g, q) BY <1>1 DEF PipeInv
  <2> QED BY <2>1, ShowsCarried
<1>3. ASSUME NEW q \in DOMAIN shown \ toFlush' PROVE CscLoaded(g, q)'
  <2>1. CscLoaded(g, q) BY <1>1 DEF PipeInv
  <2>2. HasCsc' = HasCsc /\ CscOf' = CscOf BY CscCarried
  <2> QED BY <2>1, <2>2 DEF CscLoaded
<1>4. RegsOK(g)' BY <1>1, RegsCarried DEF PipeInv
<1>5. ShownOK' BY SameShown DEF PipeInv
<1> QED BY <1>1, <1>2, <1>3, <1>4, <1>5 DEF PipeInv

LEMMA HideStep == ASSUME PipeInv, Hide PROVE PipeInv'
<1>1. PICK n : n = reg' OBVIOUS
<1>2. n = WriteMultirect(reg, "SOLO") \/ n = reg BY <1>1 DEF Hide
<1>3. RegsOK(n)
  <2>1. CASE n = reg BY <2>1 DEF PipeInv
  <2>2. CASE n = WriteMultirect(reg, "SOLO")
    <3>1. IsRegs(n) /\ Others(n, reg, {"multirect"}) /\ MultirectSet(n, reg, "SOLO")
      BY <2>2, MultirectStep DEF PipeInv, RegsOK
    <3>2. /\ n.scaler2 = reg.scaler2 /\ n.decimation = reg.decimation /\ n.scaler3 = reg.scaler3
          /\ n.cdp = reg.cdp /\ n.cscOn = reg.cscOn /\ n.clk = reg.clk
      BY <3>1 DEF Others, Fields
    <3>3. n.multirect = IF Has("SMART_DMA_V2") THEN [rects |-> {}, time |-> FALSE] ELSE reg.multirect
      BY <3>1 DEF MultirectSet
    <3>4. n.multirect.rects \subseteq {"RECT_0", "RECT_1"}
      <4>1. [rects |-> {}, time |-> FALSE].rects = {} OBVIOUS
      <4> QED BY <3>3, <4>1 DEF PipeInv, RegsOK, AtReset
    <3> QED BY <3>1, <3>2, <3>3, <3>4 DEF PipeInv, RegsOK, AtReset
  <2> QED BY <1>2, <2>1, <2>2
<1>4. /\ shown' = <<>> /\ notUpdated' = {} /\ toFlush' = {} /\ sspp' = sspp /\ clocked' = TRUE
  BY DEF Hide, Idle, PipeInv
<1>5. RegsOK(n)' BY <1>3, <1>4, RegsCarried
<1>6. DOMAIN shown' = {}
  <2>1. DOMAIN <<>> = {} BY SMT
  <2> QED BY <1>4, <2>1
<1>7. ShownOK' BY <1>4, <1>6 DEF ShownOK
<1> QED BY <1>1, <1>4, <1>5, <1>6, <1>7 DEF PipeInv

LEMMA InvStep == PipeInv /\ [PipeNext]_pipeVars => PipeInv'
<1> SUFFICES ASSUME PipeInv, [PipeNext]_pipeVars PROVE PipeInv'
  OBVIOUS
<1>1. CASE CheckSolo BY <1>1, CheckSoloStep
<1>2. CASE CheckSplit BY <1>2, CheckSplitStep
<1>3. CASE CheckShared BY <1>3, CheckSharedStep
<1>4. ASSUME NEW r, Update(r) PROVE PipeInv' BY <1>4, UpdateOfInv
<1>5. CASE SetError
  <2>1. toFlush' = toFlush /\ toFlush \subseteq DOMAIN shown BY <1>5 DEF SetError, PipeInv
  <2> QED BY <1>5, <2>1, QuietStep DEF SetError
<1>6. ASSUME NEW r, Flush(r) PROVE PipeInv' BY <1>6, FlushOfInv
<1>7. CASE OtherCommit
  <2>1. toFlush' = DOMAIN shown /\ toFlush \subseteq DOMAIN shown BY <1>7 DEF OtherCommit, PipeInv
  <2> QED BY <1>7, <2>1, QuietStep DEF OtherCommit
<1>8. CASE Hide BY <1>8, HideStep
<1>9. CASE UNCHANGED pipeVars
  <2>1. toFlush' = toFlush /\ toFlush \subseteq DOMAIN shown BY <1>9 DEF pipeVars, PipeInv
  <2> QED BY <1>9, <2>1, QuietStep DEF pipeVars
<1> QED BY <1>1, <1>2, <1>3, <1>4, <1>5, <1>6, <1>7, <1>8, <1>9 DEF PipeNext

LEMMA ResetIsOK ==
  /\ RegsOK(Reset)
  /\ \A clk \in BOOLEAN : RegsOK([Reset EXCEPT !.clk = clk])
<1>1. IsRegs(Reset) /\ AtReset(Reset) /\ Reset.clk = FALSE
  <2>1. DOMAIN Reset = Fields BY DEF Reset, Fields
  <2>2. IsRegs(Reset) BY <2>1 DEF Reset, IsRegs
  <2>3. AtReset(Reset) BY DEF Reset, AtReset
  <2> QED BY <2>2, <2>3 DEF Reset
<1>2. PICK g : g = Reset OBVIOUS
<1>3. ASSUME NEW clk, clk = TRUE \/ clk = FALSE PROVE RegsOK([Reset EXCEPT !.clk = clk])
  <2>1. PICK n : n = [g EXCEPT !.clk = clk] OBVIOUS
  <2>2. DOMAIN n = Fields /\ n.clk = clk BY <1>1, <1>2, <2>1 DEF IsRegs, Fields
  <2>3. Others(n, g, {"clk"}) BY <1>1, <1>2, <2>1 DEF IsRegs, Fields, Others
  <2>4. IsRegs(n) BY <1>1, <1>2, <2>2, <2>3 DEF IsRegs, Others, Fields
  <2>5. AtReset(n) BY <1>1, <1>2, <2>3 DEF AtReset, Others, Fields
  <2>6. n.clk \in BOOLEAN BY <1>3, <2>2
  <2> QED BY <1>2, <2>1, <2>4, <2>5, <2>6 DEF RegsOK
<1>4. RegsOK(Reset) BY <1>1 DEF RegsOK
<1> QED BY <1>3, <1>4

LEMMA InvInit == PipeInit => PipeInv
<1> SUFFICES ASSUME PipeInit PROVE PipeInv
  OBVIOUS
<1>1. DOMAIN <<>> = {} BY SMT
<1>2. RegsOK(reg) BY ResetIsOK DEF PipeInit
<1> QED BY <1>1, <1>2 DEF PipeInit, PipeInv, ShownOK

LEMMA InvHolds == PipeSpec => []PipeInv
BY InvInit, InvStep, PTL DEF PipeSpec

-----------------------------------------------------------------------------
(* What follows for the buffers *)
LEMMA HalfLayout ==
  ASSUME NEW c \in Configurations, NEW r \in Rects, r # "SOLO" => ~Fmt(c).yuv,
         NEW i \in LayoutPlanes(c)
  PROVE  LET at == IF r = "RECT_1" THEN i + 1 ELSE i
         IN  at \in At(r) /\ PlaneAt(r, at) = i /\ i \in 0..3
<1>1. i \in 0..3 /\ (~Fmt(c).yuv => i \in {0, 2}) BY DEF LayoutPlanes
<1>2. CASE r = "SOLO" BY <1>1, <1>2 DEF At, PlaneAt
<1>3. CASE r = "RECT_0" BY <1>1, <1>3 DEF At, PlaneAt
<1>4. CASE r = "RECT_1" BY <1>1, <1>4 DEF At, PlaneAt
<1> QED BY <1>2, <1>3, <1>4 DEF Rects

LEMMA ShownHas ==
  ASSUME PipeInv, NEW r \in DOMAIN shown
  PROVE  /\ r \in Rects /\ shown[r] \in Configurations /\ Accepted(shown[r])
         /\ r # "SOLO" => Halved(shown[r])
<1>1. DOMAIN <<>> = {} BY SMT
<1> QED BY <1>1 DEF PipeInv, ShownOK, Rects

(* Whatever was shown before by the same SSPP, alone or as halves, when a    *)
(* commit is through each rectangle reads every plane of its own buffer,   *)
(* with its whole pitch (dpu_hw_sspp_setup_sourceaddress).                 *)
THEOREM BuffersAreApart == PipeSpec => []EachRectangleItsBuffer
<1>1. PipeInv => EachRectangleItsBuffer
  <2> SUFFICES ASSUME PipeInv, Idle, NEW r \in DOMAIN shown \ DOMAIN filled,
                      NEW i \in LayoutPlanes(shown[r])
               PROVE  LET at == IF r = "RECT_1" THEN i + 1 ELSE i
                      IN  reg.addr[at] = <<shown[r].fb, i>> /\ reg.stride[at] = shown[r].pitch
    BY DEF EachRectangleItsBuffer
  <2> DEFINE c  == shown[r]
             at == IF r = "RECT_1" THEN i + 1 ELSE i
  <2>1. r \in Rects /\ c \in Configurations /\ Accepted(c) /\ (r # "SOLO" => ~Fmt(c).yuv)
    BY ShownHas DEF Halved
  <2>2. PlaneShown(reg, r, c) BY DEF PipeInv, Idle, Shows
  <2>3. at \in At(r) /\ PlaneAt(r, at) = i /\ i \in 0..3 BY <2>1, HalfLayout
  <2>4. reg.addr[at] = Layout(c).addr[i] /\ reg.stride[at] = Layout(c).pitch[i] % 65536
    BY <2>2, <2>3 DEF PlaneShown, RectShown
  <2>5. Layout(c).addr[i] = <<c.fb, i>> /\ Layout(c).pitch[i] = c.pitch
    BY <2>3 DEF Layout
  <2>6. c.pitch \in Nat /\ c.pitch <= 65535 BY <2>1 DEF Configurations, Accepted, CheckNoSspp
  <2>7. c.pitch % 65536 = c.pitch BY <2>6
  <2> QED BY <2>4, <2>5, <2>7
<1> QED BY <1>1, InvHolds, PTL

-----------------------------------------------------------------------------
(* ... and for the clock of VBIF, *)
LEMMA ClockKept == ASSUME PipeInv, [PipeNext]_pipeVars PROVE reg'.clk = reg.clk
<1>1. ASSUME NEW r, Update(r) PROVE reg'.clk = reg.clk
  <2>1. PICK junk, remap :
          reg' = UpdatePipe([reg |-> reg, clocked |-> clocked], r, shown[r], junk, remap).reg
    BY <1>1 DEF Update
  <2>2. r \in DOMAIN shown /\ clocked = TRUE BY <1>1 DEF Update, PipeInv
  <2>3. r \in Rects /\ Accepted(shown[r]) BY <2>2, ShownHas
  <2>4. Has("SCALER_QSEED2") => CanBuild2(shown[r]) BY <2>3, AcceptedBuilds
  <2>5. IsRegs(reg) /\ reg.clk \in BOOLEAN BY DEF PipeInv, RegsOK
  <2>6. PICK t : t = UpdatePipe([reg |-> reg, clocked |-> TRUE], r, shown[r], junk, remap) OBVIOUS
  <2>7. UpdateSet(t.reg, reg, r, shown[r], PipeRotation(sspp, shown[r]))
    BY <2>3, <2>4, <2>5, <2>6, UpdateStep
  <2> QED BY <2>1, <2>2, <2>6, <2>7 DEF UpdateSet
<1>2. ASSUME NEW r, Flush(r) PROVE reg'.clk = reg.clk
  <2>1. r \in DOMAIN shown BY <1>2 DEF Flush, PipeInv
  <2>2. r \in Rects /\ shown[r] \in Configurations BY <2>1, ShownHas
  <2>3. IsRegs(reg) BY DEF PipeInv, RegsOK
  <2>4. PICK n : n = reg' OBVIOUS
  <2>5. (\E junk : n = ColorFill(reg, r, shown[r], junk)) \/ n = FlushCsc(reg, shown[r])
    BY <1>2, <2>4 DEF Flush
  <2>6. ASSUME NEW junk, n = ColorFill(reg, r, shown[r], junk) PROVE n.clk = reg.clk
    BY <2>2, <2>3, <2>6, FillStep DEF FillSet
  <2>7. ASSUME n = FlushCsc(reg, shown[r]) PROVE n.clk = reg.clk
    <3>1. Others(n, reg, {"csc"}) BY <2>3, <2>7, FlushStep
    <3> QED BY <3>1 DEF Others, Fields
  <2> QED BY <2>4, <2>5, <2>6, <2>7
<1>3. ASSUME Hide PROVE reg'.clk = reg.clk
  <2>1. PICK n : n = reg' OBVIOUS
  <2>2. n = reg \/ n = WriteMultirect(reg, "SOLO") BY <1>3, <2>1 DEF Hide
  <2>3. ASSUME n = WriteMultirect(reg, "SOLO") PROVE n.clk = reg.clk
    <3>1. Others(n, reg, {"multirect"}) BY <2>3, MultirectStep DEF PipeInv, RegsOK
    <3> QED BY <3>1 DEF Others, Fields
  <2> QED BY <2>1, <2>2, <2>3
<1>4. ASSUME NEW new, NEW how, SwapState(new, how) PROVE reg' = reg BY <1>4 DEF SwapState
<1>5. CheckSolo \/ CheckSplit \/ CheckShared => reg' = reg
  BY <1>4 DEF CheckSolo, CheckSplit, CheckShared
<1>6. SetError \/ OtherCommit \/ UNCHANGED pipeVars => reg' = reg
  BY DEF SetError, OtherCommit, pipeVars
<1> QED BY <1>1, <1>2, <1>3, <1>5, <1>6 DEF PipeNext

(* However updates, fills and flushes follow each other, VBIF is only told    *)
(* things with the clock of its client on, and finds it as it was after    *)
(* (_dpu_plane_sspp_clk_force_ctrl).                                       *)
THEOREM ClockIsRestored == PipeSpec => ClocksAreAsFound
<1>1. ASSUME PipeInv, PipeInv', [PipeNext]_pipeVars
      PROVE  [reg'.clk = reg.clk /\ clocked']_pipeVars
  BY <1>1, ClockKept DEF PipeInv
<1> QED BY <1>1, InvHolds, PTL DEF PipeSpec, ClocksAreAsFound

-----------------------------------------------------------------------------
(* The source, by QSEED2 *)
LEMMA Powers == \A e \in 0..4 : 2 ^ e \in Nat \ {0} /\ (2 ^ e = 1 <=> e = 0)
<1>1. 2 ^ 0 = 1 /\ 2 ^ 1 = 2 /\ 2 ^ 2 = 4 /\ 2 ^ 3 = 8 /\ 2 ^ 4 = 16 OBVIOUS
<1>2. \A e \in 0..4 : e = 0 \/ e = 1 \/ e = 2 \/ e = 3 \/ e = 4 OBVIOUS
<1>3. ASSUME NEW e \in 0..4 PROVE 2 ^ e \in Nat \ {0} /\ (2 ^ e = 1 <=> e = 0)
  <2>1. CASE e = 0 BY <1>1, <2>1
  <2>2. CASE e = 1 BY <1>1, <2>2
  <2>3. CASE e = 2 BY <1>1, <2>3
  <2>4. CASE e = 3 BY <1>1, <2>4
  <2>5. CASE e = 4 BY <1>1, <2>5
  <2> QED BY <1>2, <2>1, <2>2, <2>3, <2>4, <2>5
<1> QED BY <1>3

(* A scaler drops 0 to 4 powers of two. *)
LEMMA DecimationIsSmall ==
  ASSUME NEW size \in Nat \ {0}, NEW dst \in Nat \ {0}
  PROVE  CalcDecimation(size, dst, 4) \in 0..4
<1> DEFINE Fits(e) == Decimated(size, e) <= dst * 4
           P(exp)  == exp = 4 \/ Fits(exp)
           Q(exp)  == P(exp) /\ \A e \in 0..(exp - 1) : ~Fits(e)
           Good    == {e \in 0..4 : P(e)}
<1>1. Good \in SUBSET Nat /\ 4 \in Good OBVIOUS
<1> HIDE DEF Good
<1>2. PICK n \in Good : \A m \in Good : n <= m BY <1>1, LeastNatural
<1>3. n \in 0..4 /\ Q(n)
  <2>1. n \in 0..4 /\ P(n) BY <1>2 DEF Good
  <2>2. ASSUME NEW e \in 0..(n - 1) PROVE ~Fits(e)
    <3>1. e \in 0..4 /\ ~(n <= e) BY <2>1
    <3>2. e \notin Good BY <1>2, <3>1
    <3> QED BY <3>1, <3>2 DEF Good
  <2> QED BY <2>1, <2>2
<1>4. \A e \in 0..4 : Decimated(size, e) \in Int
  <2>1. ASSUME NEW e \in 0..4 PROVE Decimated(size, e) \in Int
    <3>1. PICK p : p = 2 ^ e OBVIOUS
    <3>2. p \in Nat \ {0} BY <3>1, Powers
    <3>3. Decimated(size, e) = (size + p - 1) \div p BY <3>1 DEF Decimated, CeilDiv
    <3> QED BY <3>2, <3>3
  <2> QED BY <2>1
<1>5. \A e \in 0..4 : ~Fits(e) <=> Decimated(size, e) > dst * 4 BY <1>4
<1> DEFINE R(exp) == /\ exp = 4 \/ Decimated(size, exp) <= dst * 4
                     /\ \A e \in 0..(exp - 1) : Decimated(size, e) > dst * 4
<1>6. R(n)
  <2>1. \A e \in 0..(n - 1) : e \in 0..4 BY <1>3
  <2> QED BY <1>3, <1>5, <2>1
<1>7. CalcDecimation(size, dst, 4) = CHOOSE exp \in 0..4 : R(exp)
  BY DEF CalcDecimation, DPU_QSEED2_MAX_DOWNSCALE
<1>8. \E exp \in 0..4 : R(exp) BY <1>3, <1>6
<1> HIDE DEF R
<1> QED BY <1>7, <1>8

(* The step of a scaler goes over the source to within a step. *)
LEMMA StepSpans ==
  ASSUME NEW n \in Nat, NEW dst \in Nat \ {0}
  PROVE  LET step == PhaseStep(n, dst)
         IN  /\ step \in Nat /\ step * dst <= PHASE_STEP_UNIT * n
             /\ step * dst > PHASE_STEP_UNIT * n - dst
<1> DEFINE U == PHASE_STEP_UNIT
           q == U \div dst
           m == U % dst
           p == m * n
           f == p \div dst
           e == p % dst
<1>1. U \in Nat BY DEF PHASE_STEP_UNIT
<1> HIDE DEF U
<1>2. q \in Nat /\ m \in Nat /\ U = q * dst + m BY <1>1, Divided
<1>3. PhaseStep(n, dst) = q * n + f BY DEF PhaseStep, MultFrac, U
<1> HIDE DEF q, m
<1>4. p \in Nat BY <1>2, ProductIsNat
<1> HIDE DEF p
<1>5. f \in Nat /\ e \in 0..(dst - 1) /\ p = f * dst + e BY <1>4, Divided
<1> HIDE DEF f, e
<1>6. U * n = (q * n) * dst + p BY <1>2 DEF p
<1>7. (q * n + f) * dst = (q * n) * dst + f * dst
  <2>1. q * n \in Nat BY <1>2, ProductIsNat
  <2> QED BY <1>5, <2>1
<1>8. q * n \in Nat /\ (q * n) * dst \in Nat /\ f * dst \in Nat BY <1>2, <1>5, ProductIsNat
<1>9. q * n + f \in Nat /\ (q * n + f) * dst <= U * n /\ (q * n + f) * dst > U * n - dst
  BY <1>4, <1>5, <1>6, <1>7, <1>8
<1> QED BY <1>3, <1>9 DEF U

LEMMA PairIsNotEmpty ==
  ASSUME NEW c, NEW d
  PROVE  <<c, d>> # <<>>
<1>1. Len(<<c, d>>) = 2 OBVIOUS
<1>2. Len(<<>>) = 0 OBVIOUS
<1> QED BY <1>1, <1>2

LEMMA AxisCovered ==
  ASSUME NEW size \in Nat \ {0}, NEW dst \in Nat \ {0}, NEW sub \in {1, 2}, NEW yuv,
         yuv \/ sub = 1, yuv => size % 2 = 0,
         HasPhaseStep(Decimated(size, CalcDecimation(size, dst, 4)), dst),
         NEW a, a = BuildAxis(size, dst, sub, yuv, 4),
         NEW filters, filters = IF a.scale THEN a.filters ELSE <<>>,
         NEW steps, a.scale => steps = a.steps
  PROVE  /\ AxisIsCovered(size, dst, sub, 2 ^ a.decimate - 1, filters, steps, a.sizes)
         /\ a.sizes[1] \in Int /\ a.sizes[2] \in Int
<1> DEFINE exp  == CalcDecimation(size, dst, 4)
           luma == Decimated(size, exp)
           div  == IF yuv /\ exp = 0 THEN sub ELSE 1
           step == PhaseStep(luma, dst)
           scale == luma # dst \/ (yuv /\ sub > 1)
           F2   == IF yuv THEN Filter(luma \div div, dst) ELSE "NEAREST"
<1>1. /\ a.decimate = exp /\ a.sizes = <<luma, luma \div div>> /\ a.steps = <<step, step \div div>>
      /\ a.filters = <<Filter(luma, dst), F2>> /\ a.scale = scale
  BY DEF BuildAxis
<1>2. exp \in 0..4 BY DecimationIsSmall
<1> HIDE DEF exp
<1>3. luma > 0 /\ luma <= 4 * dst BY DEF HasPhaseStep, DPU_QSEED2_MAX_DOWNSCALE, exp
<1>4. PICK p : p = 2 ^ exp OBVIOUS
<1>5. p \in Nat \ {0} /\ (p = 1 <=> exp = 0) BY <1>2, <1>4, Powers
<1>6. luma = CeilDiv(size, (p - 1) + 1) /\ luma \in Nat
  <2>1. luma = CeilDiv(size, p) BY <1>4 DEF Decimated
  <2>2. (p - 1) + 1 = p BY <1>5
  <2>3. size + p - 1 \in Nat BY <1>5
  <2>4. luma \in Nat BY <1>5, <2>1, <2>3, Divided DEF CeilDiv
  <2> QED BY <2>1, <2>2, <2>4
<1>7. exp = 0 => luma = size
  <2> SUFFICES ASSUME p = 1 PROVE luma = size BY <1>5
  <2>1. luma = (size + 1 - 1) \div 1 BY <1>4 DEF Decimated, CeilDiv
  <2> QED BY <2>1
<1> HIDE DEF luma
<1> DEFINE left   == CeilDiv(size, (p - 1) + 1)
           chroma == IF p - 1 = 0 THEN left \div sub ELSE left
<1>8. left = luma /\ chroma = luma \div div
  <2>1. left = luma BY <1>6
  <2>2. chroma = IF exp = 0 THEN luma \div sub ELSE luma BY <1>5, <2>1
  <2> HIDE DEF left, chroma
  <2>3. luma \div 1 = luma BY <1>6
  <2> QED BY <2>1, <2>2, <2>3
<1> HIDE DEF left, chroma
<1>9. step \in Nat /\ step * dst <= PHASE_STEP_UNIT * luma /\ step * dst > PHASE_STEP_UNIT * luma - dst
  BY <1>6, StepSpans
<1> HIDE DEF step
<1> DEFINE spans(t, n) == t * dst <= PHASE_STEP_UNIT * n /\ t * dst > PHASE_STEP_UNIT * n - 2 * dst
<1>10. spans(step, luma)
  <2>1. step * dst \in Nat BY <1>9, ProductIsNat
  <2> QED BY <1>6, <1>9, <2>1 DEF PHASE_STEP_UNIT
<1>11. spans(step \div div, luma \div div)
  <2>1. CASE div = 1
    <3>1. step \div 1 = step /\ luma \div 1 = luma BY <1>6, <1>9
    <3> QED BY <1>10, <2>1, <3>1
  <2>2. CASE div = 2
    <3>1. luma % 2 = 0 BY <1>7, <2>2
    <3> DEFINE n == luma \div 2
               t == step \div 2
    <3>2. n \in Nat /\ luma = 2 * n BY <1>6, <3>1
    <3>3. t \in Nat /\ (step = 2 * t \/ step = 2 * t + 1) BY <1>9
    <3> HIDE DEF n, t
    <3>4. t * dst \in Nat /\ (2 * t) * dst = 2 * (t * dst) /\ (2 * t + 1) * dst = 2 * (t * dst) + dst
      BY <3>3, ProductIsNat
    <3>5. 2 * (t * dst) <= step * dst /\ step * dst <= 2 * (t * dst) + dst BY <3>3, <3>4
    <3>6. step * dst \in Nat BY <1>9, ProductIsNat
    <3>7. spans(t, n) BY <1>9, <3>2, <3>4, <3>5, <3>6 DEF PHASE_STEP_UNIT
    <3> QED BY <2>2, <3>7 DEF n, t
  <2> QED BY <2>1, <2>2
<1> HIDE DEF spans, div
<1>12. IF filters = <<>> THEN left = dst /\ sub = 1 ELSE spans(steps[1], left) /\ spans(steps[2], chroma)
  <2>1. CASE scale
    <3>1. filters # <<>>
      <4>1. filters = <<Filter(luma, dst), F2>> BY <1>1, <2>1
      <4> QED BY <4>1, PairIsNotEmpty
    <3>2. steps = <<step, step \div div>> BY <1>1, <2>1
    <3>3. steps[1] = step /\ steps[2] = step \div div BY <3>2
    <3> QED BY <1>8, <1>10, <1>11, <3>1, <3>3
  <2>2. CASE ~scale
    <3>1. filters = <<>> BY <1>1, <2>2
    <3>2. luma = dst /\ sub = 1 BY <2>2
    <3> QED BY <1>8, <3>1, <3>2
  <2> QED BY <2>1, <2>2
<1>13. a.sizes = <<left, chroma>> BY <1>1, <1>8
<1>14. left <= DPU_QSEED2_MAX_DOWNSCALE * dst BY <1>3, <1>8 DEF DPU_QSEED2_MAX_DOWNSCALE
<1>15. a.decimate = exp BY <1>1
<1>16. a.sizes[1] \in Int /\ a.sizes[2] \in Int
  <2>1. luma \div div \in Int BY <1>6 DEF div
  <2> QED BY <1>1, <1>6, <2>1
<1> QED BY <1>16, <1>4, <1>12, <1>13, <1>14, <1>15 DEF AxisIsCovered, left, chroma, spans

AxisBuilt(size, dst, sub, yuv, a, filters, steps) ==
  /\ size \in Nat \ {0} /\ dst \in Nat \ {0} /\ sub \in {1, 2}
  /\ (yuv \/ sub = 1) /\ (yuv => size % 2 = 0)
  /\ HasPhaseStep(Decimated(size, CalcDecimation(size, dst, 4)), dst)
  /\ a = BuildAxis(size, dst, sub, yuv, 4)
  /\ filters = IF a.scale THEN a.filters ELSE <<>>
  /\ a.scale => steps = a.steps

AxisFits(size, dst, sub, a, filters, steps) ==
  /\ AxisIsCovered(size, dst, sub, 2 ^ a.decimate - 1, filters, steps, a.sizes)
  /\ a.sizes[1] \in Int /\ a.sizes[2] \in Int

LEMMA BuiltFits ==
  ASSUME NEW size, NEW dst, NEW sub, NEW yuv, NEW a, NEW filters, NEW steps,
         AxisBuilt(size, dst, sub, yuv, a, filters, steps)
  PROVE  AxisFits(size, dst, sub, a, filters, steps)
<1>1. /\ size \in Nat \ {0} /\ dst \in Nat \ {0} /\ sub \in {1, 2}
      /\ (yuv \/ sub = 1) /\ (yuv => size % 2 = 0)
      /\ HasPhaseStep(Decimated(size, CalcDecimation(size, dst, 4)), dst)
      /\ a = BuildAxis(size, dst, sub, yuv, 4)
      /\ filters = IF a.scale THEN a.filters ELSE <<>>
      /\ a.scale => steps = a.steps
  BY DEF AxisBuilt
<1>2. /\ AxisIsCovered(size, dst, sub, 2 ^ a.decimate - 1, filters, steps, a.sizes)
      /\ a.sizes[1] \in Int /\ a.sizes[2] \in Int
  BY <1>1, AxisCovered
<1> QED BY <1>2 DEF AxisFits

(* What a check says of the axes of a plane. *)
LEMMA AxesAccepted ==
  ASSUME NEW c \in Configurations, Accepted(c)
  PROVE  /\ Fmt(c).yuv \in BOOLEAN /\ Fmt(c).hsub \in {1, 2} /\ Fmt(c).vsub \in {1, 2}
         /\ Fmt(c).yuv \/ (Fmt(c).hsub = 1 /\ Fmt(c).vsub = 1)
         /\ c.w \in Nat \ {0} /\ c.h \in Nat \ {0} /\ c.dw \in Nat \ {0} /\ c.dh \in Nat \ {0}
         /\ Fmt(c).yuv => c.w % 2 = 0 /\ c.h % 2 = 0
<1>1. c.name \in DOMAIN MsmFormat /\ c.w \in Nat \ {0} /\ c.h \in Nat \ {0}
      /\ c.dw \in Nat \ {0} /\ c.dh \in Nat \ {0}
  BY DEF Configurations
<1>2. FormatIsFine(Fmt(c)) BY <1>1, Formats DEF Fmt
<1>3. Fmt(c).yuv => c.w % 2 = 0 /\ c.h % 2 = 0 BY DEF Accepted, CheckPipe
<1> QED BY <1>1, <1>2, <1>3 DEF FormatIsFine

LEMMA Qseed2Covers ==
  ASSUME NEW c \in Configurations, Accepted(c), Has("SCALER_QSEED2"),
         ScalerShown(reg, "SOLO", c, PipeRotation(sspp, c).angle = 90)
  PROVE  CoveredByQseed2(c)
<1> DEFINE f   == Fmt(c)
           cfg == BuildCfg2(c)
           x   == BuildAxis(c.w, c.dw, f.hsub, f.yuv, 4)
           y   == BuildAxis(c.h, c.dh, f.vsub, f.yuv, 4)
           enable == x.scale \/ y.scale
           fx  == IF x.scale THEN x.filters ELSE <<>>
           fy  == IF y.scale THEN y.filters ELSE <<>>
<1>1. cfg.x = x /\ cfg.y = y /\ cfg.enable = enable
  BY DEF BuildCfg2, MAX_HORZ_DECIMATION, MAX_VERT_DECIMATION
<1>2. /\ reg.pe = PixelExt(c) /\ reg.scaler2 = PackRegs(cfg)
      /\ reg.decimation = <<2 ^ x.decimate - 1, 2 ^ y.decimate - 1>>
  BY <1>1 DEF ScalerShown
<1> DEFINE s2 == reg.scaler2
<1>3. /\ s2.x = fx /\ s2.y = fy
      /\ enable => s2.stepsX = x.steps /\ s2.stepsY = y.steps
  <2> HIDE DEF x, y, cfg
  <2>1. CASE enable
    <3>1. s2 = [x |-> fx, y |-> fy, stepsX |-> x.steps, stepsY |-> y.steps]
      BY <1>1, <1>2, <2>1 DEF PackRegs
    <3> HIDE DEF fx, fy, s2
    <3> QED BY <3>1
  <2>2. CASE ~enable
    <3>1. s2 = Scaler2Off BY <1>1, <1>2, <2>2 DEF PackRegs
    <3>2. s2.x = <<>> /\ s2.y = <<>> BY <3>1 DEF Scaler2Off
    <3> QED BY <2>2, <3>2
  <2> QED BY <2>1, <2>2
<1> DEFINE e == PixelExt2(cfg)
<1>4. /\ reg.pe.c0 = Component(e.c0, e.c0.bottom) /\ reg.pe.c12 = Component(e.c12, e.c12.bottom)
  BY <1>2 DEF PixelExt
<1>5. /\ e.c0.w = x.sizes[1] /\ e.c0.h = y.sizes[1] /\ e.c0.left = 0 /\ e.c0.top = 0
      /\ e.c12.w = x.sizes[2] /\ e.c12.h = y.sizes[2] /\ e.c12.left = 0 /\ e.c12.top = 0
      /\ e.c0.right \in {0, 1} /\ e.c0.bottom \in {0, 1}
      /\ e.c12.right \in {0, 1} /\ e.c12.bottom \in {0, 1}
  <2> HIDE DEF x, y, cfg
  <2> QED BY <1>1 DEF PixelExt2, PerComponent, Extension
<1> HIDE DEF e
<1>6. /\ AxisIsCovered(c.w, c.dw, f.hsub, 2 ^ x.decimate - 1, fx, s2.stepsX, x.sizes)
      /\ x.sizes[1] \in Int /\ x.sizes[2] \in Int /\ x.sizes = <<x.sizes[1], x.sizes[2]>>
  <2>1. HasPhaseStep(Decimated(c.w, CalcDecimation(c.w, c.dw, 4)), c.dw)
    BY AcceptedBuilds DEF CanBuild2, MAX_HORZ_DECIMATION
  <2>2. x.scale => s2.stepsX = x.steps BY <1>3
  <2>3. PICK yuv : yuv = f.yuv OBVIOUS
  <2>4. PICK a, filters, steps : a = x /\ filters = fx /\ steps = s2.stepsX OBVIOUS
  <2>5. a = BuildAxis(c.w, c.dw, f.hsub, yuv, 4) BY <2>3, <2>4
  <2>6. /\ f.hsub \in {1, 2} /\ (yuv \/ f.hsub = 1) /\ (yuv => c.w % 2 = 0)
        /\ c.w \in Nat \ {0} /\ c.dw \in Nat \ {0}
    BY <2>3, AxesAccepted
  <2>7. filters = (IF a.scale THEN a.filters ELSE <<>>) /\ (a.scale => steps = a.steps)
    BY <2>2, <2>4
  <2> HIDE DEF f, cfg, x, y, enable, fx, fy, s2, e
  <2>8. /\ AxisIsCovered(c.w, c.dw, f.hsub, 2 ^ a.decimate - 1, filters, steps, a.sizes)
        /\ a.sizes[1] \in Int /\ a.sizes[2] \in Int
    <3>1. AxisBuilt(c.w, c.dw, f.hsub, yuv, a, filters, steps) BY <2>1, <2>5, <2>6, <2>7 DEF AxisBuilt
    <3>2. AxisFits(c.w, c.dw, f.hsub, a, filters, steps) BY <3>1, BuiltFits
    <3> QED BY <3>2 DEF AxisFits
  <2>9. a.sizes = <<a.sizes[1], a.sizes[2]>> BY <2>5 DEF BuildAxis
  <2> QED BY <2>4, <2>8, <2>9
<1>7. /\ AxisIsCovered(c.h, c.dh, f.vsub, 2 ^ y.decimate - 1, fy, s2.stepsY, y.sizes)
      /\ y.sizes[1] \in Int /\ y.sizes[2] \in Int /\ y.sizes = <<y.sizes[1], y.sizes[2]>>
  <2>1. HasPhaseStep(Decimated(c.h, CalcDecimation(c.h, c.dh, 4)), c.dh)
    BY AcceptedBuilds DEF CanBuild2, MAX_VERT_DECIMATION
  <2>2. y.scale => s2.stepsY = y.steps BY <1>3
  <2>3. PICK yuv : yuv = f.yuv OBVIOUS
  <2>4. PICK a, filters, steps : a = y /\ filters = fy /\ steps = s2.stepsY OBVIOUS
  <2>5. a = BuildAxis(c.h, c.dh, f.vsub, yuv, 4) BY <2>3, <2>4
  <2>6. /\ f.vsub \in {1, 2} /\ (yuv \/ f.vsub = 1) /\ (yuv => c.h % 2 = 0)
        /\ c.h \in Nat \ {0} /\ c.dh \in Nat \ {0}
    BY <2>3, AxesAccepted
  <2>7. filters = (IF a.scale THEN a.filters ELSE <<>>) /\ (a.scale => steps = a.steps)
    BY <2>2, <2>4
  <2> HIDE DEF f, cfg, x, y, enable, fx, fy, s2, e
  <2>8. /\ AxisIsCovered(c.h, c.dh, f.vsub, 2 ^ a.decimate - 1, filters, steps, a.sizes)
        /\ a.sizes[1] \in Int /\ a.sizes[2] \in Int
    <3>1. AxisBuilt(c.h, c.dh, f.vsub, yuv, a, filters, steps) BY <2>1, <2>5, <2>6, <2>7 DEF AxisBuilt
    <3>2. AxisFits(c.h, c.dh, f.vsub, a, filters, steps) BY <3>1, BuiltFits
    <3> QED BY <3>2 DEF AxisFits
  <2>9. a.sizes = <<a.sizes[1], a.sizes[2]>> BY <2>5 DEF BuildAxis
  <2> QED BY <2>4, <2>8, <2>9
<1>8. ASSUME NEW k \in [w : Int, h : Int, right : {0, 1}, bottom : {0, 1}, left : {0}, top : {0}],
             NEW g, g = Component(k, k.bottom)
      PROVE  g.req[1] - g.lr = k.w /\ g.req[2] - g.tb = k.h
  BY <1>8 DEF Component
<1> HIDE DEF x, y, cfg
<1>9. /\ e.c0 \in [w : Int, h : Int, right : {0, 1}, bottom : {0, 1}, left : {0}, top : {0}]
      /\ e.c12 \in [w : Int, h : Int, right : {0, 1}, bottom : {0, 1}, left : {0}, top : {0}]
  BY <1>1, <1>6, <1>7 DEF e, PixelExt2, PerComponent, Extension
<1>10. /\ reg.pe.c0.req[1] - reg.pe.c0.lr = e.c0.w /\ reg.pe.c0.req[2] - reg.pe.c0.tb = e.c0.h
       /\ reg.pe.c12.req[1] - reg.pe.c12.lr = e.c12.w /\ reg.pe.c12.req[2] - reg.pe.c12.tb = e.c12.h
  BY <1>4, <1>8, <1>9
<1>11. /\ <<reg.pe.c0.req[1] - reg.pe.c0.lr, reg.pe.c12.req[1] - reg.pe.c12.lr>> = x.sizes
       /\ <<reg.pe.c0.req[2] - reg.pe.c0.tb, reg.pe.c12.req[2] - reg.pe.c12.tb>> = y.sizes
  BY <1>5, <1>6, <1>7, <1>10
<1>12. reg.decimation[1] = 2 ^ x.decimate - 1 /\ reg.decimation[2] = 2 ^ y.decimate - 1 BY <1>2
<1> HIDE DEF fx, fy, enable
<1>13. /\ AxisIsCovered(c.w, c.dw, f.hsub, reg.decimation[1], s2.x, s2.stepsX,
                        <<reg.pe.c0.req[1] - reg.pe.c0.lr, reg.pe.c12.req[1] - reg.pe.c12.lr>>)
       /\ AxisIsCovered(c.h, c.dh, f.vsub, reg.decimation[2], s2.y, s2.stepsY,
                        <<reg.pe.c0.req[2] - reg.pe.c0.tb, reg.pe.c12.req[2] - reg.pe.c12.tb>>)
  <2> HIDE DEF f, s2
  <2> QED BY <1>3, <1>6, <1>7, <1>11, <1>12
<1> QED BY <1>13 DEF CoveredByQseed2

(* ... and by QSEED3 *)
LEMMA Qseed3Covers ==
  ASSUME NEW c \in Configurations, HasQseed3,
         RectShown(reg, "SOLO", c, Layout(c), Flags(PipeRotation(sspp, c))),
         ScalerShown(reg, "SOLO", c, PipeRotation(sspp, c).angle = 90)
  PROVE  CoveredByQseed3
<1> DEFINE rot90 == PipeRotation(sspp, c).angle = 90
           flags == Flags(PipeRotation(sspp, c))
           cfg   == Scaler3Cfg(sspp, c, rot90)
           f     == Fmt(c)
           w     == Swapped(rot90, c.w, c.h)
           h     == Swapped(rot90, c.h, c.w)
<1>1. Bank("SOLO") = 0 BY DEF Bank
<1>2. reg.src[0] = Crop(c) /\ reg.out[0] = Place(c) /\ reg.format[0] = FormatOf(c, flags)
  BY <1>1 DEF RectShown
<1>3. /\ reg.src[0][3] = c.w /\ reg.src[0][4] = c.h
      /\ reg.out[0][3] = c.dw /\ reg.out[0][4] = c.dh
  BY <1>2 DEF Crop, Place
<1>4. "ROT_90" \in flags <=> rot90 BY DEF Flags
<1>5. (reg.format[0].rot90 <=> rot90) /\ reg.format[0].name = c.name
  <2>1. PICK format : format = FormatOf(c, flags) OBVIOUS
  <2>2. format.name = c.name BY <2>1 DEF FormatOf
  <2>3. format.rot90 = ("ROT_90" \in flags) BY <2>1 DEF FormatOf
  <2> QED BY <1>2, <1>4, <2>1, <2>2, <2>3
<1>6. /\ Swapped(reg.format[0].rot90, reg.src[0][3], reg.src[0][4]) = w
      /\ Swapped(reg.format[0].rot90, reg.src[0][4], reg.src[0][3]) = h
  BY <1>3, <1>5 DEF Swapped
<1> HIDE DEF rot90, w, h, flags
<1> DEFINE enable == f.yuv \/ h # c.dh \/ w # c.dw
<1>7. /\ cfg.enable = enable
      /\ cfg.srcW[1] = w /\ cfg.srcH[1] = h
      /\ cfg.stepsX[1] = PhaseStep(w, c.dw) /\ cfg.stepsY[1] = PhaseStep(h, c.dh)
      /\ enable => cfg.dst = <<c.dw, c.dh>>
  BY DEF Scaler3Cfg, w, h
<1> HIDE DEF cfg
<1>8. reg.scaler3 = Scaler3Of(f, cfg, reg.scaler3.cfg) BY DEF ScalerShown, rot90, cfg
<1>9. reg.scaler3.on = cfg.enable /\ (cfg.enable => reg.scaler3.cfg = cfg)
  <2>1. PICK old : old = reg.scaler3.cfg OBVIOUS
  <2>2. reg.scaler3 = Scaler3Of(f, cfg, old) BY <1>8, <2>1
  <2> HIDE DEF f
  <2> QED BY <2>2 DEF Scaler3Of
<1>10. CASE enable
  BY <1>3, <1>6, <1>7, <1>9, <1>10 DEF CoveredByQseed3
<1>11. CASE ~enable
  <2>1. w = c.dw /\ h = c.dh /\ ~Fmt(c).yuv BY <1>11
  <2>2. ~reg.scaler3.on BY <1>7, <1>9, <1>11
  <2>3. ~MsmFormat[reg.format[0].name].yuv BY <1>5, <2>1 DEF Fmt
  <2> QED BY <1>3, <1>6, <2>1, <2>2, <2>3 DEF CoveredByQseed3
<1> QED BY <1>10, <1>11

(* For every plane that passes its check, and whatever was shown before, the  *)
(* rectangle, decimation, scaler and rotation registers agree that all of  *)
(* the source is shown, and only that.                                     *)
THEOREM AllOfTheSource == PipeSpec => []SourceIsCovered
<1>1. PipeInv => SourceIsCovered
  <2> SUFFICES ASSUME PipeInv, Idle, NEW r \in DOMAIN shown \ DOMAIN filled
               PROVE  LET c == shown[r] IN
                      /\ reg.src[Bank(r)] = <<c.x, c.y, c.w, c.h>>
                      /\ reg.out[Bank(r)] = <<c.dx, c.dy, c.dw, c.dh>>
                      /\ IF ~HasScaler(sspp) \/ r # "SOLO" THEN c.w = c.dw /\ c.h = c.dh
                         ELSE IF Has("SCALER_QSEED2") THEN CoveredByQseed2(c) ELSE CoveredByQseed3
    BY DEF SourceIsCovered
  <2> DEFINE c == shown[r]
  <2>1. c \in Configurations /\ Accepted(c) /\ (r # "SOLO" => Halved(c)) BY ShownHas
  <2>2. PlaneShown(reg, r, c) BY DEF PipeInv, Idle, Shows
  <2> HIDE DEF c
  <2>3. reg.src[Bank(r)] = <<c.x, c.y, c.w, c.h>> /\ reg.out[Bank(r)] = <<c.dx, c.dy, c.dw, c.dh>>
    BY <2>2 DEF PlaneShown, RectShown, Crop, Place
  <2>4. CASE ~HasScaler(sspp) \/ r # "SOLO"
    <3>1. c.w = c.dw /\ c.h = c.dh BY <2>1, <2>4 DEF Accepted, CheckPipe, Halved
    <3> QED BY <2>3, <2>4, <3>1 DEF c
  <2>5. CASE HasScaler(sspp) /\ r = "SOLO" /\ Has("SCALER_QSEED2")
    <3>1. CoveredByQseed2(c) BY <2>1, <2>2, <2>5, Qseed2Covers DEF PlaneShown
    <3> QED BY <2>3, <2>5, <3>1 DEF c
  <2>6. CASE HasScaler(sspp) /\ r = "SOLO" /\ ~Has("SCALER_QSEED2")
    <3>1. HasQseed3 BY <2>6 DEF HasScaler, HasQseed3, Has
    <3>2. CoveredByQseed3 BY <2>1, <2>2, <2>6, <3>1, Qseed3Covers DEF PlaneShown
    <3> QED BY <2>3, <2>6, <3>2 DEF c
  <2> QED BY <2>4, <2>5, <2>6
<1> QED BY <1>1, InvHolds, PTL

-----------------------------------------------------------------------------
(* Registers that show the same rectangles have the same effect. *)
Showing(g) == RegsOK(g) /\ \A r \in DOMAIN shown : Shows(g, r) /\ CscLoaded(g, r)

(* What a rectangle shows, filled or not. *)
Seen(r)       == IF r \in DOMAIN filled THEN FillConfig(shown[r]) ELSE shown[r]
SeenLayout(r) == IF r \in DOMAIN filled THEN EmptyLayout ELSE Layout(shown[r])
SeenFlags(r)  ==
  IF r \in DOMAIN filled THEN {"SOLID_FILL"} ELSE Flags(PipeRotation(sspp, shown[r]))
SeenTurned(r) ==
  IF r \in DOMAIN filled THEN filled[r] ELSE PipeRotation(sspp, shown[r]).angle = 90

LEMMA ShowsMeans ==
  ASSUME NEW g, NEW r, Shows(g, r)
  PROVE  /\ RectShown(g, r, Seen(r), SeenLayout(r), SeenFlags(r))
         /\ ScalerShown(g, r, Seen(r), SeenTurned(r)) /\ KeptShown(g, r, shown[r])
         /\ r \in DOMAIN filled => g.color[Bank(r)] = "white"
<1>1. CASE r \in DOMAIN filled
  BY <1>1 DEF Shows, FillShown, Seen, SeenLayout, SeenFlags, SeenTurned
<1>2. CASE r \notin DOMAIN filled
  BY <1>2 DEF Shows, PlaneShown, Seen, SeenLayout, SeenFlags, SeenTurned
<1> QED BY <1>1, <1>2

LEMMA ShownCases ==
  ASSUME ShownOK, shown # <<>>
  PROVE  /\ DOMAIN shown = {"SOLO"} \/ DOMAIN shown = {"RECT_0", "RECT_1"}
         /\ DOMAIN shown \subseteq Rects
         /\ "SOLO" \in DOMAIN shown => \A r \in DOMAIN shown : r = "SOLO"
BY DEF ShownOK, Rects

LEMMA SameBuffers ==
  ASSUME ShownOK, shown # <<>>, NEW g, NEW n, Showing(g), Showing(n)
  PROVE  g.addr = n.addr /\ g.stride = n.stride
<1>1. ASSUME NEW r \in DOMAIN shown, NEW i \in At(r)
      PROVE  g.addr[i] = n.addr[i] /\ g.stride[i] = n.stride[i]
  <2>1. /\ RectShown(g, r, Seen(r), SeenLayout(r), SeenFlags(r))
        /\ RectShown(n, r, Seen(r), SeenLayout(r), SeenFlags(r))
    BY ShowsMeans DEF Showing
  <2> QED BY <2>1 DEF RectShown
<1>2. \A i \in 0..3 : \E r \in DOMAIN shown : i \in At(r)
  <2>1. CASE DOMAIN shown = {"SOLO"} BY <2>1 DEF At
  <2>2. CASE DOMAIN shown = {"RECT_0", "RECT_1"} BY <2>2 DEF At
  <2> QED BY <2>1, <2>2, ShownCases
<1>3. \A i \in 0..3 : g.addr[i] = n.addr[i] /\ g.stride[i] = n.stride[i] BY <1>1, <1>2
<1>4. /\ g.addr = [i \in 0..3 |-> g.addr[i]] /\ n.addr = [i \in 0..3 |-> n.addr[i]]
      /\ g.stride = [i \in 0..3 |-> g.stride[i]] /\ n.stride = [i \in 0..3 |-> n.stride[i]]
  BY DEF Showing, RegsOK, IsRegs
<1>5. [i \in 0..3 |-> g.addr[i]] = [i \in 0..3 |-> n.addr[i]] BY <1>3
<1>6. [i \in 0..3 |-> g.stride[i]] = [i \in 0..3 |-> n.stride[i]] BY <1>3
<1> QED BY <1>4, <1>5, <1>6

LEMMA SameOwn ==
  ASSUME NEW rects, NEW a, NEW b, \A r \in rects : a[Bank(r)] = b[Bank(r)]
  PROVE  Own(a, rects) = Own(b, rects)
BY DEF Own

LEMMA SameBanks ==
  ASSUME ShownOK, shown # <<>>, NEW g, NEW n, Showing(g), Showing(n)
  PROVE  /\ Own(g.src, DOMAIN shown) = Own(n.src, DOMAIN shown)
         /\ Own(g.out, DOMAIN shown) = Own(n.out, DOMAIN shown)
         /\ Own(g.format, DOMAIN shown) = Own(n.format, DOMAIN shown)
         /\ Own(g.opmode, DOMAIN shown) = Own(n.opmode, DOMAIN shown)
         /\ Own(g.cdp, DOMAIN shown) = Own(n.cdp, DOMAIN shown)
         /\ Own(g.color, DOMAIN shown \cap DOMAIN filled) = Own(n.color, DOMAIN shown \cap DOMAIN filled)
<1>1. ASSUME NEW r \in DOMAIN shown
      PROVE  /\ g.src[Bank(r)] = n.src[Bank(r)] /\ g.out[Bank(r)] = n.out[Bank(r)]
             /\ g.format[Bank(r)] = n.format[Bank(r)] /\ g.opmode[Bank(r)] = n.opmode[Bank(r)]
             /\ g.cdp[Bank(r)] = n.cdp[Bank(r)]
             /\ r \in DOMAIN filled => g.color[Bank(r)] = n.color[Bank(r)]
  <2>1. /\ RectShown(g, r, Seen(r), SeenLayout(r), SeenFlags(r))
        /\ RectShown(n, r, Seen(r), SeenLayout(r), SeenFlags(r))
        /\ KeptShown(g, r, shown[r]) /\ KeptShown(n, r, shown[r])
        /\ r \in DOMAIN filled => g.color[Bank(r)] = "white" /\ n.color[Bank(r)] = "white"
    BY ShowsMeans DEF Showing
  <2>2. g.src[Bank(r)] = n.src[Bank(r)] /\ g.out[Bank(r)] = n.out[Bank(r)] BY <2>1 DEF RectShown
  <2>3. g.format[Bank(r)] = n.format[Bank(r)] /\ g.opmode[Bank(r)] = n.opmode[Bank(r)]
    BY <2>1 DEF RectShown
  <2>4. g.cdp[Bank(r)] = n.cdp[Bank(r)]
    BY <2>1 DEF KeptShown, Showing, RegsOK, AtReset
  <2> QED BY <2>1, <2>2, <2>3, <2>4
<1> QED BY <1>1, SameOwn

(* The fields of Effective that are more than registers *)
Solo     == "SOLO" \in DOMAIN shown
Buffered == {r \in DOMAIN shown \ DOMAIN filled : shown[r].ubwc}
UbwcSeen(g) == [r \in IF Solo \/ sspp.core >= 8 THEN Buffered ELSE {} |-> g.ubwc[UbwcBank(r)]]
HbbSeen(g)  == Buffered # {} /\ g.fetchHbb
CscSeen(g)  == IF g.cscOn THEN g.csc ELSE "off"
CfgSeen(g)  == IF g.scaler3.on THEN g.scaler3.cfg ELSE <<>>
DangerSeen(g) == (\A r \in DOMAIN shown : shown[r].rt) /\ g.qos.danger

LEMMA SameUbwc ==
  ASSUME ShownOK, shown # <<>>, NEW g, NEW n, Showing(g), Showing(n)
  PROVE  UbwcSeen(g) = UbwcSeen(n) /\ HbbSeen(g) = HbbSeen(n)
<1>1. ASSUME NEW r \in Buffered
      PROVE  /\ g.fetchHbb = TRUE /\ n.fetchHbb = TRUE
             /\ Solo \/ sspp.core >= 8 => g.ubwc[UbwcBank(r)] = n.ubwc[UbwcBank(r)]
  <2>1. r \in DOMAIN shown /\ shown[r].ubwc BY DEF Buffered
  <2>2. KeptShown(g, r, shown[r]) /\ KeptShown(n, r, shown[r]) BY <2>1, ShowsMeans DEF Showing
  <2>3. Solo => r = "SOLO" BY <2>1, ShownCases DEF Solo
  <2> QED BY <2>1, <2>2, <2>3 DEF KeptShown
<1>2. UbwcSeen(g) = UbwcSeen(n)
  <2> DEFINE S == IF Solo \/ sspp.core >= 8 THEN Buffered ELSE {}
  <2>1. \A r \in S : g.ubwc[UbwcBank(r)] = n.ubwc[UbwcBank(r)] BY <1>1
  <2> HIDE DEF S
  <2>2. [r \in S |-> g.ubwc[UbwcBank(r)]] = [r \in S |-> n.ubwc[UbwcBank(r)]] BY <2>1
  <2> QED BY <2>2 DEF UbwcSeen, S
<1>3. HbbSeen(g) = HbbSeen(n)
  <2>1. CASE Buffered = {} BY <2>1 DEF HbbSeen
  <2>2. CASE Buffered # {}
    <3>1. g.fetchHbb = TRUE /\ n.fetchHbb = TRUE BY <1>1, <2>2
    <3> QED BY <2>2, <3>1 DEF HbbSeen
  <2> QED BY <2>1, <2>2
<1> QED BY <1>2, <1>3

LEMMA SameCsc ==
  ASSUME ShownOK, shown # <<>>, NEW g, NEW n, Showing(g), Showing(n)
  PROVE  g.cscOn = n.cscOn /\ CscSeen(g) = CscSeen(n)
<1>1. PICK r : r \in DOMAIN shown BY ShownCases
<1>2. /\ g.cscOn = (HasCscMode /\ Fmt(Seen(r)).yuv) /\ n.cscOn = (HasCscMode /\ Fmt(Seen(r)).yuv)
  BY <1>1, ShowsMeans DEF Showing, RectShown
<1>3. ASSUME HasCscMode, Fmt(Seen(r)).yuv PROVE g.csc = CscOf /\ n.csc = CscOf
  <2>1. r \notin DOMAIN filled
    <3> SUFFICES ASSUME r \in DOMAIN filled PROVE FALSE OBVIOUS
    <3>1. shown[r] \in Configurations BY <1>1 DEF ShownOK
    <3>2. Seen(r).name = "ARGB8888" BY <3>1, FillFields DEF Seen
    <3> QED BY <1>3, <3>2 DEF Fmt, MsmFormat, Rgb
  <2>2. Fmt(shown[r]).yuv /\ HasCsc BY <1>3, <2>1 DEF Seen, HasCsc, HasCscMode
  <2> QED BY <1>1, <2>1, <2>2 DEF Showing, CscLoaded
<1> QED BY <1>2, <1>3 DEF CscSeen

LEMMA SameScaler3 ==
  ASSUME ShownOK, shown # <<>>, NEW g, NEW n, Showing(g), Showing(n)
  PROVE  /\ g.scaler3.on = n.scaler3.on /\ g.scaler3.yuv = n.scaler3.yuv
         /\ g.scaler3.dx = n.scaler3.dx /\ g.scaler3.alpha = n.scaler3.alpha
         /\ CfgSeen(g) = CfgSeen(n)
<1>1. CASE ~HasQseed3
  <2>1. g.scaler3 = n.scaler3 BY <1>1 DEF Showing, RegsOK, AtReset
  <2> QED BY <2>1 DEF CfgSeen
<1>2. CASE HasQseed3
  <2>1. PICK r : r \in DOMAIN shown /\ r # "RECT_1" BY ShownCases
  <2> DEFINE f   == Fmt(Seen(r))
             cfg == Scaler3Cfg(sspp, Seen(r), SeenTurned(r))
             a   == g.scaler3.cfg
             b   == n.scaler3.cfg
  <2>2. g.scaler3 = Scaler3Of(f, cfg, a) /\ n.scaler3 = Scaler3Of(f, cfg, b)
    BY <1>2, <2>1, ShowsMeans DEF Showing, ScalerShown
  <2> HIDE DEF f, cfg
  <2>3. PICK yuv, alpha :
          /\ yuv = (cfg.enable /\ f.yuv)
          /\ alpha = IF f.alpha THEN {"enable"} \cup (IF cfg.alphaFilter THEN {"bit29"} ELSE {}) ELSE {}
    OBVIOUS
  <2>4. ASSUME NEW old, NEW s, s = Scaler3Of(f, cfg, old)
        PROVE  /\ s.on = cfg.enable /\ s.yuv = yuv /\ s.dx = f.dx /\ s.alpha = alpha
               /\ cfg.enable => s.cfg = cfg
    <3>1. s = [on |-> cfg.enable, yuv |-> yuv, dx |-> f.dx, alpha |-> alpha,
               cfg |-> IF cfg.enable THEN cfg ELSE old]
      BY <2>3, <2>4 DEF Scaler3Of
    <3> QED BY <3>1
  <2>5. /\ g.scaler3.on = cfg.enable /\ g.scaler3.yuv = yuv /\ g.scaler3.dx = f.dx
        /\ g.scaler3.alpha = alpha
        /\ cfg.enable => g.scaler3.cfg = cfg
    BY <2>2, <2>4
  <2>6. /\ n.scaler3.on = cfg.enable /\ n.scaler3.yuv = yuv /\ n.scaler3.dx = f.dx
        /\ n.scaler3.alpha = alpha
        /\ cfg.enable => n.scaler3.cfg = cfg
    BY <2>2, <2>4
  <2> QED BY <2>5, <2>6 DEF CfgSeen
<1> QED BY <1>1, <1>2

LEMMA SameSolo ==
  ASSUME ShownOK, shown # <<>>, NEW g, NEW n, Showing(g), Showing(n), Solo
  PROVE  /\ g.pe = n.pe /\ g.scaler2 = n.scaler2 /\ g.decimation = n.decimation
         /\ g.qos.creq = n.qos.creq /\ g.qos.usage = n.qos.usage
<1>1. /\ ScalerShown(g, "SOLO", Seen("SOLO"), SeenTurned("SOLO")) /\ KeptShown(g, "SOLO", shown["SOLO"])
      /\ ScalerShown(n, "SOLO", Seen("SOLO"), SeenTurned("SOLO")) /\ KeptShown(n, "SOLO", shown["SOLO"])
  BY ShowsMeans DEF Showing, Solo
<1>2. g.pe = n.pe BY <1>1 DEF ScalerShown
<1>3. g.scaler2 = n.scaler2 /\ g.decimation = n.decimation
  BY <1>1 DEF ScalerShown, Showing, RegsOK, AtReset
<1>4. g.qos.creq = n.qos.creq /\ g.qos.usage = n.qos.usage BY <1>1 DEF KeptShown
<1> QED BY <1>2, <1>3, <1>4

LEMMA SameMultirect ==
  ASSUME ShownOK, shown # <<>>, NEW g, NEW n, Showing(g), Showing(n)
  PROVE  g.multirect = n.multirect
<1>1. CASE ~Has("SMART_DMA_V2") BY <1>1 DEF Showing, RegsOK, AtReset
<1>2. CASE Has("SMART_DMA_V2") /\ DOMAIN shown = {"SOLO"}
  <2>1. KeptShown(g, "SOLO", shown["SOLO"]) /\ KeptShown(n, "SOLO", shown["SOLO"])
    BY <1>2, ShowsMeans DEF Showing
  <2> QED BY <1>2, <2>1 DEF KeptShown
<1>3. CASE Has("SMART_DMA_V2") /\ DOMAIN shown = {"RECT_0", "RECT_1"}
  <2>1. ASSUME NEW x, Showing(x)
        PROVE  x.multirect = [rects |-> {"RECT_0", "RECT_1"}, time |-> mode = "TIME_MX"]
    <3>1. KeptShown(x, "RECT_0", shown["RECT_0"]) /\ KeptShown(x, "RECT_1", shown["RECT_1"])
      BY <1>3, <2>1, ShowsMeans DEF Showing
    <3>2. x.multirect.rects = {"RECT_0", "RECT_1"}
      BY <1>3, <2>1, <3>1 DEF KeptShown, Showing, RegsOK, AtReset
    <3>3. x.multirect.time = (mode = "TIME_MX") BY <1>3, <3>1 DEF KeptShown
    <3>4. x.multirect = [rects |-> x.multirect.rects, time |-> x.multirect.time]
      BY <2>1 DEF Showing, RegsOK, IsRegs
    <3> QED BY <3>2, <3>3, <3>4
  <2> QED BY <2>1
<1> QED BY <1>1, <1>2, <1>3, ShownCases

LEMMA SameDanger ==
  ASSUME ShownOK, shown # <<>>, NEW g, NEW n, Showing(g), Showing(n)
  PROVE  DangerSeen(g) = DangerSeen(n)
<1>1. CASE \A r \in DOMAIN shown : shown[r].rt
  <2>1. PICK r : r \in DOMAIN shown BY ShownCases
  <2>2. KeptShown(g, r, shown[r]) /\ KeptShown(n, r, shown[r]) BY <2>1, ShowsMeans DEF Showing
  <2>3. g.qos.danger = TRUE /\ n.qos.danger = TRUE BY <1>1, <2>1, <2>2 DEF KeptShown
  <2> QED BY <2>3 DEF DangerSeen
<1>2. CASE ~\A r \in DOMAIN shown : shown[r].rt BY <1>2 DEF DangerSeen
<1> QED BY <1>1, <1>2

LEMMA SameEffect ==
  ASSUME ShownOK, shown # <<>>, NEW g, NEW n, Showing(g), Showing(n)
  PROVE  Effective(g) = Effective(n)
<1> DEFINE scaler(x) == IF Solo THEN <<x.pe, x.scaler2, x.decimation, x.scaler3.on, x.scaler3.yuv,
                                       x.scaler3.dx, x.scaler3.alpha, CfgSeen(x)>>
                        ELSE <<x.scaler3.on>>
           qos(x)    == IF Solo THEN <<x.qos.creq, x.qos.usage>> ELSE <<>>
           rects == DOMAIN shown
           eff(x) == [buffers |-> <<x.addr, x.stride>>,
                      rects   |-> <<Own(x.src, rects), Own(x.out, rects)>>,
                      format  |-> <<Own(x.format, rects), Own(x.opmode, rects)>>,
                      color   |-> Own(x.color, rects \cap DOMAIN filled),
                      ubwc    |-> UbwcSeen(x), hbb |-> HbbSeen(x), cdp |-> Own(x.cdp, rects),
                      csc     |-> <<x.cscOn, CscSeen(x)>>, scaler |-> scaler(x),
                      multirect |-> x.multirect, qos |-> <<qos(x), DangerSeen(x)>>]
<1>1. Effective(g) = eff(g) /\ Effective(n) = eff(n)
  BY DEF Effective, Solo, Buffered, UbwcSeen, HbbSeen, CscSeen, CfgSeen, DangerSeen
<1>2. scaler(g) = scaler(n) BY SameSolo, SameScaler3
<1>3. qos(g) = qos(n) BY SameSolo
<1> HIDE DEF scaler, qos
<1>4. eff(g) = eff(n)
  BY <1>2, <1>3, SameBuffers, SameBanks, SameUbwc, SameCsc, SameMultirect, SameDanger
<1> QED BY <1>1, <1>4

-----------------------------------------------------------------------------
(* The last commits, programmed into an SSPP just reset, show the same. *)
LEMMA FlushedStep ==
  ASSUME ShownOK, NEW g, RegsOK(g), NEW r \in DOMAIN shown, PlaneShown(g, r, shown[r]),
         NEW n, n = Flushed(g, r)
  PROVE  /\ RegsOK(n) /\ Shows(n, r) /\ CscLoaded(n, r)
         /\ \A q \in DOMAIN shown \ {r} :
              /\ PlaneShown(g, q, shown[q]) => PlaneShown(n, q, shown[q])
              /\ Shows(g, q) => Shows(n, q)
              /\ CscLoaded(g, q) => CscLoaded(n, q)
<1> DEFINE c == shown[r]
<1>1. r \in Rects /\ c \in Configurations
  <2>1. DOMAIN <<>> = {} BY SMT
  <2> QED BY <2>1 DEF ShownOK, Rects
<1>2. CASE r \in DOMAIN filled
  <2>1. PICK junk : junk = filled[r] OBVIOUS
  <2>2. n = ColorFill(g, r, c, junk) BY <1>2, <2>1 DEF Flushed
  <2>3. IsRegs(n) /\ FillSet(n, g, r, c, junk) BY <1>1, <2>2, FillStep DEF RegsOK
  <2>4. KeptShown(g, r, c) BY DEF PlaneShown
  <2>5. FillShown(n, r, c, junk) /\ RegsOK(n) BY <1>1, <2>3, <2>4, FillShownAfter
  <2>6. Shows(n, r) BY <1>2, <2>1, <2>5 DEF Shows
  <2>7. CscLoaded(n, r) BY <1>2 DEF CscLoaded
  <2>8. ASSUME NEW q \in DOMAIN shown \ {r}
        PROVE  /\ PlaneShown(g, q, shown[q]) => PlaneShown(n, q, shown[q])
               /\ Shows(g, q) => Shows(n, q)
               /\ CscLoaded(g, q) => CscLoaded(n, q)
    <3>1. /\ PlaneShown(g, q, shown[q]) => PlaneShown(n, q, shown[q])
          /\ \A a : FillShown(g, q, shown[q], a) => FillShown(n, q, shown[q], a)
      BY <2>3, FillKeeps
    <3>2. n.csc = g.csc BY <2>3 DEF FillSet
    <3>3. CscLoaded(g, q) => CscLoaded(n, q) BY <3>2 DEF CscLoaded
    <3> QED BY <3>1, <3>3 DEF Shows
  <2> QED BY <2>5, <2>6, <2>7, <2>8
<1>3. CASE r \notin DOMAIN filled
  <2>1. n = FlushCsc(g, c) BY <1>3 DEF Flushed
  <2>2. /\ IsRegs(n) /\ Others(n, g, {"csc"})
        /\ n.csc = IF HasCsc /\ Fmt(c).yuv THEN CscOf ELSE g.csc
    BY <2>1, FlushStep DEF RegsOK
  <2>3. /\ RegsOK(n)
        /\ \A q, d : PlaneShown(g, q, d) => PlaneShown(n, q, d)
        /\ \A q, d, junk : FillShown(g, q, d, junk) => FillShown(n, q, d, junk)
    BY <2>2, FlushKeeps
  <2>4. Shows(n, r) BY <1>3, <2>3 DEF Shows
  <2>5. CscLoaded(n, r) BY <2>2 DEF CscLoaded
  <2>6. \A q : Shows(g, q) => Shows(n, q) BY <2>3 DEF Shows
  <2>7. \A q : CscLoaded(g, q) => CscLoaded(n, q) BY <2>2 DEF CscLoaded
  <2> QED BY <2>3, <2>4, <2>5, <2>6, <2>7
<1> QED BY <1>2, <1>3

LEMMA UpdatedFresh ==
  ASSUME PipeInv, NEW g, RegsOK(g), NEW r \in DOMAIN shown,
         NEW t, t = UpdatePipe([reg |-> g, clocked |-> TRUE], r, shown[r], FALSE, FALSE)
  PROVE  /\ IsTold(t) /\ RegsOK(t.reg) /\ PlaneShown(t.reg, r, shown[r])
         /\ UpdateSet(t.reg, g, r, shown[r], PipeRotation(sspp, shown[r]))
<1> DEFINE c == shown[r]
<1>1. r \in Rects /\ c \in Configurations /\ Accepted(c) BY ShownHas
<1> HIDE DEF c
<1>2. Has("SCALER_QSEED2") => CanBuild2(c) BY <1>1, AcceptedBuilds
<1>3. t = UpdatePipe([reg |-> g, clocked |-> TRUE], r, c, FALSE, FALSE) BY DEF c
<1>4. IsRegs(g) /\ g.clk \in BOOLEAN BY DEF RegsOK
<1>5. IsTold(t) /\ IsRegs(t.reg) /\ UpdateSet(t.reg, g, r, c, PipeRotation(sspp, c))
  BY <1>1, <1>2, <1>3, <1>4, UpdateStep
<1>6. PlaneShown(t.reg, r, c) /\ RegsOK(t.reg) BY <1>1, <1>5, UpdateShown
<1> QED BY <1>5, <1>6 DEF c

LEMMA FreshShows == ASSUME PipeInv, shown # <<>> PROVE Showing(Fresh)
<1> DEFINE g0    == [Reset EXCEPT !.clk = reg.clk]
           start == [reg |-> g0, clocked |-> TRUE]
           one   == UpdatePipe(start, FirstRect, shown[FirstRect], FALSE, FALSE)
           two   == UpdatePipe(one, "RECT_1", shown["RECT_1"], FALSE, FALSE)
           left  == Flushed(two.reg, "RECT_0")
<1>1. Fresh = IF FirstRect = "SOLO" THEN Flushed(one.reg, "SOLO") ELSE Flushed(left, "RECT_1")
  BY DEF Fresh
<1>2. ShownOK BY DEF PipeInv
<1>3. RegsOK(g0) BY ResetIsOK DEF PipeInv, RegsOK
<1> HIDE DEF g0
<1>4. FirstRect \in DOMAIN shown BY <1>2, ShownCases DEF FirstRect
<1>5. IsTold(one) /\ RegsOK(one.reg) /\ PlaneShown(one.reg, FirstRect, shown[FirstRect])
  BY <1>3, <1>4, UpdatedFresh
<1> HIDE DEF one
<1>6. CASE DOMAIN shown = {"SOLO"}
  <2>1. FirstRect = "SOLO" BY <1>6 DEF FirstRect
  <2>2. PICK n : n = Flushed(one.reg, "SOLO") OBVIOUS
  <2>3. RegsOK(n) /\ Shows(n, "SOLO") /\ CscLoaded(n, "SOLO")
    BY <1>2, <1>5, <1>6, <2>1, <2>2, FlushedStep
  <2> QED BY <1>1, <1>6, <2>1, <2>2, <2>3 DEF Showing
<1>7. CASE DOMAIN shown = {"RECT_0", "RECT_1"}
  <2>1. FirstRect = "RECT_0" BY <1>7 DEF FirstRect
  <2>2. PICK g : g = one.reg OBVIOUS
  <2>3. RegsOK(g) /\ PlaneShown(g, "RECT_0", shown["RECT_0"]) BY <1>5, <2>1, <2>2
  <2>4. two = UpdatePipe([reg |-> g, clocked |-> TRUE], "RECT_1", shown["RECT_1"], FALSE, FALSE)
    BY <1>5, <2>2 DEF IsTold
  <2> HIDE DEF two
  <2>5. /\ RegsOK(two.reg) /\ PlaneShown(two.reg, "RECT_1", shown["RECT_1"])
        /\ UpdateSet(two.reg, g, "RECT_1", shown["RECT_1"], PipeRotation(sspp, shown["RECT_1"]))
    BY <1>7, <2>3, <2>4, UpdatedFresh
  <2>6. PlaneShown(two.reg, "RECT_0", shown["RECT_0"])
    BY <1>2, <1>7, <2>3, <2>5, UpdateKeeps
  <2>7. /\ RegsOK(left) /\ Shows(left, "RECT_0") /\ CscLoaded(left, "RECT_0")
        /\ PlaneShown(left, "RECT_1", shown["RECT_1"])
    BY <1>2, <1>7, <2>5, <2>6, FlushedStep
  <2> HIDE DEF left
  <2>8. PICK n : n = Flushed(left, "RECT_1") OBVIOUS
  <2>9. /\ RegsOK(n) /\ Shows(n, "RECT_1") /\ CscLoaded(n, "RECT_1")
        /\ Shows(n, "RECT_0") /\ CscLoaded(n, "RECT_0")
    BY <1>2, <1>7, <2>7, <2>8, FlushedStep
  <2> QED BY <1>1, <1>7, <2>1, <2>8, <2>9 DEF Showing
<1> QED BY <1>2, <1>6, <1>7, ShownCases

(* Whatever an SSPP showed before (planes, halves, fills, errors), in        *)
(* whatever order, when a commit is through what its registers show is     *)
(* what the last commits alone would make of an SSPP just reset: all the   *)
(* setters of dpu_hw_sspp.c together forget.                               *)
THEOREM HistoryIsForgotten == PipeSpec => []NothingIsLeftOver
<1>1. PipeInv => NothingIsLeftOver
  <2> SUFFICES ASSUME PipeInv, Idle, shown # <<>> PROVE Effective(reg) = Effective(Fresh)
    BY DEF NothingIsLeftOver
  <2>1. ShownOK BY DEF PipeInv
  <2>2. Showing(reg) BY DEF PipeInv, Idle, Showing
  <2>3. Showing(Fresh) BY FreshShows
  <2> QED BY <2>1, <2>2, <2>3, SameEffect
<1> QED BY <1>1, InvHolds, PTL
=============================================================================
