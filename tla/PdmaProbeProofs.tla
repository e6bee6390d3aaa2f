--------------------------- MODULE PdmaProbeProofs --------------------------
(***************************************************************************)
(* Proofs about PdmaProbe for any programs, any number of device numbers,  *)
(* of failures and of errors: its types, that nothing leaks, that a bound  *)
(* card has all it needs, that nothing is got or given back twice, and     *)
(* that a call past its check has its device.                              *)
(***************************************************************************)
EXTENDS PdmaProbe, TLAPS, FiniteSetTheorems

-----------------------------------------------------------------------------
(* What is left of a routine: the end of its sequence of steps.            *)
NoTwice(s) == \A i, j \in 1 .. Len(s) : s[i] = s[j] => i = j
IsEndOf(s, routine) ==
    /\ Len(s) <= Len(routine)
    /\ \A i \in 1 .. Len(s) : s[i] = routine[Len(routine) - Len(s) + i]

Kept == {"entity", "pcie_ctrl", "rd_pool", "wt_pool", "cdev"}
Left(a) == Range(todo[a])

(* What is left is nothing when its length is zero.                        *)
LEMMA EmptyLen ==
    ASSUME NEW S, NEW u \in Seq(S) PROVE Len(u) \in Nat /\ (u # <<>> <=> Len(u) > 0)
<1>1. Len(u) \in Nat /\ (u # <<>> => Len(u) > 0)
    OBVIOUS
<1>2. u = <<>> => Len(u) = 0
    OBVIOUS
<1> QED BY <1>1, <1>2

(* Doing the next step takes it off what is left.                          *)
LEMMA TailLeft ==
    ASSUME NEW S, NEW s \in Seq(S), s # <<>>
    PROVE  /\ Head(s) \in S /\ Tail(s) \in Seq(S) /\ Len(Tail(s)) = Len(s) - 1 /\ Len(s) \in Nat /\ Len(s) > 0
           /\ Range(s) = {Head(s)} \cup Range(Tail(s))
           /\ NoTwice(s) => NoTwice(Tail(s)) /\ Head(s) \notin Range(Tail(s))
           /\ Len(s) = 1 => Tail(s) = <<>>
<1>1. /\ Len(s) \in Nat /\ Len(s) > 0 /\ Len(Tail(s)) = Len(s) - 1 /\ Tail(s) \in Seq(S) /\ Head(s) = s[1]
             /\ Head(s) \in S
      /\ DOMAIN s = 1 .. Len(s) /\ DOMAIN Tail(s) = 1 .. Len(s) - 1
    OBVIOUS
<1>2. \A i \in 1 .. Len(s) - 1 : Tail(s)[i] = s[i + 1]
    OBVIOUS
<1> DEFINE t == Tail(s)
           n == Len(s)
<1>3. n \in Nat /\ n > 0 /\ DOMAIN s = 1 .. n /\ DOMAIN t = 1 .. n - 1 /\ Len(t) = n - 1
    BY <1>1
<1>4. \A i \in 1 .. n - 1 : t[i] = s[i + 1]
    BY <1>2
<1>5. Head(s) = s[1]
    BY <1>1
<1> HIDE DEF t, n
<1>6. Range(s) = {Head(s)} \cup Range(t)
  <2>1. ASSUME NEW x \in Range(s) PROVE x \in {Head(s)} \cup Range(t)
    <3>1. PICK i \in 1 .. n : x = s[i]
        BY <1>3, <2>1 DEF Range
    <3>2. CASE i = 1
        BY <3>1, <3>2, <1>5
    <3>3. CASE i # 1
      <4>1. i - 1 \in 1 .. n - 1 /\ (i - 1) + 1 = i
          BY <3>3, <1>3
      <4>2. t[i - 1] = x
          BY <3>1, <4>1, <1>4
      <4> QED BY <4>1, <4>2, <1>3 DEF Range
    <3> QED BY <3>2, <3>3
  <2>2. ASSUME NEW x \in Range(t) PROVE x \in Range(s)
    <3>1. PICK i \in 1 .. n - 1 : x = t[i]
        BY <1>3, <2>2 DEF Range
    <3>2. x = s[i + 1] /\ i + 1 \in 1 .. n
        BY <3>1, <1>3, <1>4
    <3> QED BY <3>2, <1>3 DEF Range
  <2>3. Head(s) \in Range(s)
      BY <1>3, <1>5 DEF Range
  <2> QED BY <2>1, <2>2, <2>3
<1>7. ASSUME NoTwice(s) PROVE NoTwice(t) /\ Head(s) \notin Range(t)
  <2>1. \A i, j \in 1 .. n : s[i] = s[j] => i = j
      BY <1>7 DEF NoTwice, n
  <2>2. NoTwice(t)
      BY <2>1, <1>3, <1>4 DEF NoTwice
  <2>3. ASSUME Head(s) \in Range(t) PROVE FALSE
    <3>1. PICK i \in 1 .. n - 1 : s[1] = t[i]
        BY <1>3, <1>5, <2>3 DEF Range
    <3>2. s[1] = s[i + 1] /\ i + 1 \in 1 .. n /\ 1 \in 1 .. n
        BY <3>1, <1>3, <1>4
    <3>3. i + 1 = 1
        BY <3>2, <2>1
    <3> QED BY <3>3, <3>1, <1>3
  <2> QED BY <2>2, <2>3
<1>8. \A u \in Seq(S) : u # <<>> => Len(u) > 0
    BY EmptyLen
<1>9. n = 1 => t = <<>>
    BY <1>1, <1>3, <1>8 DEF t
<1> QED BY <1>1, <1>6, <1>7, <1>9 DEF t, n

(* What is left still is an end of the routine.                            *)
LEMMA TailIsEnd ==
    ASSUME NEW S, NEW s \in Seq(S), s # <<>>, NEW R \in Seq(S), IsEndOf(s, R)
    PROVE  IsEndOf(Tail(s), R)
<1> DEFINE t == Tail(s)
           n == Len(s)
           m == Len(R)
<1>1. n \in Nat /\ m \in Nat /\ n > 0 /\ Len(t) = n - 1
    BY TailLeft
<1>2. \A i \in 1 .. n - 1 : t[i] = s[i + 1]
    OBVIOUS
<1>3. n <= m /\ \A i \in 1 .. n : s[i] = R[m - n + i]
    BY DEF IsEndOf
<1> HIDE DEF t, n, m
<1>4. ASSUME NEW i \in 1 .. n - 1 PROVE t[i] = R[m - (n - 1) + i]
  <2>1. i + 1 \in 1 .. n /\ m - n + (i + 1) = m - (n - 1) + i
      BY <1>1
  <2>2. s[i + 1] = R[m - n + (i + 1)]
      BY <2>1, <1>3
  <2> QED BY <2>1, <2>2, <1>2
<1>5. Len(t) <= m /\ \A i \in 1 .. Len(t) : t[i] = R[m - Len(t) + i]
    BY <1>1, <1>3, <1>4
<1> QED BY <1>5 DEF IsEndOf, t, m

(* The length of what is left says which step is next and which remain.    *)
LEMMA EndHas ==
    ASSUME NEW S, NEW s \in Seq(S), NEW R \in Seq(S), NoTwice(R), IsEndOf(s, R)
    PROVE  /\ Len(s) \in Nat /\ Len(s) <= Len(R) /\ NoTwice(s) /\ (s = <<>> <=> Len(s) = 0)
           /\ Range(s) \subseteq {R[p] : p \in 1 .. Len(R)}
           /\ \A p \in 1 .. Len(R) : R[p] \in Range(s) <=> Len(s) > Len(R) - p
           /\ \A p \in 1 .. Len(R) : s # <<>> => (Head(s) = R[p] <=> Len(s) = Len(R) - p + 1)
           /\ s # <<>> => Head(s) \in {R[p] : p \in 1 .. Len(R)}
<1> DEFINE n == Len(s)
           m == Len(R)
<1>1. n \in Nat /\ m \in Nat /\ DOMAIN s = 1 .. n /\ (s # <<>> => n > 0 /\ Head(s) = s[1])
          /\ (s = <<>> => n = 0)
    OBVIOUS
<1>2. n <= m /\ \A i \in 1 .. n : s[i] = R[m - n + i]
    BY DEF IsEndOf
<1>3. \A i, j \in 1 .. m : R[i] = R[j] => i = j
    BY DEF NoTwice
<1> HIDE DEF n, m
<1>4. \A i \in 1 .. n : m - n + i \in 1 .. m
    BY <1>1, <1>2
<1>5. NoTwice(s)
  <2>1. ASSUME NEW i \in 1 .. n, NEW j \in 1 .. n, s[i] = s[j] PROVE i = j
    <3>1. R[m - n + i] = R[m - n + j]
        BY <1>2, <2>1
    <3>2. m - n + i = m - n + j
        BY <1>3, <1>4, <3>1
    <3> QED BY <3>2, <1>1
  <2> QED BY <2>1 DEF NoTwice, n
<1>6. Range(s) \subseteq {R[p] : p \in 1 .. m}
    BY <1>1, <1>2, <1>4 DEF Range
<1>7. ASSUME NEW p \in 1 .. m PROVE R[p] \in Range(s) <=> n > m - p
  <2>1. ASSUME R[p] \in Range(s) PROVE n > m - p
    <3>1. PICK i \in 1 .. n : s[i] = R[p]
        BY <1>1, <2>1 DEF Range
    <3>2. m - n + i = p
        BY <3>1, <1>2, <1>3, <1>4
    <3> QED BY <3>2, <1>1
  <2>2. ASSUME n > m - p PROVE R[p] \in Range(s)
    <3>1. p - (m - n) \in 1 .. n /\ m - n + (p - (m - n)) = p
        BY <2>2, <1>1
    <3>2. s[p - (m - n)] = R[p]
        BY <3>1, <1>2
    <3> QED BY <3>1, <3>2, <1>1 DEF Range
  <2> QED BY <2>1, <2>2
<1>8. ASSUME NEW p \in 1 .. m, s # <<>> PROVE Head(s) = R[p] <=> n = m - p + 1
  <2>1. Head(s) = R[m - n + 1] /\ m - n + 1 \in 1 .. m
      BY <1>1, <1>2, <1>4, <1>8
  <2>2. Head(s) = R[p] <=> m - n + 1 = p
      BY <2>1, <1>3
  <2> QED BY <2>2, <1>1
<1>9. ASSUME s # <<>> PROVE Head(s) \in {R[p] : p \in 1 .. m}
  <2>1. 1 \in 1 .. n /\ Head(s) = s[1]
      BY <1>1, <1>9
  <2> QED BY <2>1, <1>2, <1>4
<1> QED BY <1>1, <1>2, <1>5, <1>6, <1>7, <1>8, <1>9 DEF n, m

(* The vocabulary of the routines.                                         *)
LEMMA StepsAre == Steps =
    {"entity", "pcie_ctrl", "device", "regions", "mask", "iomap", "msi", "irq", "parse", "rd_pool",
     "wt_pool", "ctrl_init", "config", "cdev", "disable", "reset", "drain", "reset2", "enable"}
<1>1. Range(Probe) = {"entity", "pcie_ctrl", "device", "regions", "mask", "iomap", "msi", "irq",
               "parse", "rd_pool", "wt_pool", "ctrl_init", "config", "cdev"}
    BY DEF Probe, Range
<1>2. Range(PciRemove) = {"cdev", "disable", "reset", "drain", "rd_pool", "wt_pool",
               "irq", "msi", "iomap", "regions", "device", "pcie_ctrl", "entity"}
    BY DEF PciRemove, Range
<1>3. Range(SlotReset) = {"device", "regions", "mask", "iomap", "msi", "irq", "ctrl_init", "config",
               "reset2", "enable"}
    BY DEF SlotReset, Range
<1> QED BY <1>1, <1>2, <1>3 DEF Steps

(* They are sequences of steps, each of which they do once.                *)
LEMMA Routines ==
    /\ Probe \in Seq(Steps) /\ NoTwice(Probe) /\ Len(Probe) = 14
    /\ SlotReset \in Seq(Steps) /\ NoTwice(SlotReset) /\ Len(SlotReset) = 10
    /\ Recover \in Seq(Steps) /\ NoTwice(Recover) /\ Len(Recover) = 8
    /\ PciRemove \in Seq(Steps) /\ NoTwice(PciRemove) /\ Len(PciRemove) = 13
    /\ Stop \in Seq(Steps) /\ NoTwice(Stop) /\ Len(Stop) = 3
    /\ Start \in Seq(Steps) /\ IsEndOf(Start, Restart)
    /\ Restart \in Seq(Steps) /\ NoTwice(Restart) /\ Len(Restart) = 5
<1>1. Probe \in Seq(Steps) /\ Len(Probe) = 14
    BY StepsAre DEF Probe
<1>2. NoTwice(Probe)
    BY DEF Probe, NoTwice
<1>3. SlotReset \in Seq(Steps) /\ Len(SlotReset) = 10
    BY StepsAre DEF SlotReset
<1>4. NoTwice(SlotReset)
    BY DEF SlotReset, NoTwice
<1>5. Recover \in Seq(Steps) /\ Len(Recover) = 8
    BY StepsAre DEF Recover
<1>6. NoTwice(Recover)
    BY DEF Recover, NoTwice
<1>7. PciRemove \in Seq(Steps) /\ Len(PciRemove) = 13
    BY StepsAre DEF PciRemove
<1>8. NoTwice(PciRemove)
    BY DEF PciRemove, NoTwice
<1>9. Stop \in Seq(Steps) /\ Len(Stop) = 3 /\ NoTwice(Stop)
    BY StepsAre DEF Stop, NoTwice
<1>10. Start \in Seq(Steps) /\ IsEndOf(Start, Restart)
  <2>1. Start \in Seq(Steps)
      BY StepsAre DEF Start
  <2>2. IsEndOf(Start, Restart)
      BY DEF Start, Restart, IsEndOf
  <2> QED BY <2>1, <2>2
<1>11. Restart \in Seq(Steps) /\ Len(Restart) = 5 /\ NoTwice(Restart)
    BY StepsAre DEF Restart, NoTwice
<1> QED BY <1>1, <1>2, <1>3, <1>4, <1>5, <1>6, <1>7, <1>8, <1>9, <1>10, <1>11

(* The rest of a routine is what follows its next step.                    *)
LEMMA EndFrom ==
    ASSUME NEW S, NEW s \in Seq(S), NEW R \in Seq(S), NoTwice(R), IsEndOf(s, R),
           NEW p \in 1 .. Len(R), s # <<>>, Head(s) = R[p]
    PROVE  Range(s) = {R[j] : j \in p .. Len(R)} /\ Len(s) = Len(R) - p + 1
<1>1. Len(s) = Len(R) - p + 1 /\ Len(R) \in Nat
    BY EndHas
<1>2. \A j \in 1 .. Len(R) : R[j] \in Range(s) <=> Len(s) > Len(R) - j
    BY EndHas
<1>3. Range(s) \subseteq {R[j] : j \in 1 .. Len(R)}
    BY EndHas
<1>4. \A j \in 1 .. Len(R) : R[j] \in Range(s) <=> j \in p .. Len(R)
    BY <1>1, <1>2
<1> QED BY <1>1, <1>3, <1>4

(* Of a probe, what is left of it when it fails is what it need not give   *)
(* back.                                                                   *)
LEMMA ProbeLeft ==
    ASSUME NEW s \in Seq(Steps), IsEndOf(s, Probe)
    PROVE  /\ NoTwice(s)
           /\ Range(s) \cap {"disable", "reset", "drain", "reset2", "enable"} = {}
           /\ s # <<>> /\ Head(s) = "config" => "iomap" \notin Range(s)
<1>1. Probe \in Seq(Steps) /\ NoTwice(Probe)
    BY Routines
<1>2. NoTwice(s) /\ Range(s) \subseteq {Probe[p] : p \in 1 .. Len(Probe)}
    BY <1>1, EndHas
<1>3. Range(s) \cap {"disable", "reset", "drain", "reset2", "enable"} = {}
    BY <1>2 DEF Probe
<1>4. ASSUME s # <<>>, Head(s) = "config" PROVE "iomap" \notin Range(s)
  <2>1. Head(s) = Probe[13] /\ 13 \in 1 .. Len(Probe)
      BY <1>4 DEF Probe
  <2>2. Range(s) = {Probe[j] : j \in 13 .. Len(Probe)}
      BY <1>1, <1>4, <2>1, EndFrom
  <2> QED BY <2>2 DEF Probe
<1> QED BY <1>2, <1>3, <1>4

(* Of a slot reset.                                                        *)
LEMMA SlotResetLeft ==
    ASSUME NEW s \in Seq(Steps), IsEndOf(s, SlotReset)
    PROVE  /\ NoTwice(s)
           /\ Range(s) \cap ({"disable", "reset", "drain", "parse"} \cup Kept) = {}
           /\ s # <<>> /\ Head(s) \in {"config", "reset2", "enable"} => "iomap" \notin Range(s)
           /\ s # <<>> => "enable" \in Range(s)
           /\ s # <<>> /\ Head(s) = "enable" => Tail(s) = <<>>
<1>1. SlotReset \in Seq(Steps) /\ NoTwice(SlotReset)
    BY Routines
<1>2. NoTwice(s) /\ Range(s) \subseteq {SlotReset[p] : p \in 1 .. Len(SlotReset)}
    BY <1>1, EndHas
<1>3. Range(s) \cap ({"disable", "reset", "drain", "parse"} \cup Kept) = {}
    BY <1>2 DEF SlotReset, Kept
<1>4. ASSUME s # <<>>, NEW p \in 8 .. 10, Head(s) = SlotReset[p]
      PROVE  "iomap" \notin Range(s) /\ (p = 10 => Len(s) = 1)
  <2>1. p \in 1 .. Len(SlotReset)
      BY DEF SlotReset
  <2>2. Range(s) = {SlotReset[j] : j \in p .. Len(SlotReset)} /\ Len(s) = Len(SlotReset) - p + 1
      BY <1>1, <1>4, <2>1, EndFrom
  <2>3. \A j \in 8 .. Len(SlotReset) : SlotReset[j] # "iomap"
      BY DEF SlotReset
  <2>4. Len(SlotReset) = 10
      BY DEF SlotReset
  <2> QED BY <2>2, <2>3, <2>4
<1>5. SlotReset[8] = "config" /\ SlotReset[9] = "reset2" /\ SlotReset[10] = "enable" /\ Len(SlotReset) = 10
    BY DEF SlotReset
<1>6. ASSUME s # <<>> PROVE "enable" \in Range(s)
  <2>1. Len(s) \in Nat /\ Len(s) > 0
      BY <1>6
  <2>2. \A p \in 1 .. Len(SlotReset) : SlotReset[p] \in Range(s) <=> Len(s) > Len(SlotReset) - p
      BY <1>1, EndHas
  <2>3. SlotReset[10] \in Range(s) <=> Len(s) > 0
      BY <2>2, <1>5
  <2> QED BY <1>5, <2>1, <2>3
<1>7. ASSUME s # <<>>, Head(s) = "enable" PROVE Tail(s) = <<>>
  <2>1. Len(s) = 1
      BY <1>4, <1>5, <1>7
  <2> QED BY <1>7, <2>1, TailLeft
<1> QED BY <1>2, <1>3, <1>4, <1>5, <1>6, <1>7

(* The steps of STOP.                                                      *)
Stopping == {"disable", "reset", "drain"}

(* STOP in a routine: what follows the reset, and what remains with it.    *)
LEMMA StopInside ==
    ASSUME NEW S, NEW s \in Seq(S), NEW R \in Seq(S), NoTwice(R), IsEndOf(s, R),
           NEW o \in Nat, o + 3 <= Len(R), R[o + 1] = "disable", R[o + 2] = "reset", R[o + 3] = "drain"
    PROVE  /\ NoTwice(s)
           /\ "disable" \in Range(s) => "drain" \in Range(s)
           /\ s # <<>> /\ Head(s) = "reset" => Len(s) > 1 /\ Head(Tail(s)) = "drain"
           /\ Range(s) \cap Stopping # {} => \A q \in o + 3 .. Len(R) : R[q] \in Range(s)
<1>1. NoTwice(s) /\ Len(s) \in Nat /\ Len(R) \in Nat
    BY EndHas
<1>2. \A p \in 1 .. Len(R) : R[p] \in Range(s) <=> Len(s) > Len(R) - p
    BY EndHas
<1>3. ASSUME NEW x \in Stopping, x \in Range(s), NEW q \in o + 3 .. Len(R) PROVE R[q] \in Range(s)
  <2>1. q \in 1 .. Len(R) /\ \A d \in 1 .. 3 : o + d \in 1 .. Len(R) /\ o + d <= q
      BY <1>1
  <2>2. PICK d \in 1 .. 3 : R[o + d] = x
      BY <1>3 DEF Stopping
  <2>3. Len(s) > Len(R) - (o + d)
      BY <1>2, <1>3, <2>1, <2>2
  <2> QED BY <1>1, <1>2, <2>1, <2>3
<1>4. "disable" \in Range(s) => "drain" \in Range(s)
    BY <1>1, <1>3 DEF Stopping
<1>6. ASSUME s # <<>>, Head(s) = "reset" PROVE Len(s) > 1 /\ Head(Tail(s)) = "drain"
  <2>1. o + 2 \in 1 .. Len(R) /\ o + 3 \in 1 .. Len(R)
      BY <1>1
  <2>2. Len(s) = Len(R) - (o + 2) + 1
      BY <1>6, <2>1, EndFrom
  <2>3. IsEndOf(Tail(s), R) /\ Tail(s) \in Seq(S) /\ Len(Tail(s)) = Len(s) - 1
      BY <1>6, TailIsEnd, TailLeft
  <2>4. Len(s) > 1 /\ Len(Tail(s)) = Len(R) - (o + 3) + 1 /\ Len(Tail(s)) > 0
      BY <1>1, <2>2, <2>3
  <2>6. Tail(s) # <<>>
      BY <2>3, <2>4, EmptyLen
  <2>5. \A p \in 1 .. Len(R) : Tail(s) # <<>> => (Head(Tail(s)) = R[p] <=> Len(Tail(s)) = Len(R) - p + 1)
      BY <2>3, EndHas
  <2> QED BY <2>1, <2>4, <2>5, <2>6
<1> QED BY <1>1, <1>3, <1>4, <1>6

(* Of the way down after an error, ...                                     *)
LEMMA RecoverLeft ==
    ASSUME NEW s \in Seq(Steps), IsEndOf(s, Recover)
    PROVE  /\ NoTwice(s)
           /\ "disable" \in Range(s) => "drain" \in Range(s)
           /\ s # <<>> /\ Head(s) = "reset" => Len(s) > 1 /\ Head(Tail(s)) = "drain"
           /\ Range(s) \cap ({"ctrl_init", "config", "reset2", "enable", "mask", "parse"} \cup Kept) = {}
           /\ Range(s) \cap Stopping # {} => {"irq", "iomap"} \subseteq Range(s)
<1>1. /\ Recover \in Seq(Steps) /\ NoTwice(Recover) /\ Len(Recover) = 8
      /\ Recover[0 + 1] = "disable" /\ Recover[0 + 2] = "reset" /\ Recover[0 + 3] = "drain"
      /\ Recover[4] = "irq" /\ Recover[6] = "iomap"
    BY Routines DEF Recover
<1>2. /\ NoTwice(s)
      /\ "disable" \in Range(s) => "drain" \in Range(s)
      /\ s # <<>> /\ Head(s) = "reset" => Len(s) > 1 /\ Head(Tail(s)) = "drain"
      /\ Range(s) \cap Stopping # {} => \A q \in 0 + 3 .. Len(Recover) : Recover[q] \in Range(s)
  <2>1. 0 + 3 <= Len(Recover)
      BY <1>1
  <2> QED BY <1>1, <2>1, StopInside
<1>3. Range(s) \subseteq {Recover[p] : p \in 1 .. Len(Recover)}
    BY <1>1, EndHas
<1>4. {Recover[p] : p \in 1 .. Len(Recover)} \cap ({"ctrl_init", "config", "reset2", "enable", "mask",
          "parse"} \cup Kept) = {}
    BY DEF Recover, Kept
<1>5. Range(s) \cap Stopping # {} => {"irq", "iomap"} \subseteq Range(s)
    BY <1>1, <1>2
<1> QED BY <1>2, <1>3, <1>4, <1>5

(* ... of a removal, ...                                                   *)
LEMMA RemoveLeft ==
    ASSUME NEW s \in Seq(Steps), IsEndOf(s, PciRemove)
    PROVE  /\ NoTwice(s)
           /\ "disable" \in Range(s) => "drain" \in Range(s)
           /\ s # <<>> /\ Head(s) = "reset" => Len(s) > 1 /\ Head(Tail(s)) = "drain"
           /\ Range(s) \cap {"ctrl_init", "config", "reset2", "enable", "mask", "parse"} = {}
           /\ Range(s) \cap Stopping # {} => {"entity", "iomap", "irq", "rd_pool", "wt_pool"} \subseteq Range(s)
<1>1. /\ PciRemove \in Seq(Steps) /\ NoTwice(PciRemove) /\ Len(PciRemove) = 13
      /\ PciRemove[1 + 1] = "disable" /\ PciRemove[1 + 2] = "reset" /\ PciRemove[1 + 3] = "drain"
      /\ PciRemove[5] = "rd_pool" /\ PciRemove[6] = "wt_pool" /\ PciRemove[7] = "irq"
      /\ PciRemove[9] = "iomap" /\ PciRemove[13] = "entity"
    BY Routines DEF PciRemove
<1>2. /\ NoTwice(s)
      /\ "disable" \in Range(s) => "drain" \in Range(s)
      /\ s # <<>> /\ Head(s) = "reset" => Len(s) > 1 /\ Head(Tail(s)) = "drain"
      /\ Range(s) \cap Stopping # {} => \A q \in 1 + 3 .. Len(PciRemove) : PciRemove[q] \in Range(s)
  <2>1. 1 + 3 <= Len(PciRemove)
      BY <1>1
  <2> QED BY <1>1, <2>1, StopInside
<1>3. Range(s) \subseteq {PciRemove[p] : p \in 1 .. Len(PciRemove)}
    BY <1>1, EndHas
<1>4. {PciRemove[p] : p \in 1 .. Len(PciRemove)} \cap {"ctrl_init", "config", "reset2", "enable", "mask",
          "parse"} = {}
    BY DEF PciRemove
<1>5. Range(s) \cap Stopping # {} => {"entity", "iomap", "irq", "rd_pool", "wt_pool"} \subseteq Range(s)
    BY <1>1, <1>2
<1> QED BY <1>2, <1>3, <1>4, <1>5

(* ... and of an ioctl.                                                    *)
LEMMA IoctlLeft ==
    ASSUME NEW s \in Seq(Steps), IsEndOf(s, Stop) \/ IsEndOf(s, Restart)
    PROVE  /\ "disable" \in Range(s) => "drain" \in Range(s)
           /\ s # <<>> /\ Head(s) = "reset" => Len(s) > 1 /\ Head(Tail(s)) = "drain"
           /\ Range(s) \subseteq Stopping \cup {"reset2", "enable"}
           /\ NoTwice(s)
           /\ s # <<>> /\ Head(s) = "enable" => Range(s) = {"enable"} /\ Tail(s) = <<>>
<1>1. CASE IsEndOf(s, Stop)
  <2>1. /\ Stop \in Seq(Steps) /\ NoTwice(Stop) /\ Len(Stop) = 3
        /\ Stop[0 + 1] = "disable" /\ Stop[0 + 2] = "reset" /\ Stop[0 + 3] = "drain"
      BY Routines DEF Stop
  <2>2. /\ NoTwice(s)
        /\ "disable" \in Range(s) => "drain" \in Range(s)
        /\ s # <<>> /\ Head(s) = "reset" => Len(s) > 1 /\ Head(Tail(s)) = "drain"
        /\ Range(s) \cap Stopping # {} => \A q \in 0 + 3 .. Len(Stop) : Stop[q] \in Range(s)
    <3>1. 0 + 3 <= Len(Stop)
        BY <2>1
    <3> QED BY <1>1, <2>1, <3>1, StopInside
  <2>3. Range(s) \subseteq {Stop[p] : p \in 1 .. Len(Stop)}
      BY <1>1, <2>1, EndHas
  <2>4. {Stop[p] : p \in 1 .. Len(Stop)} \subseteq Stopping
      BY DEF Stop, Stopping
  <2>5. s # <<>> => Head(s) \in Range(s)
      BY TailLeft
  <2> QED BY <2>1, <2>2, <2>3, <2>4, <2>5 DEF Stopping
<1>2. CASE IsEndOf(s, Restart)
  <2>1. /\ Restart \in Seq(Steps) /\ NoTwice(Restart) /\ Len(Restart) = 5 /\ Restart[5] = "enable"
        /\ Restart[0 + 1] = "disable" /\ Restart[0 + 2] = "reset" /\ Restart[0 + 3] = "drain"
      BY Routines DEF Restart
  <2>2. /\ NoTwice(s)
        /\ "disable" \in Range(s) => "drain" \in Range(s)
        /\ s # <<>> /\ Head(s) = "reset" => Len(s) > 1 /\ Head(Tail(s)) = "drain"
    <3>1. 0 + 3 <= Len(Restart)
        BY <2>1
    <3> QED BY <1>2, <2>1, <3>1, StopInside
  <2>3. Range(s) \subseteq {Restart[p] : p \in 1 .. Len(Restart)}
      BY <1>2, <2>1, EndHas
  <2>4. {Restart[p] : p \in 1 .. Len(Restart)} \subseteq Stopping \cup {"reset2", "enable"}
      BY DEF Restart, Stopping
  <2>5. ASSUME s # <<>>, Head(s) = "enable" PROVE Range(s) = {"enable"} /\ Len(s) = 1
    <3>1. 5 \in 1 .. Len(Restart) /\ Head(s) = Restart[5]
        BY <2>1, <2>5
    <3>4. Restart \in Seq(Steps) /\ NoTwice(Restart)
        BY <2>1
    <3>2. Range(s) = {Restart[j] : j \in 5 .. Len(Restart)} /\ Len(s) = Len(Restart) - 5 + 1
        BY <1>2, <2>5, <3>1, <3>4, EndFrom
    <3> QED BY <2>1, <3>2
  <2>6. s # <<>> /\ Len(s) = 1 => Tail(s) = <<>>
      BY TailLeft
  <2> QED BY <2>2, <2>3, <2>4, <2>5, <2>6
<1> QED BY <1>1, <1>2

(* Two undoings one after the other.                                       *)
LEMMA Cat ==
    ASSUME NEW S, NEW s \in Seq(S), NEW t \in Seq(S),
           NoTwice(s), NoTwice(t), Range(s) \cap Range(t) = {}
    PROVE  s \o t \in Seq(S) /\ Range(s \o t) = Range(s) \cup Range(t) /\ NoTwice(s \o t)
<1> DEFINE c == s \o t
           n == Len(s)
           m == Len(t)
<1>1. n \in Nat /\ m \in Nat /\ Len(c) = n + m /\ c \in Seq(S)
      /\ DOMAIN s = 1 .. n /\ DOMAIN t = 1 .. m /\ DOMAIN c = 1 .. n + m
    OBVIOUS
<1>2. \A i \in 1 .. n : c[i] = s[i]
    OBVIOUS
<1>3. \A i \in n + 1 .. n + m : c[i] = t[i - n]
    OBVIOUS
<1> HIDE DEF c, n, m
<1>4. Range(c) \subseteq Range(s) \cup Range(t)
  <2>1. ASSUME NEW i \in 1 .. n + m PROVE c[i] \in Range(s) \cup Range(t)
    <3>1. CASE i <= n
        BY <1>1, <1>2, <3>1 DEF Range
    <3>2. CASE i > n
      <4>1. i \in n + 1 .. n + m /\ i - n \in 1 .. m
          BY <1>1, <3>2
      <4> QED BY <1>1, <1>3, <4>1 DEF Range
    <3> QED BY <1>1, <3>1, <3>2
  <2> QED BY <1>1, <2>1 DEF Range
<1>5. Range(s) \subseteq Range(c)
    BY <1>1, <1>2 DEF Range
<1>6. Range(t) \subseteq Range(c)
  <2>1. ASSUME NEW j \in 1 .. m PROVE t[j] \in Range(c)
    <3>1. j + n \in n + 1 .. n + m /\ j + n \in 1 .. n + m /\ (j + n) - n = j
        BY <1>1
    <3>2. c[j + n] = t[j]
        BY <1>3, <3>1
    <3> QED BY <1>1, <3>1, <3>2 DEF Range
  <2> QED BY <1>1, <2>1 DEF Range
<1>7. ASSUME NEW i \in 1 .. n + m, NEW j \in 1 .. n + m, c[i] = c[j] PROVE i = j
  <2>1. CASE i <= n /\ j <= n
      BY <1>1, <1>2, <1>7, <2>1 DEF NoTwice, n
  <2>2. CASE i > n /\ j > n
    <3>1. i - n \in 1 .. m /\ j - n \in 1 .. m /\ i \in n + 1 .. n + m /\ j \in n + 1 .. n + m
        BY <1>1, <2>2
    <3>2. t[i - n] = t[j - n]
        BY <1>3, <1>7, <3>1
    <3>3. i - n = j - n
        BY <3>1, <3>2 DEF NoTwice, m
    <3> QED BY <1>1, <3>3
  <2>3. ASSUME NEW k \in 1 .. n, NEW l \in 1 .. n + m, l > n, c[k] = c[l] PROVE FALSE
    <3>1. l - n \in 1 .. m /\ l \in n + 1 .. n + m
        BY <1>1, <2>3
    <3>2. c[k] \in Range(s) /\ c[l] \in Range(t)
        BY <1>1, <1>2, <1>3, <3>1 DEF Range
    <3> QED BY <2>3, <3>2
  <2> QED BY <1>1, <1>7, <2>1, <2>2, <2>3
<1>8. NoTwice(c)
    BY <1>1, <1>7 DEF NoTwice
<1> QED BY <1>1, <1>4, <1>5, <1>6, <1>8 DEF c

(* What a probe has got when it comes to each step that may fail ...        *)
LEMMA ProbeGot ==
    ASSUME NEW s \in Seq(Steps), IsEndOf(s, Probe), s # <<>>
    PROVE
        /\ Head(s) = "entity" => Resources \ Range(s) = {}
        /\ Head(s) = "pcie_ctrl" => Resources \ Range(s) = {"entity"}
        /\ Head(s) = "device" => Resources \ Range(s) = {"entity", "pcie_ctrl"}
        /\ Head(s) = "regions" => Resources \ Range(s) = {"entity", "pcie_ctrl", "device"}
        /\ Head(s) = "mask" => Resources \ Range(s) = {"entity", "pcie_ctrl", "device", "regions"}
        /\ Head(s) = "iomap" => Resources \ Range(s) = {"entity", "pcie_ctrl", "device", "regions"}
        /\ Head(s) = "msi" => Resources \ Range(s) = {"entity", "pcie_ctrl", "device", "regions", "iomap"}
        /\ Head(s) = "irq" => Resources \ Range(s) = {"entity", "pcie_ctrl", "device", "regions", "iomap",
               "msi"}
        /\ Head(s) = "parse" => Resources \ Range(s) = {"entity", "pcie_ctrl", "device", "regions", "iomap",
               "msi", "irq"}
        /\ Head(s) = "rd_pool" => Resources \ Range(s) = {"entity", "pcie_ctrl", "device", "regions",
               "iomap", "msi", "irq"}
        /\ Head(s) = "wt_pool" => Resources \ Range(s) = {"entity", "pcie_ctrl", "device", "regions",
               "iomap", "msi", "irq", "rd_pool"}
        /\ Head(s) = "cdev" => Resources \ Range(s) = {"entity", "pcie_ctrl", "device", "regions", "iomap",
               "msi", "irq", "rd_pool", "wt_pool"}
<1>1. Probe \in Seq(Steps) /\ NoTwice(Probe)
    BY Routines
<1>2. Head(s) = "entity" => Resources \ Range(s) = {}
  <2>1. 1 \in 1 .. Len(Probe) /\ Probe[1] = "entity"
      BY DEF Probe
  <2>2. Head(s) = "entity" => Range(s) = {Probe[j] : j \in 1 .. Len(Probe)}
      BY <1>1, <2>1, EndFrom
  <2>3. {Probe[j] : j \in 1 .. Len(Probe)} = {"entity", "pcie_ctrl", "device", "regions", "mask", "iomap",
            "msi", "irq", "parse", "rd_pool", "wt_pool", "ctrl_init", "config", "cdev"}
      BY DEF Probe
  <2> QED BY <2>2, <2>3 DEF Resources
<1>3. Head(s) = "pcie_ctrl" => Resources \ Range(s) = {"entity"}
  <2>1. 2 \in 1 .. Len(Probe) /\ Probe[2] = "pcie_ctrl"
      BY DEF Probe
  <2>2. Head(s) = "pcie_ctrl" => Range(s) = {Probe[j] : j \in 2 .. Len(Probe)}
      BY <1>1, <2>1, EndFrom
  <2>3. {Probe[j] : j \in 2 .. Len(Probe)} = {"pcie_ctrl", "device", "regions", "mask", "iomap", "msi",
            "irq", "parse", "rd_pool", "wt_pool", "ctrl_init", "config", "cdev"}
      BY DEF Probe
  <2> QED BY <2>2, <2>3 DEF Resources
<1>4. Head(s) = "device" => Resources \ Range(s) = {"entity", "pcie_ctrl"}
  <2>1. 3 \in 1 .. Len(Probe) /\ Probe[3] = "device"
      BY DEF Probe
  <2>2. Head(s) = "device" => Range(s) = {Probe[j] : j \in 3 .. Len(Probe)}
      BY <1>1, <2>1, EndFrom
  <2>3. {Probe[j] : j \in 3 .. Len(Probe)} = {"device", "regions", "mask", "iomap", "msi", "irq", "parse",
            "rd_pool", "wt_pool", "ctrl_init", "config", "cdev"}
      BY DEF Probe
  <2> QED BY <2>2, <2>3 DEF Resources
<1>5. Head(s) = "regions" => Resources \ Range(s) = {"entity", "pcie_ctrl", "device"}
  <2>1. 4 \in 1 .. Len(Probe) /\ Probe[4] = "regions"
      BY DEF Probe
  <2>2. Head(s) = "regions" => Range(s) = {Probe[j] : j \in 4 .. Len(Probe)}
      BY <1>1, <2>1, EndFrom
  <2>3. {Probe[j] : j \in 4 .. Len(Probe)} = {"regions", "mask", "iomap", "msi", "irq", "parse", "rd_pool",
            "wt_pool", "ctrl_init", "config", "cdev"}
      BY DEF Probe
  <2> QED BY <2>2, <2>3 DEF Resources
<1>6. Head(s) = "mask" => Resources \ Range(s) = {"entity", "pcie_ctrl", "device", "regions"}
  <2>1. 5 \in 1 .. Len(Probe) /\ Probe[5] = "mask"
      BY DEF Probe
  <2>2. Head(s) = "mask" => Range(s) = {Probe[j] : j \in 5 .. Len(Probe)}
      BY <1>1, <2>1, EndFrom
  <2>3. {Probe[j] : j \in 5 .. Len(Probe)} = {"mask", "iomap", "msi", "irq", "parse", "rd_pool", "wt_pool",
            "ctrl_init", "config", "cdev"}
      BY DEF Probe
  <2> QED BY <2>2, <2>3 DEF Resources
<1>7. Head(s) = "iomap" => Resources \ Range(s) = {"entity", "pcie_ctrl", "device", "regions"}
  <2>1. 6 \in 1 .. Len(Probe) /\ Probe[6] = "iomap"
      BY DEF Probe
  <2>2. Head(s) = "iomap" => Range(s) = {Probe[j] : j \in 6 .. Len(Probe)}
      BY <1>1, <2>1, EndFrom
  <2>3. {Probe[j] : j \in 6 .. Len(Probe)} = {"iomap", "msi", "irq", "parse", "rd_pool", "wt_pool",
            "ctrl_init", "config", "cdev"}
      BY DEF Probe
  <2> QED BY <2>2, <2>3 DEF Resources
<1>8. Head(s) = "msi" => Resources \ Range(s) = {"entity", "pcie_ctrl", "device", "regions", "iomap"}
  <2>1. 7 \in 1 .. Len(Probe) /\ Probe[7] = "msi"
      BY DEF Probe
  <2>2. Head(s) = "msi" => Range(s) = {Probe[j] : j \in 7 .. Len(Probe)}
      BY <1>1, <2>1, EndFrom
  <2>3. {Probe[j] : j \in 7 .. Len(Probe)} = {"msi", "irq", "parse", "rd_pool", "wt_pool", "ctrl_init",
            "config", "cdev"}
      BY DEF Probe
  <2> QED BY <2>2, <2>3 DEF Resources
<1>9. Head(s) = "irq" => Resources \ Range(s) = {"entity", "pcie_ctrl", "device", "regions", "iomap", "msi"}
  <2>1. 8 \in 1 .. Len(Probe) /\ Probe[8] = "irq"
      BY DEF Probe
  <2>2. Head(s) = "irq" => Range(s) = {Probe[j] : j \in 8 .. Len(Probe)}
      BY <1>1, <2>1, EndFrom
  <2>3. {Probe[j] : j \in 8 .. Len(Probe)} = {"irq", "parse", "rd_pool", "wt_pool", "ctrl_init", "config",
            "cdev"}
      BY DEF Probe
  <2> QED BY <2>2, <2>3 DEF Resources
<1>10. Head(s) = "parse" => Resources \ Range(s) = {"entity", "pcie_ctrl", "device", "regions", "iomap",
           "msi", "irq"}
  <2>1. 9 \in 1 .. Len(Probe) /\ Probe[9] = "parse"
      BY DEF Probe
  <2>2. Head(s) = "parse" => Range(s) = {Probe[j] : j \in 9 .. Len(Probe)}
      BY <1>1, <2>1, EndFrom
  <2>3. {Probe[j] : j \in 9 .. Len(Probe)} = {"parse", "rd_pool", "wt_pool", "ctrl_init", "config", "cdev"}
      BY DEF Probe
  <2> QED BY <2>2, <2>3 DEF Resources
<1>11. Head(s) = "rd_pool" => Resources \ Range(s) = {"entity", "pcie_ctrl", "device", "regions", "iomap",
           "msi", "irq"}
  <2>1. 10 \in 1 .. Len(Probe) /\ Probe[10] = "rd_pool"
      BY DEF Probe
  <2>2. Head(s) = "rd_pool" => Range(s) = {Probe[j] : j \in 10 .. Len(Probe)}
      BY <1>1, <2>1, EndFrom
  <2>3. {Probe[j] : j \in 10 .. Len(Probe)} = {"rd_pool", "wt_pool", "ctrl_init", "config", "cdev"}
      BY DEF Probe
  <2> QED BY <2>2, <2>3 DEF Resources
<1>12. Head(s) = "wt_pool" => Resources \ Range(s) = {"entity", "pcie_ctrl", "device", "regions", "iomap",
           "msi", "irq", "rd_pool"}
  <2>1. 11 \in 1 .. Len(Probe) /\ Probe[11] = "wt_pool"
      BY DEF Probe
  <2>2. Head(s) = "wt_pool" => Range(s) = {Probe[j] : j \in 11 .. Len(Probe)}
      BY <1>1, <2>1, EndFrom
  <2>3. {Probe[j] : j \in 11 .. Len(Probe)} = {"wt_pool", "ctrl_init", "config", "cdev"}
      BY DEF Probe
  <2> QED BY <2>2, <2>3 DEF Resources
<1>13. Head(s) = "cdev" => Resources \ Range(s) = {"entity", "pcie_ctrl", "device", "regions", "iomap",
           "msi", "irq", "rd_pool", "wt_pool"}
  <2>1. 14 \in 1 .. Len(Probe) /\ Probe[14] = "cdev"
      BY DEF Probe
  <2>2. Head(s) = "cdev" => Range(s) = {Probe[j] : j \in 14 .. Len(Probe)}
      BY <1>1, <2>1, EndFrom
  <2>3. {Probe[j] : j \in 14 .. Len(Probe)} = {"cdev"}
      BY DEF Probe
  <2> QED BY <2>2, <2>3 DEF Resources
<1> QED
    BY <1>2, <1>3, <1>4, <1>5, <1>6, <1>7, <1>8, <1>9, <1>10, <1>11, <1>12, <1>13

(* ... and a slot reset, with what the way down kept.                       *)
LEMMA SlotResetGot ==
    ASSUME NEW s \in Seq(Steps), IsEndOf(s, SlotReset), s # <<>>
    PROVE
        /\ Head(s) = "device" => Resources \ Range(s) = Kept \cup {}
        /\ Head(s) = "regions" => Resources \ Range(s) = Kept \cup {"device"}
        /\ Head(s) = "mask" => Resources \ Range(s) = Kept \cup {"device", "regions"}
        /\ Head(s) = "iomap" => Resources \ Range(s) = Kept \cup {"device", "regions"}
        /\ Head(s) = "msi" => Resources \ Range(s) = Kept \cup {"device", "regions", "iomap"}
        /\ Head(s) = "irq" => Resources \ Range(s) = Kept \cup {"device", "regions", "iomap", "msi"}
<1>1. SlotReset \in Seq(Steps) /\ NoTwice(SlotReset)
    BY Routines
<1>2. Head(s) = "device" => Resources \ Range(s) = Kept \cup {}
  <2>1. 1 \in 1 .. Len(SlotReset) /\ SlotReset[1] = "device"
      BY DEF SlotReset
  <2>2. Head(s) = "device" => Range(s) = {SlotReset[j] : j \in 1 .. Len(SlotReset)}
      BY <1>1, <2>1, EndFrom
  <2>3. {SlotReset[j] : j \in 1 .. Len(SlotReset)} = {"device", "regions", "mask", "iomap", "msi", "irq",
            "ctrl_init", "config", "reset2", "enable"}
      BY DEF SlotReset
  <2> QED BY <2>2, <2>3 DEF Resources, Kept
<1>3. Head(s) = "regions" => Resources \ Range(s) = Kept \cup {"device"}
  <2>1. 2 \in 1 .. Len(SlotReset) /\ SlotReset[2] = "regions"
      BY DEF SlotReset
  <2>2. Head(s) = "regions" => Range(s) = {SlotReset[j] : j \in 2 .. Len(SlotReset)}
      BY <1>1, <2>1, EndFrom
  <2>3. {SlotReset[j] : j \in 2 .. Len(SlotReset)} = {"regions", "mask", "iomap", "msi", "irq", "ctrl_init",
            "config", "reset2", "enable"}
      BY DEF SlotReset
  <2> QED BY <2>2, <2>3 DEF Resources, Kept
<1>4. Head(s) = "mask" => Resources \ Range(s) = Kept \cup {"device", "regions"}
  <2>1. 3 \in 1 .. Len(SlotReset) /\ SlotReset[3] = "mask"
      BY DEF SlotReset
  <2>2. Head(s) = "mask" => Range(s) = {SlotReset[j] : j \in 3 .. Len(SlotReset)}
      BY <1>1, <2>1, EndFrom
  <2>3. {SlotReset[j] : j \in 3 .. Len(SlotReset)} = {"mask", "iomap", "msi", "irq", "ctrl_init", "config",
            "reset2", "enable"}
      BY DEF SlotReset
  <2> QED BY <2>2, <2>3 DEF Resources, Kept
<1>5. Head(s) = "iomap" => Resources \ Range(s) = Kept \cup {"device", "regions"}
  <2>1. 4 \in 1 .. Len(SlotReset) /\ SlotReset[4] = "iomap"
      BY DEF SlotReset
  <2>2. Head(s) = "iomap" => Range(s) = {SlotReset[j] : j \in 4 .. Len(SlotReset)}
      BY <1>1, <2>1, EndFrom
  <2>3. {SlotReset[j] : j \in 4 .. Len(SlotReset)} = {"iomap", "msi", "irq", "ctrl_init", "config", "reset2",
            "enable"}
      BY DEF SlotReset
  <2> QED BY <2>2, <2>3 DEF Resources, Kept
<1>6. Head(s) = "msi" => Resources \ Range(s) = Kept \cup {"device", "regions", "iomap"}
  <2>1. 5 \in 1 .. Len(SlotReset) /\ SlotReset[5] = "msi"
      BY DEF SlotReset
  <2>2. Head(s) = "msi" => Range(s) = {SlotReset[j] : j \in 5 .. Len(SlotReset)}
      BY <1>1, <2>1, EndFrom
  <2>3. {SlotReset[j] : j \in 5 .. Len(SlotReset)} = {"msi", "irq", "ctrl_init", "config", "reset2", "enable"}
      BY DEF SlotReset
  <2> QED BY <2>2, <2>3 DEF Resources, Kept
<1>7. Head(s) = "irq" => Resources \ Range(s) = Kept \cup {"device", "regions", "iomap", "msi"}
  <2>1. 6 \in 1 .. Len(SlotReset) /\ SlotReset[6] = "irq"
      BY DEF SlotReset
  <2>2. Head(s) = "irq" => Range(s) = {SlotReset[j] : j \in 6 .. Len(SlotReset)}
      BY <1>1, <2>1, EndFrom
  <2>3. {SlotReset[j] : j \in 6 .. Len(SlotReset)} = {"irq", "ctrl_init", "config", "reset2", "enable"}
      BY DEF SlotReset
  <2> QED BY <2>2, <2>3 DEF Resources, Kept
<1> QED
    BY <1>2, <1>3, <1>4, <1>5, <1>6, <1>7

(* What the exits of the setup give back ...                               *)
LEMMA UndoSetupIs ==
    ASSUME NEW x \in DOMAIN UndoSetup
    PROVE  /\ UndoSetup[x] \in Seq(Steps) /\ NoTwice(UndoSetup[x])
           /\ x = "device" => Range(UndoSetup[x]) = {}
           /\ x = "regions" => Range(UndoSetup[x]) = {"device"}
           /\ x = "mask" => Range(UndoSetup[x]) = {"regions", "device"}
           /\ x = "iomap" => Range(UndoSetup[x]) = {"regions", "device"}
           /\ x = "msi" => Range(UndoSetup[x]) = {"iomap", "regions", "device"}
           /\ x = "irq" => Range(UndoSetup[x]) = {"msi", "iomap", "regions", "device"}
<1>1. DOMAIN UndoSetup = {"device", "regions", "mask", "iomap", "msi", "irq"}
    BY DEF UndoSetup
<1>2. CASE x = "device"
  <2>1. UndoSetup[x] = <<>>
      BY <1>2 DEF UndoSetup
  <2> QED BY <1>2, <2>1, StepsAre DEF NoTwice, Range
<1>3. CASE x = "regions"
  <2>1. UndoSetup[x] = <<"device">>
      BY <1>3 DEF UndoSetup
  <2> QED BY <1>3, <2>1, StepsAre DEF NoTwice, Range
<1>4. CASE x = "mask"
  <2>1. UndoSetup[x] = <<"regions", "device">>
      BY <1>4 DEF UndoSetup
  <2> QED BY <1>4, <2>1, StepsAre DEF NoTwice, Range
<1>5. CASE x = "iomap"
  <2>1. UndoSetup[x] = <<"regions", "device">>
      BY <1>5 DEF UndoSetup
  <2> QED BY <1>5, <2>1, StepsAre DEF NoTwice, Range
<1>6. CASE x = "msi"
  <2>1. UndoSetup[x] = <<"iomap", "regions", "device">>
      BY <1>6 DEF UndoSetup
  <2> QED BY <1>6, <2>1, StepsAre DEF NoTwice, Range
<1>7. CASE x = "irq"
  <2>1. UndoSetup[x] = <<"msi", "iomap", "regions", "device">>
      BY <1>7 DEF UndoSetup
  <2> QED BY <1>7, <2>1, StepsAre DEF NoTwice, Range
<1> QED BY <1>1, <1>2, <1>3, <1>4, <1>5, <1>6, <1>7

(* ... and of the initialisation and of probe.                             *)
LEMMA UndoInitIs ==
    ASSUME NEW x \in DOMAIN UndoInit
    PROVE  /\ UndoInit[x] \in Seq(Steps) /\ NoTwice(UndoInit[x])
           /\ x = "parse" => Range(UndoInit[x]) = {}
           /\ x = "rd_pool" => Range(UndoInit[x]) = {}
           /\ x = "wt_pool" => Range(UndoInit[x]) = {"rd_pool"}
           /\ x = "cdev" => Range(UndoInit[x]) = {"rd_pool", "wt_pool"}
<1>1. DOMAIN UndoInit = {"parse", "rd_pool", "wt_pool", "cdev"}
    BY DEF UndoInit
<1>2. CASE x = "parse"
  <2>1. UndoInit[x] = <<>>
      BY <1>2 DEF UndoInit
  <2> QED BY <1>2, <2>1, StepsAre DEF NoTwice, Range
<1>3. CASE x = "rd_pool"
  <2>1. UndoInit[x] = <<>>
      BY <1>3 DEF UndoInit
  <2> QED BY <1>3, <2>1, StepsAre DEF NoTwice, Range
<1>4. CASE x = "wt_pool"
  <2>1. UndoInit[x] = <<"rd_pool">>
      BY <1>4 DEF UndoInit
  <2> QED BY <1>4, <2>1, StepsAre DEF NoTwice, Range
<1>5. CASE x = "cdev"
  <2>1. UndoInit[x] = <<"rd_pool", "wt_pool">>
      BY <1>5 DEF UndoInit, FreePool
  <2> QED BY <1>5, <2>1, StepsAre DEF NoTwice, Range
<1> QED BY <1>1, <1>2, <1>3, <1>4, <1>5

(* A probe that fails gives back exactly what it has got.                  *)
LEMMA UndoProbeIs ==
    ASSUME NEW s \in Seq(Steps), IsEndOf(s, Probe), s # <<>>, NEW x \in Resources \cup Checks, Head(s) = x
    PROVE  /\ UndoProbe(x) \in Seq(Steps) /\ NoTwice(UndoProbe(x))
           /\ Range(UndoProbe(x)) = Resources \ Range(s)
<1>1. FreeAll \in Seq(Steps) /\ NoTwice(FreeAll) /\ Range(FreeAll) = {"pcie_ctrl", "entity"}
    BY StepsAre DEF FreeAll, NoTwice, Range
<1>2. Cleanup \in Seq(Steps) /\ NoTwice(Cleanup) /\ Range(Cleanup) = {"irq", "msi", "iomap", "regions",
          "device"}
    BY StepsAre DEF Cleanup, NoTwice, Range
<1>3. /\ Cleanup \o FreeAll \in Seq(Steps) /\ NoTwice(Cleanup \o FreeAll)
      /\ Range(Cleanup \o FreeAll) = {"irq", "msi", "iomap", "regions", "device", "pcie_ctrl", "entity"}
    BY <1>1, <1>2, Cat
<1>4. DOMAIN UndoSetup = {"device", "regions", "mask", "iomap", "msi", "irq"} /\ DOMAIN UndoInit = {"parse",
          "rd_pool", "wt_pool", "cdev"}
    BY DEF UndoSetup, UndoInit
<1> DEFINE all == Cleanup \o FreeAll
<1>9. all \in Seq(Steps) /\ NoTwice(all) /\ Range(all) = {"irq", "msi", "iomap", "regions", "device",
          "pcie_ctrl", "entity"}
    BY <1>3
<1>5. CASE x \in DOMAIN UndoSetup
  <2>1. UndoProbe(x) = UndoSetup[x] \o FreeAll
      BY <1>4, <1>5 DEF UndoProbe
  <2>2. Range(UndoSetup[x]) \cap Range(FreeAll) = {} /\ UndoSetup[x] \in Seq(Steps) /\ NoTwice(UndoSetup[x])
      BY <1>1, <1>4, <1>5, UndoSetupIs
  <2>3. /\ UndoProbe(x) \in Seq(Steps) /\ NoTwice(UndoProbe(x))
        /\ Range(UndoProbe(x)) = Range(UndoSetup[x]) \cup {"pcie_ctrl", "entity"}
      BY <1>1, <2>1, <2>2, Cat
  <2>4. Range(UndoProbe(x)) = Resources \ Range(s)
      BY <1>4, <1>5, <2>3, UndoSetupIs, ProbeGot
  <2> QED BY <2>3, <2>4
<1>6. CASE x \in DOMAIN UndoInit
  <2>1. UndoProbe(x) = UndoInit[x] \o all
      BY <1>4, <1>6 DEF UndoProbe
  <2>2. Range(UndoInit[x]) \cap Range(all) = {} /\ UndoInit[x] \in Seq(Steps) /\ NoTwice(UndoInit[x])
      BY <1>3, <1>4, <1>6, UndoInitIs
  <2> HIDE DEF all
  <2>3. /\ UndoProbe(x) \in Seq(Steps) /\ NoTwice(UndoProbe(x))
        /\ Range(UndoProbe(x)) = Range(UndoInit[x]) \cup {"irq", "msi", "iomap", "regions", "device",
               "pcie_ctrl", "entity"}
      BY <1>9, <2>1, <2>2, Cat
  <2>4. Range(UndoProbe(x)) = Resources \ Range(s)
      BY <1>4, <1>6, <2>3, UndoInitIs, ProbeGot
  <2> QED BY <2>3, <2>4
<1>7. CASE x = "entity"
  <2>1. UndoProbe(x) = <<>>
      BY <1>4, <1>7 DEF UndoProbe
  <2>2. UndoProbe(x) \in Seq(Steps) /\ NoTwice(UndoProbe(x)) /\ Range(UndoProbe(x)) = {}
      BY <2>1 DEF NoTwice, Range
  <2> QED BY <1>7, <2>2, ProbeGot
<1>8. CASE x = "pcie_ctrl"
  <2>1. UndoProbe(x) = <<"entity">>
      BY <1>4, <1>8 DEF UndoProbe
  <2>2. UndoProbe(x) \in Seq(Steps) /\ NoTwice(UndoProbe(x)) /\ Range(UndoProbe(x)) = {"entity"}
      BY <2>1, StepsAre DEF NoTwice, Range
  <2> QED BY <1>8, <2>2, ProbeGot
<1> QED BY <1>4, <1>5, <1>6, <1>7, <1>8 DEF Resources, Checks

(* A slot reset that fails gives back what it has got, and keeps what the  *)
(* way down kept.                                                          *)
LEMMA UndoResetIs ==
    ASSUME NEW s \in Seq(Steps), IsEndOf(s, SlotReset), s # <<>>, NEW x \in Resources \cup Checks, Head(s) = x
    PROVE  /\ UndoSetup[x] \in Seq(Steps) /\ NoTwice(UndoSetup[x])
           /\ Range(UndoSetup[x]) \cap Kept = {}
           /\ Kept \cup Range(UndoSetup[x]) = Resources \ Range(s)
<1>1. DOMAIN UndoSetup = {"device", "regions", "mask", "iomap", "msi", "irq"}
    BY DEF UndoSetup
<1>2. Head(s) \in Range(s) /\ Range(s) \cap ({"disable", "reset", "drain", "parse"} \cup Kept) = {}
    BY TailLeft, SlotResetLeft
<1>3. x \in DOMAIN UndoSetup
    BY <1>1, <1>2 DEF Kept, Resources, Checks
<1>4. UndoSetup[x] \in Seq(Steps) /\ NoTwice(UndoSetup[x]) /\ Range(UndoSetup[x]) \cap Kept = {}
    BY <1>1, <1>3, UndoSetupIs DEF Kept
<1>5. Kept \cup Range(UndoSetup[x]) = Resources \ Range(s)
    BY <1>1, <1>2, <1>3, UndoSetupIs, SlotResetGot
<1> QED BY <1>4, <1>5

-----------------------------------------------------------------------------
(* What the driver has, by what the card is to the PCI core and what is    *)
(* left of the routine.                                                    *)
Holds(state, left, has, gone) ==
    /\ state \in Idle => left = <<>>
    /\ state = "unbound" => has = {}
    /\ state \in {"bound", "failed"} => has = Resources
    /\ state \in {"needs_reset", "disconnected"} => has = Kept
    /\ state = "probe" => IsEndOf(left, Probe) /\ has = Resources \ Range(left)
    /\ state = "slot_reset" => IsEndOf(left, SlotReset) /\ has = Resources \ Range(left)
    /\ state = "recover" =>
         IsEndOf(left, Recover) /\ has = Kept \cup (Range(left) \cap Resources)
    /\ state = "remove" =>
         /\ IsEndOf(left, PciRemove) /\ has \subseteq Range(left)
         /\ has = Range(left) \cap Resources \/ gone
    /\ state = "undo_probe" =>
         NoTwice(left) /\ Range(left) \subseteq Resources /\ has = Range(left)
    /\ state = "undo_reset" =>
         NoTwice(left) /\ Range(left) \subseteq Resources \ Kept /\ has = Kept \cup Range(left)

HeldInv  == Holds(core, todo[Core], held, abandoned)
IoctlInv == \A u \in Users :
    /\ IsEndOf(todo[u], Stop) \/ IsEndOf(todo[u], Restart)
    /\ todo[u] # <<>> => upc[u] = "ioctl"

(* A routine that begins has all of its steps left.                        *)
LEMMA WholeRoutines ==
    /\ IsEndOf(Probe, Probe) /\ Resources \ Range(Probe) = {}
    /\ IsEndOf(SlotReset, SlotReset) /\ Resources \ Range(SlotReset) = Kept
    /\ IsEndOf(Recover, Recover) /\ Kept \cup (Range(Recover) \cap Resources) = Resources
    /\ IsEndOf(PciRemove, PciRemove) /\ Range(PciRemove) \cap Resources = Resources
    /\ Kept \subseteq Resources
<1>1. ASSUME NEW R \in Seq(Steps) PROVE IsEndOf(R, R)
  <2>1. Len(R) \in Nat
      OBVIOUS
  <2> HIDE DEF Steps
  <2> QED BY <2>1 DEF IsEndOf
<1>2. Range(Probe) = {"entity", "pcie_ctrl", "device", "regions", "mask", "iomap", "msi", "irq",
               "parse", "rd_pool", "wt_pool", "ctrl_init", "config", "cdev"}
    BY DEF Probe, Range
<1>3. Range(SlotReset) = {"device", "regions", "mask", "iomap", "msi", "irq", "ctrl_init", "config",
               "reset2", "enable"}
    BY DEF SlotReset, Range
<1>4. Range(Recover) = {"disable", "reset", "drain", "irq", "msi", "iomap", "regions", "device"}
    BY DEF Recover, Range
<1>5. Range(PciRemove) = {"cdev", "disable", "reset", "drain", "rd_pool", "wt_pool",
               "irq", "msi", "iomap", "regions", "device", "pcie_ctrl", "entity"}
    BY DEF PciRemove, Range
<1>6. IsEndOf(Probe, Probe) /\ IsEndOf(SlotReset, SlotReset) /\ IsEndOf(Recover, Recover)
          /\ IsEndOf(PciRemove, PciRemove)
    BY <1>1, Routines
<1>7. Resources \ Range(Probe) = {} /\ Kept \subseteq Resources
    BY <1>2 DEF Resources, Kept
<1>8. Resources \ Range(SlotReset) = Kept
    BY <1>3 DEF Resources, Kept
<1>9. Kept \cup (Range(Recover) \cap Resources) = Resources
    BY <1>4 DEF Resources, Kept
<1>10. Range(PciRemove) \cap Resources = Resources
    BY <1>5 DEF Resources
<1> QED BY <1>6, <1>7, <1>8, <1>9, <1>10

(* A step that gets or gives back nothing ...                              *)
LEMMA PassHolds ==
    ASSUME NEW c, NEW s \in Seq(Steps), NEW h \in SUBSET Resources, NEW g, Holds(c, s, h, g),
           s # <<>>, Head(s) \notin Resources
    PROVE  Holds(c, Tail(s), h, g)
<1>1. Range(s) = {Head(s)} \cup Range(Tail(s))
    BY TailLeft
<1>2. \A R \in {Probe, SlotReset, Recover, PciRemove} : IsEndOf(s, R) => IsEndOf(Tail(s), R)
    BY TailIsEnd, Routines
<1>3. c \notin {"undo_probe", "undo_reset"} /\ c \notin Idle
    BY <1>1 DEF Holds
<1>4. /\ c = "probe" => IsEndOf(Tail(s), Probe) /\ h = Resources \ Range(Tail(s))
      /\ c = "slot_reset" => IsEndOf(Tail(s), SlotReset) /\ h = Resources \ Range(Tail(s))
    BY <1>1, <1>2 DEF Holds
<1>5. c = "recover" => IsEndOf(Tail(s), Recover) /\ h = Kept \cup (Range(Tail(s)) \cap Resources)
    BY <1>1, <1>2 DEF Holds
<1>6. c = "remove" =>
         /\ IsEndOf(Tail(s), PciRemove) /\ h \subseteq Range(Tail(s))
         /\ h = Range(Tail(s)) \cap Resources \/ g
    BY <1>1, <1>2 DEF Holds
<1> QED BY <1>3, <1>4, <1>5, <1>6 DEF Holds, Idle

(* ... one that gets a resource ...                                        *)
LEMMA GetHolds ==
    ASSUME NEW c \in {"probe", "slot_reset"}, NEW s \in Seq(Steps), NEW h \in SUBSET Resources, NEW g,
           Holds(c, s, h, g), s # <<>>
    PROVE  Holds(c, Tail(s), h \cup ({Head(s)} \cap Resources), g) /\ Head(s) \notin h
<1>1. Range(s) = {Head(s)} \cup Range(Tail(s)) /\ (NoTwice(s) => Head(s) \notin Range(Tail(s)))
    BY TailLeft
<1>2. \A R \in {Probe, SlotReset} : IsEndOf(s, R) => IsEndOf(Tail(s), R)
    BY TailIsEnd, Routines
<1>3. NoTwice(s) /\ h = Resources \ Range(s)
    BY ProbeLeft, SlotResetLeft DEF Holds
<1>4. h \cup ({Head(s)} \cap Resources) = Resources \ Range(Tail(s)) /\ Head(s) \notin h
    BY <1>1, <1>3
<1> QED BY <1>2, <1>4 DEF Holds, Idle

(* ... one that gives it back ...                                          *)
LEMMA GiveHolds ==
    ASSUME NEW c \in Busy \ {"probe", "slot_reset"}, NEW s \in Seq(Steps), NEW h \in SUBSET Resources,
           NEW g \in BOOLEAN, Holds(c, s, h, g), s # <<>>, Head(s) \in Resources
    PROVE  Holds(c, Tail(s), h \ {Head(s)}, g) /\ (Head(s) \in h \/ g)
<1>1. Range(s) = {Head(s)} \cup Range(Tail(s)) /\ (NoTwice(s) => Head(s) \notin Range(Tail(s)))
          /\ (NoTwice(s) => NoTwice(Tail(s)))
    BY TailLeft
<1>2. \A R \in {Recover, PciRemove} : IsEndOf(s, R) => IsEndOf(Tail(s), R)
    BY TailIsEnd, Routines
<1>3. CASE c = "recover"
  <2>1. NoTwice(s) /\ Head(s) \notin Kept /\ h = Kept \cup (Range(s) \cap Resources)
      BY <1>1, <1>3, RecoverLeft DEF Holds
  <2>2. h \ {Head(s)} = Kept \cup (Range(Tail(s)) \cap Resources) /\ Head(s) \in h
      BY <1>1, <2>1
  <2> QED BY <1>2, <1>3, <2>2 DEF Holds, Idle
<1>4. CASE c = "remove"
  <2>1. NoTwice(s) /\ h \subseteq Range(s) /\ (h = Range(s) \cap Resources \/ g)
      BY <1>4, RemoveLeft DEF Holds
  <2>2. /\ h \ {Head(s)} \subseteq Range(Tail(s)) /\ (Head(s) \in h \/ g)
        /\ h \ {Head(s)} = Range(Tail(s)) \cap Resources \/ g
      BY <1>1, <2>1
  <2> QED BY <1>2, <1>4, <2>2 DEF Holds, Idle
<1>5. CASE c = "undo_probe"
  <2>1. /\ NoTwice(Tail(s)) /\ Range(Tail(s)) \subseteq Resources
        /\ h \ {Head(s)} = Range(Tail(s)) /\ Head(s) \in h
      BY <1>1, <1>5 DEF Holds
  <2> QED BY <1>5, <2>1 DEF Holds, Idle
<1>6. CASE c = "undo_reset"
  <2>1. /\ NoTwice(Tail(s)) /\ Range(Tail(s)) \subseteq Resources \ Kept
        /\ h \ {Head(s)} = Kept \cup Range(Tail(s)) /\ Head(s) \in h
      BY <1>1, <1>6 DEF Holds
  <2> QED BY <1>6, <2>1 DEF Holds, Idle
<1> QED BY <1>3, <1>4, <1>5, <1>6 DEF Busy

(* ... and one that fails.                                                 *)
LEMMA FailHolds ==
    ASSUME NEW c \in {"probe", "slot_reset"}, NEW s \in Seq(Steps), NEW h \in SUBSET Resources, NEW g,
           Holds(c, s, h, g), s # <<>>, Head(s) \in Resources \cup Checks
    PROVE  /\ c = "probe" => /\ Holds("undo_probe", UndoProbe(Head(s)), h, g)
                             /\ UndoProbe(Head(s)) \in Seq(Steps)
           /\ c = "slot_reset" => /\ Holds("undo_reset", UndoSetup[Head(s)], h, g)
                                  /\ UndoSetup[Head(s)] \in Seq(Steps)
<1>1. CASE c = "probe"
  <2>1. IsEndOf(s, Probe) /\ h = Resources \ Range(s)
      BY <1>1 DEF Holds
  <2>2. /\ UndoProbe(Head(s)) \in Seq(Steps) /\ NoTwice(UndoProbe(Head(s)))
        /\ Range(UndoProbe(Head(s))) = Resources \ Range(s)
      BY <2>1, UndoProbeIs
  <2> QED BY <1>1, <2>1, <2>2 DEF Holds, Idle
<1>2. CASE c = "slot_reset"
  <2>1. IsEndOf(s, SlotReset) /\ h = Resources \ Range(s)
      BY <1>2 DEF Holds
  <2>2. /\ UndoSetup[Head(s)] \in Seq(Steps) /\ NoTwice(UndoSetup[Head(s)])
        /\ Range(UndoSetup[Head(s)]) \cap Kept = {}
        /\ Kept \cup Range(UndoSetup[Head(s)]) = Resources \ Range(s)
      BY <2>1, UndoResetIs
  <2> QED BY <1>2, <2>1, <2>2 DEF Holds, Idle
<1> QED BY <1>1, <1>2

(* What a call that is past its check uses.                                *)
CallNeeds == {"entity", "iomap", "irq", "rd_pool", "wt_pool"}

(* What is left of a routine says which routine it is, and what there is.  *)
LEMMA CoreLeft ==
    ASSUME NEW c \in Idle \cup Busy, NEW s \in Seq(Steps), NEW h \in SUBSET Resources, NEW g,
           Holds(c, s, h, g), s # <<>>
    PROVE  /\ NoTwice(s) /\ c \in Busy
           /\ "disable" \in Range(s) => "drain" \in Range(s)
           /\ Head(s) = "reset" => Len(s) > 1 /\ Head(Tail(s)) = "drain"
           /\ Range(s) \cap Stopping # {} =>
                /\ c \in {"recover", "remove"}
                /\ CallNeeds \subseteq h \/ (c = "remove" /\ h # Range(s) \cap Resources)
           /\ Range(s) \cap {"ctrl_init", "config", "mask", "parse"} # {} => c \in {"probe", "slot_reset"}
           /\ Range(s) \cap {"reset2", "enable"} # {} => c = "slot_reset"
           /\ c = "slot_reset" => "enable" \in Range(s)
           /\ Head(s) \in {"config", "reset2", "enable"} => "iomap" \in h
           /\ Head(s) = "enable" => Tail(s) = <<>>
<1>1. Head(s) \in Range(s) /\ c \in Busy /\ CallNeeds \subseteq Resources
    BY TailLeft DEF Holds, CallNeeds, Resources
<1>2. CASE c = "probe"
  <2>1. /\ NoTwice(s) /\ h = Resources \ Range(s)
        /\ Range(s) \cap {"disable", "reset", "drain", "reset2", "enable"} = {}
        /\ Head(s) = "config" => "iomap" \notin Range(s)
      BY <1>2, ProbeLeft DEF Holds
  <2> QED BY <1>1, <1>2, <2>1 DEF Stopping, Resources
<1>3. CASE c = "slot_reset"
  <2>1. /\ NoTwice(s) /\ h = Resources \ Range(s)
        /\ Range(s) \cap {"disable", "reset", "drain", "parse"} = {}
        /\ Head(s) \in {"config", "reset2", "enable"} => "iomap" \notin Range(s)
        /\ "enable" \in Range(s)
        /\ Head(s) = "enable" => Tail(s) = <<>>
      BY <1>3, SlotResetLeft DEF Holds
  <2> QED BY <1>1, <1>3, <2>1 DEF Stopping, Resources
<1>4. CASE c = "recover"
  <2>1. /\ NoTwice(s) /\ h = Kept \cup (Range(s) \cap Resources)
        /\ "disable" \in Range(s) => "drain" \in Range(s)
        /\ Head(s) = "reset" => Len(s) > 1 /\ Head(Tail(s)) = "drain"
        /\ Range(s) \cap {"ctrl_init", "config", "reset2", "enable", "mask", "parse"} = {}
        /\ Range(s) \cap Stopping # {} => {"irq", "iomap"} \subseteq Range(s)
      BY <1>4, RecoverLeft DEF Holds
  <2>2. Range(s) \cap Stopping # {} => CallNeeds \subseteq h
      BY <2>1 DEF CallNeeds, Kept, Resources
  <2> QED BY <1>1, <1>4, <2>1, <2>2
<1>5. CASE c = "remove"
  <2>1. /\ NoTwice(s)
        /\ "disable" \in Range(s) => "drain" \in Range(s)
        /\ Head(s) = "reset" => Len(s) > 1 /\ Head(Tail(s)) = "drain"
        /\ Range(s) \cap {"ctrl_init", "config", "reset2", "enable", "mask", "parse"} = {}
        /\ Range(s) \cap Stopping # {} => CallNeeds \subseteq Range(s)
      BY <1>5, RemoveLeft DEF Holds, CallNeeds
  <2> QED BY <1>1, <1>5, <2>1
<1>6. CASE c \in {"undo_probe", "undo_reset"}
  <2>1. NoTwice(s) /\ Range(s) \subseteq Resources
      BY <1>6 DEF Holds
  <2> QED BY <1>1, <1>6, <2>1 DEF Resources, Stopping
<1> QED BY <1>1, <1>2, <1>3, <1>4, <1>5, <1>6 DEF Busy

-----------------------------------------------------------------------------
(* An actor that does a step has it off its list, and leaves the others'   *)
(* lists alone.                                                            *)
LEMMA StepDone ==
    ASSUME TypeOK, NEW a \in Actors, NEW x, Doing(a, x)
    PROVE  /\ todo' \in [Actors -> Seq(Steps)]
           /\ todo'[a] = Tail(todo[a]) /\ todo[a] # <<>> /\ Head(todo[a]) = x
           /\ todo[a] \in Seq(Steps) /\ x \in Left(a)
           /\ Left(a) = {x} \cup Left(a)'
           /\ \A b \in Actors \ {a} : todo'[b] = todo[b]
<1>1. todo \in [Actors -> Seq(Steps)] /\ todo[a] \in Seq(Steps) /\ todo[a] # <<>> /\ Head(todo[a]) = x
    BY DEF TypeOK, Doing, Faces
<1>2. todo' = [todo EXCEPT ![a] = Tail(todo[a])]
    BY DEF Doing
<1>3. Tail(todo[a]) \in Seq(Steps) /\ Range(todo[a]) = {x} \cup Range(Tail(todo[a]))
    BY <1>1, TailLeft
<1> QED BY <1>1, <1>2, <1>3 DEF Left

(* A reset that times out passes over the drain.                           *)
LEMMA ResetDone ==
    ASSUME TypeOK, HeldInv, IoctlInv, NEW a \in Actors, Reset(a)
    PROVE  /\ todo[a] \in Seq(Steps) /\ todo[a] # <<>> /\ Head(todo[a]) = "reset"
           /\ Tail(todo[a]) \in Seq(Steps) /\ Tail(todo[a]) # <<>> /\ Head(Tail(todo[a])) = "drain"
           /\ todo' \in [Actors -> Seq(Steps)]
           /\ \A b \in Actors \ {a} : todo'[b] = todo[b]
           /\ \/ todo'[a] = Tail(todo[a]) /\ upset' = upset
              \/ todo'[a] = Tail(Tail(todo[a])) /\ upset'
<1>1. todo \in [Actors -> Seq(Steps)] /\ todo[a] \in Seq(Steps) /\ todo[a] # <<>> /\ Head(todo[a]) = "reset"
    BY DEF TypeOK, Reset, Faces
<1>2. Len(todo[a]) > 1 /\ Head(Tail(todo[a])) = "drain"
  <2>1. CASE a = Core
    <3>1. Holds(core, todo[Core], held, abandoned) /\ core \in Idle \cup Busy /\ held \in SUBSET Resources
        BY DEF HeldInv, TypeOK
    <3> QED BY <1>1, <2>1, <3>1, CoreLeft
  <2>2. CASE a \in Users
    <3>1. IsEndOf(todo[a], Stop) \/ IsEndOf(todo[a], Restart)
        BY <2>2 DEF IoctlInv
    <3> QED BY <1>1, <3>1, IoctlLeft
  <2> QED BY <2>1, <2>2 DEF Actors
<1>3. Tail(todo[a]) \in Seq(Steps) /\ Tail(todo[a]) # <<>>
  <2>1. Tail(todo[a]) \in Seq(Steps) /\ Len(Tail(todo[a])) = Len(todo[a]) - 1 /\ Len(todo[a]) \in Nat
      BY <1>1, TailLeft
  <2>2. Len(Tail(todo[a])) > 0
      BY <1>2, <2>1
  <2> QED BY <2>1, <2>2, EmptyLen
<1>4. Tail(Tail(todo[a])) \in Seq(Steps)
    BY <1>3, TailLeft
<1>5. \/ todo' = [todo EXCEPT ![a] = Tail(todo[a])] /\ upset' = upset
      \/ todo' = [todo EXCEPT ![a] = Tail(Tail(todo[a]))] /\ upset' = TRUE
    BY DEF Reset
<1>6. \/ todo'[a] = Tail(todo[a]) /\ upset' = upset
      \/ todo'[a] = Tail(Tail(todo[a])) /\ upset'
    BY <1>1, <1>5
<1>7. todo' \in [Actors -> Seq(Steps)]
    BY <1>1, <1>3, <1>4, <1>5
<1>8. \A b \in Actors \ {a} : todo'[b] = todo[b]
    BY <1>1, <1>5
<1> QED BY <1>1, <1>2, <1>3, <1>6, <1>7, <1>8

(* What holds of the lists of steps and of what the driver has, step by    *)
(* step.                                                                   *)
ListInv == TypeOK /\ HeldInv /\ IoctlInv

(* Whatever an actor does that gets and gives back nothing.                *)
LEMMA PassList ==
    ASSUME ListInv, NEW a \in Actors, NEW s \in Seq(Steps), s # <<>>, Head(s) \notin Resources,
           IF a = Core THEN Holds(core, s, held, abandoned)
           ELSE upc[a] = "ioctl" /\ (IsEndOf(s, Stop) \/ IsEndOf(s, Restart)),
           todo' \in [Actors -> Seq(Steps)], todo'[a] = Tail(s), \A b \in Actors \ {a} : todo'[b] = todo[b],
           core' = core, held' = held, abandoned' = abandoned, upc' = upc
    PROVE  HeldInv' /\ IoctlInv'
<1>1. Core \in Actors /\ \A u \in Users : u # Core /\ u \in Actors
    BY ProbeAssumption DEF Actors
<1>2. HeldInv'
  <2>1. CASE a = Core
    <3>1. Holds(core, Tail(s), held, abandoned)
      <4>1. held \in SUBSET Resources
          BY DEF ListInv, TypeOK
      <4> QED BY <2>1, <4>1, PassHolds
    <3> QED BY <2>1, <3>1 DEF HeldInv
  <2>2. CASE a # Core
      BY <1>1, <2>2 DEF ListInv, HeldInv
  <2> QED BY <2>1, <2>2
<1>3. ASSUME NEW u \in Users
      PROVE  /\ IsEndOf(todo'[u], Stop) \/ IsEndOf(todo'[u], Restart)
             /\ todo'[u] # <<>> => upc[u] = "ioctl"
  <2>1. CASE u = a
    <3>1. upc[a] = "ioctl" /\ (IsEndOf(s, Stop) \/ IsEndOf(s, Restart))
        BY <1>1, <2>1
    <3>2. Stop \in Seq(Steps) /\ Restart \in Seq(Steps)
        BY Routines
    <3>3. IsEndOf(Tail(s), Stop) \/ IsEndOf(Tail(s), Restart)
        BY <3>1, <3>2, TailIsEnd
    <3> QED BY <2>1, <3>1, <3>3
  <2>2. CASE u # a
      BY <1>1, <2>2 DEF ListInv, IoctlInv
  <2> QED BY <2>1, <2>2
<1> QED BY <1>2, <1>3 DEF IoctlInv

(* What an actor that has something left may still do.                     *)
LEMMA ActorLeft ==
    ASSUME ListInv, NEW a \in Actors
    PROVE  IF a = Core THEN Holds(core, todo[a], held, abandoned)
           ELSE /\ IsEndOf(todo[a], Stop) \/ IsEndOf(todo[a], Restart)
                /\ todo[a] # <<>> => upc[a] = "ioctl"
BY ProbeAssumption DEF ListInv, HeldInv, IoctlInv, Actors

(* A step of STOP or START keeps the lists, and what is held.              *)
LEMMA StopOrStartList ==
    ASSUME ListInv, NEW a \in Actors, StopOrStart(a)
    PROVE  ListInv'
<1> USE DEF core_vars, dev_vars
<1>1. {"disable", "reset", "drain", "reset2", "enable"} \cap Resources = {}
    BY DEF Resources
<1>2. core' = core /\ held' = held /\ abandoned' = abandoned /\ upc' = upc /\ minor_idx' = minor_idx
      /\ fails' = fails /\ errors' = errors /\ rw_cnt' = rw_cnt
    BY DEF StopOrStart, Disable, Reset, Drain, Reset2, Enable
<1>3. dma_enable' \in {0, 1} /\ fault' \in BOOLEAN /\ upset' \in BOOLEAN
    BY DEF StopOrStart, Disable, Reset, Drain, Reset2, Enable, Touch, ListInv, TypeOK
<1>4. ASSUME NEW x \in {"disable", "drain", "reset2", "enable"}, Doing(a, x)
      PROVE  todo' \in [Actors -> Seq(Steps)] /\ HeldInv' /\ IoctlInv'
  <2>1. /\ todo' \in [Actors -> Seq(Steps)] /\ todo'[a] = Tail(todo[a]) /\ todo[a] # <<>>
        /\ Head(todo[a]) = x /\ todo[a] \in Seq(Steps) /\ \A b \in Actors \ {a} : todo'[b] = todo[b]
      BY <1>4, StepDone DEF ListInv
  <2>2. IF a = Core THEN Holds(core, todo[a], held, abandoned)
        ELSE upc[a] = "ioctl" /\ (IsEndOf(todo[a], Stop) \/ IsEndOf(todo[a], Restart))
      BY <2>1, ActorLeft
  <2>3. Head(todo[a]) \notin Resources
      BY <1>1, <2>1
  <2>4. HeldInv' /\ IoctlInv'
      BY <1>2, <2>1, <2>2, <2>3, PassList
  <2> QED BY <2>1, <2>4
<1>5. ASSUME Reset(a)
      PROVE  todo' \in [Actors -> Seq(Steps)] /\ HeldInv' /\ IoctlInv'
  <2>1. /\ todo[a] \in Seq(Steps) /\ todo[a] # <<>> /\ Head(todo[a]) = "reset"
        /\ Tail(todo[a]) \in Seq(Steps) /\ Tail(todo[a]) # <<>> /\ Head(Tail(todo[a])) = "drain"
        /\ todo' \in [Actors -> Seq(Steps)]
        /\ \A b \in Actors \ {a} : todo'[b] = todo[b]
        /\ todo'[a] = Tail(todo[a]) \/ todo'[a] = Tail(Tail(todo[a]))
      BY <1>5, ResetDone DEF ListInv
  <2>2. IF a = Core THEN Holds(core, todo[a], held, abandoned)
        ELSE upc[a] = "ioctl" /\ (IsEndOf(todo[a], Stop) \/ IsEndOf(todo[a], Restart))
      BY <2>1, ActorLeft
  <2>3. Head(todo[a]) \notin Resources /\ Head(Tail(todo[a])) \notin Resources
      BY <1>1, <2>1
  <2>4. CASE todo'[a] = Tail(todo[a])
      BY <1>2, <2>1, <2>2, <2>3, <2>4, PassList
  <2>5. CASE todo'[a] = Tail(Tail(todo[a]))
    <3>1. IF a = Core THEN Holds(core, Tail(todo[a]), held, abandoned)
          ELSE upc[a] = "ioctl" /\ (IsEndOf(Tail(todo[a]), Stop) \/ IsEndOf(Tail(todo[a]), Restart))
      <4>1. CASE a = Core
        <5>1. held \in SUBSET Resources
            BY DEF ListInv, TypeOK
        <5> QED BY <2>1, <2>2, <2>3, <4>1, <5>1, PassHolds
      <4>2. CASE a # Core
        <5>1. Stop \in Seq(Steps) /\ Restart \in Seq(Steps)
            BY Routines
        <5> QED BY <2>1, <2>2, <4>2, <5>1, TailIsEnd
      <4> QED BY <4>1, <4>2
    <3> QED BY <1>2, <2>1, <2>3, <2>5, <3>1, PassList
  <2> QED BY <2>1, <2>4, <2>5
<1>6. todo' \in [Actors -> Seq(Steps)] /\ HeldInv' /\ IoctlInv'
    BY <1>4, <1>5 DEF StopOrStart, Disable, Drain, Reset2, Enable
<1> QED BY <1>2, <1>3, <1>6 DEF ListInv, TypeOK

(* The core's calls into the driver begin with all steps of the routine.   *)
LEMMA CallList ==
    ASSUME ListInv, CallProbe \/ CallRemove \/ ErrorDetected \/ CallSlotReset
    PROVE  ListInv'
<1> USE DEF dev_vars
<1>1. held' = held /\ minor_idx' = minor_idx /\ fails' = fails /\ dma_enable' = dma_enable
      /\ rw_cnt' = rw_cnt /\ upc' = upc /\ fault' = fault
    BY DEF CallProbe, CallRemove, ErrorDetected, CallSlotReset, Call
<1>2. \E steps \in {Probe, PciRemove, Recover, SlotReset, <<>>} : todo' = [todo EXCEPT ![Core] = steps]
    BY DEF CallProbe, CallRemove, ErrorDetected, CallSlotReset, Call
<1>3. /\ todo' \in [Actors -> Seq(Steps)]
      /\ \A u \in Users : todo'[u] = todo[u]
  <2>3. <<>> \in Seq(Steps)
      OBVIOUS
  <2>1. \A steps \in {Probe, PciRemove, Recover, SlotReset, <<>>} : steps \in Seq(Steps)
    <3> HIDE DEF Steps
    <3> QED BY <2>3, Routines
  <2>2. todo \in [Actors -> Seq(Steps)] /\ Core \in Actors /\ \A u \in Users : u # Core /\ u \in Actors
      BY ProbeAssumption DEF ListInv, TypeOK, Actors
  <2> QED BY <1>2, <2>1, <2>2
<1>4. todo \in [Actors -> Seq(Steps)] /\ Core \in Actors /\ held \in SUBSET Resources
    BY DEF ListInv, TypeOK, Actors
<1>5. core' \in Idle \cup Busy /\ errors' \in 0 .. MaxErrors /\ {upset', abandoned'} \subseteq BOOLEAN
  <2>1. CASE CallProbe
      BY <2>1 DEF CallProbe, Call, Busy, ListInv, TypeOK
  <2>2. CASE CallRemove
      BY <2>2 DEF CallRemove, Call, Busy, ListInv, TypeOK
  <2>3. CASE ErrorDetected
    <3>1. errors < MaxErrors /\ errors' = errors + 1 /\ abandoned' = abandoned /\ core' \in {"recover",
              "failed"}
        BY <2>3 DEF ErrorDetected, Call
    <3>2. upset' \in BOOLEAN
        BY <2>3 DEF ErrorDetected, ListInv, TypeOK
    <3>3. errors' \in 0 .. MaxErrors
        BY <3>1, ProbeAssumption DEF ListInv, TypeOK
    <3> QED BY <3>1, <3>2, <3>3 DEF Busy, Idle, ListInv, TypeOK
  <2>4. CASE CallSlotReset
      BY <2>4 DEF CallSlotReset, Call, Busy, ListInv, TypeOK
  <2> QED BY <2>1, <2>2, <2>3, <2>4
<1>6. HeldInv'
  <2>1. CASE CallProbe
    <3>1. core' = "probe" /\ todo'[Core] = Probe /\ held = {}
        BY <1>4, <2>1 DEF CallProbe, Call, ListInv, HeldInv, Holds
    <3> QED BY <1>1, <3>1, WholeRoutines DEF HeldInv, Holds, Idle
  <2>2. CASE CallRemove
    <3>1. /\ core' = "remove" /\ todo'[Core] = PciRemove
          /\ core \in {"bound", "failed"} \/ (core \in {"needs_reset", "disconnected"} /\ abandoned')
      <4>1. PICK from \in Idle \ {"unbound"} : Call(from, "remove", PciRemove)
          BY <2>2 DEF CallRemove
      <4>2. core \in {"bound", "needs_reset", "disconnected", "failed"} /\ core' = "remove"
            /\ todo' = [todo EXCEPT ![Core] = PciRemove]
          BY <4>1 DEF Call, Idle
      <4>3. core \in {"needs_reset", "disconnected"} => abandoned'
          BY <2>2 DEF CallRemove
      <4>4. todo'[Core] = PciRemove
          BY <1>4, <4>2
      <4>5. core \in {"bound", "failed"} \/ (core \in {"needs_reset", "disconnected"} /\ abandoned')
          BY <4>2, <4>3
      <4>6. core' = "remove"
          BY <4>2
      <4> QED BY <4>4, <4>5, <4>6
    <3>2. held = Resources \/ abandoned'
        BY <3>1 DEF ListInv, HeldInv, Holds
    <3>3. held \subseteq Range(PciRemove)
        BY <1>4, WholeRoutines
    <3> QED BY <1>1, <3>1, <3>2, <3>3, WholeRoutines DEF HeldInv, Holds, Idle
  <2>3. CASE ErrorDetected
    <3>1. /\ held = Resources /\ abandoned' = abandoned
          /\ \/ core' = "recover" /\ todo'[Core] = Recover
             \/ core' = "failed" /\ todo'[Core] = <<>>
        BY <1>4, <2>3 DEF ErrorDetected, Call, ListInv, HeldInv, Holds
    <3> QED BY <1>1, <3>1, WholeRoutines DEF HeldInv, Holds, Idle
  <2>4. CASE CallSlotReset
    <3>1. core' = "slot_reset" /\ todo'[Core] = SlotReset /\ held = Kept
        BY <1>4, <2>4 DEF CallSlotReset, Call, ListInv, HeldInv, Holds
    <3> QED BY <1>1, <3>1, WholeRoutines DEF HeldInv, Holds, Idle
  <2> QED BY <2>1, <2>2, <2>3, <2>4
<1>7. IoctlInv'
    BY <1>1, <1>3 DEF ListInv, IoctlInv
<1> QED BY <1>1, <1>3, <1>5, <1>6, <1>7 DEF ListInv, TypeOK

(* A routine that returns has nothing left to do.                          *)
LEMMA ReturnList ==
    ASSUME ListInv, Return PROVE ListInv'
<1> USE DEF dev_vars
<1>1. /\ core \in Busy /\ core' = Result[core] /\ todo[Core] = <<>>
      /\ UNCHANGED <<held, minor_idx, fails, errors, abandoned, dma_enable, rw_cnt, todo, upc, fault, upset>>
    BY DEF Return
<1>2. Range(todo[Core]) = {}
    BY <1>1 DEF Range
<1>3. /\ core = "probe" => core' = "bound"
      /\ core = "undo_probe" => core' = "unbound"
      /\ core = "remove" => core' = "unbound"
      /\ core = "recover" => core' = "needs_reset"
      /\ core = "slot_reset" => core' = "bound"
      /\ core = "undo_reset" => core' = "disconnected"
    BY <1>1 DEF Result
<1>4. Holds(core, todo[Core], held, abandoned)
    BY DEF ListInv, HeldInv
<1>5. HeldInv'
  <2>1. CASE core \in {"probe", "slot_reset"}
      BY <1>1, <1>2, <1>3, <1>4, <2>1 DEF HeldInv, Holds, Idle
  <2>2. CASE core \in {"undo_probe", "remove"}
      BY <1>1, <1>2, <1>3, <1>4, <2>2 DEF HeldInv, Holds, Idle
  <2>3. CASE core \in {"recover", "undo_reset"}
      BY <1>1, <1>2, <1>3, <1>4, <2>3 DEF HeldInv, Holds, Idle
  <2> QED BY <1>1, <2>1, <2>2, <2>3 DEF Busy
<1>6. core' \in Idle
    BY <1>1, <1>3 DEF Busy, Idle
<1>7. IoctlInv'
    BY <1>1 DEF ListInv, IoctlInv
<1> QED BY <1>1, <1>5, <1>6, <1>7 DEF ListInv, TypeOK

(* What the core's thread does of a routine leaves the ioctls alone.       *)
LEMMA CoreStepDone ==
    ASSUME ListInv, NEW x, Doing(Core, x), upc' = upc
    PROVE  /\ todo' \in [Actors -> Seq(Steps)] /\ IoctlInv'
           /\ todo'[Core] = Tail(todo[Core]) /\ todo[Core] \in Seq(Steps) /\ todo[Core] # <<>>
           /\ Head(todo[Core]) = x
           /\ Holds(core, todo[Core], held, abandoned) /\ held \in SUBSET Resources
<1>1. Core \in Actors /\ \A u \in Users : u \in Actors \ {Core}
    BY ProbeAssumption DEF Actors
<1>2. /\ todo' \in [Actors -> Seq(Steps)]
      /\ todo'[Core] = Tail(todo[Core]) /\ todo[Core] # <<>> /\ Head(todo[Core]) = x
      /\ todo[Core] \in Seq(Steps)
      /\ \A b \in Actors \ {Core} : todo'[b] = todo[b]
    BY <1>1, StepDone DEF ListInv
<1>3. IoctlInv'
    BY <1>1, <1>2 DEF ListInv, IoctlInv
<1> QED BY <1>2, <1>3 DEF ListInv, HeldInv, TypeOK

(* A step of a routine that gets something had not got it before.          *)
LEMMA AcquireList ==
    ASSUME ListInv, Acquire PROVE ListInv' /\ (fault' => fault)
<1> USE DEF dev_vars
<1>1. PICK s \in Resources \cup Checks :
        /\ Doing(Core, s) /\ (s = "cdev" => minor_idx < MaxDev)
        /\ held' = held \cup ({s} \cap Resources)
        /\ fault' = (fault \/ s \in held)
        /\ minor_idx' = IF s = "cdev" THEN minor_idx + 1 ELSE minor_idx
    BY DEF Acquire
<1>2. /\ core \in {"probe", "slot_reset"}
      /\ UNCHANGED <<core, fails, errors, abandoned, dma_enable, rw_cnt, upc, upset>>
    BY DEF Acquire, Getting
<1>3. /\ todo' \in [Actors -> Seq(Steps)] /\ IoctlInv'
      /\ todo'[Core] = Tail(todo[Core]) /\ todo[Core] \in Seq(Steps) /\ todo[Core] # <<>>
      /\ Head(todo[Core]) = s
      /\ Holds(core, todo[Core], held, abandoned) /\ held \in SUBSET Resources
    BY <1>1, <1>2, CoreStepDone
<1>4. /\ Holds(core, Tail(todo[Core]), held \cup ({Head(todo[Core])} \cap Resources), abandoned)
      /\ Head(todo[Core]) \notin held
    BY <1>2, <1>3, GetHolds
<1>5. HeldInv' /\ s \notin held
    BY <1>1, <1>2, <1>3, <1>4 DEF HeldInv
<1>6. minor_idx' \in 0 .. MaxDev /\ held' \subseteq Resources /\ fault' = fault
    BY <1>1, <1>3, <1>5, ProbeAssumption DEF ListInv, TypeOK
<1> QED BY <1>2, <1>3, <1>5, <1>6 DEF ListInv, TypeOK

(* One that fails turns to the undoing.                                    *)
LEMMA FailList ==
    ASSUME ListInv, Fail PROVE ListInv'
<1> USE DEF dev_vars
<1>1. PICK s \in Resources \cup Checks :
        /\ Faces(Core, s)
        /\ \/ fails < MaxFails /\ fails' = fails + 1
           \/ s = "cdev" /\ minor_idx = MaxDev /\ UNCHANGED fails
        /\ \/ core = "probe" /\ core' = "undo_probe"
              /\ todo' = [todo EXCEPT ![Core] = UndoProbe(s)]
           \/ core = "slot_reset" /\ core' = "undo_reset"
              /\ todo' = [todo EXCEPT ![Core] = UndoSetup[s]]
    BY DEF Fail
<1>2. UNCHANGED <<held, minor_idx, errors, abandoned, dma_enable, rw_cnt, upc, fault, upset>>
    BY DEF Fail
<1>3. /\ todo \in [Actors -> Seq(Steps)] /\ Core \in Actors /\ \A u \in Users : u \in Actors \ {Core}
      /\ todo[Core] \in Seq(Steps) /\ todo[Core] # <<>> /\ Head(todo[Core]) = s
      /\ Holds(core, todo[Core], held, abandoned) /\ held \in SUBSET Resources
    BY <1>1, ProbeAssumption DEF ListInv, TypeOK, Actors, Faces, HeldInv
<1>4. /\ core = "probe" => /\ Holds("undo_probe", UndoProbe(s), held, abandoned)
                           /\ UndoProbe(s) \in Seq(Steps)
      /\ core = "slot_reset" => /\ Holds("undo_reset", UndoSetup[s], held, abandoned)
                                /\ UndoSetup[s] \in Seq(Steps)
  <2>1. core \in {"probe", "slot_reset"} /\ Head(todo[Core]) \in Resources \cup Checks
      BY <1>1, <1>3
  <2> QED BY <1>3, <2>1, FailHolds
<1>5. todo' \in [Actors -> Seq(Steps)] /\ HeldInv' /\ \A u \in Users : todo'[u] = todo[u]
    BY <1>1, <1>2, <1>3, <1>4 DEF HeldInv
<1>6. IoctlInv'
    BY <1>2, <1>5 DEF ListInv, IoctlInv
<1>7. fails' \in 0 .. MaxFails /\ core' \in Busy
    BY <1>1, ProbeAssumption DEF ListInv, TypeOK, Busy
<1> QED BY <1>2, <1>5, <1>6, <1>7 DEF ListInv, TypeOK

(* One that gives something back never gives back what is not held, but   *)
(* for the removal of a card that had not recovered.                       *)
LEMMA ReleaseList ==
    ASSUME ListInv, Release PROVE ListInv' /\ (fault' => fault \/ abandoned)
<1> USE DEF dev_vars
<1>1. PICK s \in Resources : Doing(Core, s) /\ held' = held \ {s} /\ fault' = (fault \/ s \notin held)
    BY DEF Release
<1>2. /\ core \in Busy \ {"probe", "slot_reset"}
      /\ UNCHANGED <<core, minor_idx, fails, errors, abandoned, dma_enable, rw_cnt, upc, upset>>
    BY DEF Release, Getting
<1>3. /\ todo' \in [Actors -> Seq(Steps)] /\ IoctlInv'
      /\ todo'[Core] = Tail(todo[Core]) /\ todo[Core] \in Seq(Steps) /\ todo[Core] # <<>>
      /\ Head(todo[Core]) = s
      /\ Holds(core, todo[Core], held, abandoned) /\ held \in SUBSET Resources
    BY <1>1, <1>2, CoreStepDone
<1>4. /\ Holds(core, Tail(todo[Core]), held \ {Head(todo[Core])}, abandoned)
      /\ Head(todo[Core]) \in held \/ abandoned
  <2>1. abandoned \in BOOLEAN
      BY DEF ListInv, TypeOK
  <2> QED BY <1>2, <1>3, <2>1, GiveHolds
<1>5. HeldInv' /\ (s \in held \/ abandoned)
    BY <1>1, <1>2, <1>3, <1>4 DEF HeldInv
<1>6. held' \subseteq Resources /\ fault' \in BOOLEAN
    BY <1>1, <1>3 DEF ListInv, TypeOK
<1> QED BY <1>1, <1>2, <1>3, <1>5, <1>6 DEF ListInv, TypeOK

(* The initialisation and the configuration get and give back nothing.     *)
LEMMA InitList ==
    ASSUME ListInv, CtrlInit \/ Config PROVE ListInv'
<1> USE DEF core_vars, dev_vars
<1>1. PICK x \in {"ctrl_init", "config"} : Doing(Core, x)
    BY DEF CtrlInit, Config
<1>2. /\ UNCHANGED <<core, held, minor_idx, fails, errors, abandoned, upc>>
      /\ dma_enable' \in {0, 1} /\ rw_cnt' \in Int /\ fault' \in BOOLEAN /\ upset' \in BOOLEAN
  <2>1. CASE CtrlInit
      BY <2>1 DEF CtrlInit, ListInv, TypeOK
  <2>2. CASE Config
      BY <2>2 DEF Config, Touch, ListInv, TypeOK
  <2> QED BY <2>1, <2>2
<1>3. /\ todo' \in [Actors -> Seq(Steps)] /\ IoctlInv'
      /\ todo'[Core] = Tail(todo[Core]) /\ todo[Core] \in Seq(Steps) /\ todo[Core] # <<>>
      /\ Head(todo[Core]) = x
      /\ Holds(core, todo[Core], held, abandoned) /\ held \in SUBSET Resources
    BY <1>1, <1>2, CoreStepDone
<1>4. Head(todo[Core]) \notin Resources
    BY <1>3 DEF Resources
<1>5. HeldInv'
    BY <1>2, <1>3, <1>4, PassHolds DEF HeldInv
<1> QED BY <1>2, <1>3, <1>5 DEF ListInv, TypeOK

(* What a program does of its own, without STOP and START.                 *)
UserStep(u) ==
    \/ Open(u) \/ Close(u) \/ Inc(u) \/ Check(u) \/ Work(u) \/ Dec(u) \/ Ioctl(u)
    \/ IoctlReturn(u) \/ UseAfterFree(u)

(* It leaves the routine alone.                                            *)
LEMMA UserList ==
    ASSUME ListInv, NEW u \in Users, UserStep(u) PROVE ListInv'
<1> USE DEF core_vars, dev_vars
<1>1. /\ todo \in [Actors -> Seq(Steps)] /\ u \in Actors /\ Core \in Actors /\ u # Core
      /\ \A v \in Users : v \in Actors
    BY ProbeAssumption DEF ListInv, TypeOK, Actors
<1>2. UNCHANGED <<core, held, minor_idx, fails, errors, abandoned, fault>>
    BY DEF UserStep, Open, Close, Inc, Check, Work, Dec, Ioctl, IoctlReturn, UseAfterFree, User
<1>3. dma_enable' = dma_enable /\ rw_cnt' \in Int /\ upset' \in BOOLEAN
  <2>1. dma_enable' = dma_enable /\ rw_cnt' \in {rw_cnt, rw_cnt + 1, rw_cnt - 1}
      BY DEF UserStep, Open, Close, Inc, Check, Work, Dec, Ioctl, IoctlReturn, UseAfterFree
  <2>2. upset' \in BOOLEAN
      BY DEF UserStep, Open, Close, Inc, Check, Work, Dec, Ioctl, IoctlReturn, UseAfterFree, ListInv, TypeOK
  <2> QED BY <2>1, <2>2 DEF ListInv, TypeOK
<1>4. upc' \in [Users -> {"closed", "open", "check", "in", "dec", "ioctl", "oops"}]
      /\ \A v \in Users \ {u} : upc'[v] = upc[v]
    BY DEF UserStep, Open, Close, Inc, Check, Work, Dec, Ioctl, IoctlReturn, UseAfterFree, User, ListInv, TypeOK
<1>5. todo' \in [Actors -> Seq(Steps)] /\ \A a \in Actors \ {u} : todo'[a] = todo[a]
  <2>1. CASE todo' = todo
      BY <1>1, <2>1
  <2>2. CASE \E steps \in {Stop, Start, Restart, <<>>} : todo' = [todo EXCEPT ![u] = steps]
    <3>2. <<>> \in Seq(Steps)
        OBVIOUS
    <3>1. \A steps \in {Stop, Start, Restart, <<>>} : steps \in Seq(Steps)
        BY <3>2, Routines
    <3> QED BY <1>1, <2>2, <3>1
  <2>3. \/ todo' = todo
        \/ \E steps \in {Stop, Start, Restart, <<>>} : todo' = [todo EXCEPT ![u] = steps]
      BY DEF UserStep, Open, Close, Inc, Check, Work, Dec, Ioctl, IoctlReturn, UseAfterFree
  <2> QED BY <2>1, <2>2, <2>3
<1>6. /\ IsEndOf(todo'[u], Stop) \/ IsEndOf(todo'[u], Restart)
      /\ todo'[u] # <<>> => upc'[u] = "ioctl"
  <2>1. CASE Ioctl(u)
    <3>1. PICK steps \in {Stop, Start, Restart} : todo' = [todo EXCEPT ![u] = steps]
        BY <2>1 DEF Ioctl
    <3>2. IsEndOf(Stop, Stop) /\ IsEndOf(Start, Restart) /\ IsEndOf(Restart, Restart)
      <4>1. ASSUME NEW R \in Seq(Steps) PROVE IsEndOf(R, R)
        <5>1. Len(R) \in Nat
            OBVIOUS
        <5> HIDE DEF Steps
        <5> QED BY <5>1 DEF IsEndOf
      <4> QED BY <4>1, Routines
    <3>3. upc'[u] = "ioctl"
        BY <2>1 DEF Ioctl, User, ListInv, TypeOK
    <3> QED BY <1>1, <3>1, <3>2, <3>3
  <2>2. CASE UseAfterFree(u)
    <3>1. todo'[u] = <<>>
        BY <1>1, <2>2 DEF UseAfterFree
    <3>2. IsEndOf(<<>>, Stop)
        BY DEF IsEndOf, Stop
    <3> QED BY <3>1, <3>2
  <2>3. CASE /\ todo' = todo
             /\ upc[u] # "ioctl" \/ todo[u] = <<>>
      BY <2>3 DEF ListInv, IoctlInv
  <2>4. \/ Ioctl(u) \/ UseAfterFree(u)
        \/ todo' = todo /\ (upc[u] # "ioctl" \/ todo[u] = <<>>)
      BY DEF UserStep, Open, Close, Inc, Check, Work, Dec, IoctlReturn, User
  <2> QED BY <2>1, <2>2, <2>3, <2>4
<1>7. IoctlInv'
    BY <1>1, <1>4, <1>5, <1>6 DEF ListInv, IoctlInv
<1>8. HeldInv'
    BY <1>1, <1>2, <1>5 DEF ListInv, HeldInv
<1> QED BY <1>2, <1>3, <1>4, <1>5, <1>7, <1>8 DEF ListInv, TypeOK

(* Where the system starts.                                                *)
LEMMA InitIsList ==
    ASSUME Init PROVE ListInv
<1>1. <<>> \in Seq(Steps) /\ IsEndOf(<<>>, Stop)
    BY DEF IsEndOf, Stop
<1>2. TypeOK
  <2>1. todo \in [Actors -> Seq(Steps)]
      BY <1>1 DEF Init
  <2>2. upc \in [Users -> {"closed", "open", "check", "in", "dec", "ioctl", "oops"}]
      BY DEF Init
  <2>3. minor_idx \in 0 .. MaxDev /\ fails \in 0 .. MaxFails /\ errors \in 0 .. MaxErrors /\ rw_cnt \in Int
      BY ProbeAssumption DEF Init
  <2>4. core \in Idle /\ held \subseteq Resources /\ dma_enable \in {0, 1} /\ {fault, upset,
            abandoned} \subseteq BOOLEAN
      BY DEF Init, Idle
  <2> QED BY <2>1, <2>2, <2>3, <2>4 DEF TypeOK
<1>3. HeldInv
    BY DEF Init, HeldInv, Holds, Actors, Idle
<1>4. IoctlInv
    BY <1>1 DEF Init, IoctlInv, Actors
<1> QED BY <1>2, <1>3, <1>4 DEF ListInv

(* All steps together.                                                     *)
LEMMA NextList ==
    ASSUME ListInv, [Next]_vars PROVE ListInv'
<1>1. CASE CallProbe \/ CallRemove \/ ErrorDetected \/ CallSlotReset
    BY <1>1, CallList
<1>2. CASE Routine
    BY <1>2, ReturnList, AcquireList, FailList, ReleaseList, InitList, StopOrStartList DEF Routine, Actors
<1>3. ASSUME NEW u \in Users, Program(u) PROVE ListInv'
    BY <1>3, UserList, StopOrStartList DEF Program, UserStep, Actors
<1>4. CASE UNCHANGED vars
    BY <1>4 DEF vars, core_vars, dev_vars, ListInv, TypeOK, HeldInv, IoctlInv
<1> QED BY <1>1, <1>2, <1>3, <1>4 DEF Next

-----------------------------------------------------------------------------
(* What holds for as long as nothing has upset the order of a call, a STOP *)
(* and a routine: one ioctl at a time, never with a routine; every call is *)
(* counted; a call that is past its check still has dma_enable set, or a   *)
(* drain to wait for it; DMA is off from the disable of a STOP to the end  *)
(* of the START that may follow, and while the card is not set up; and     *)
(* only the removal of a card whose recovery failed, which calls no longer *)
(* use, lacks what it is to give back.                                     *)
InCall   == {u \in Users : upc[u] \in {"check", "in", "dec"}}
InUse    == {u \in Users : upc[u] = "in"}
DmaSteps == Stopping \cup {"reset2", "enable"}

Alone   == \A u \in Ioctls : core \in {"bound", "failed"} /\ Ioctls = {u}
Counted == IsFiniteSet(InCall) /\ Cardinality(InCall) <= rw_cnt
Drained == InUse # {} => dma_enable = 1 \/ \E a \in Actors : "drain" \in Left(a)
Stopped == \A a \in Actors :
    "disable" \notin Left(a) /\ Left(a) \cap DmaSteps # {} => dma_enable = 0
Off ==
    /\ core \in {"recover", "remove"} /\ "disable" \notin Left(Core) => dma_enable = 0
    /\ core \in {"unbound", "probe", "undo_probe", "needs_reset", "disconnected", "undo_reset"} =>
         dma_enable = 0
Apart ==
    core = "remove" /\ held # Left(Core) \cap Resources => dma_enable = 0 /\ InUse = {}
Mapped == fault => abandoned

Orderly  == Alone /\ Counted /\ Drained /\ Stopped /\ Off /\ Apart /\ Mapped
CleanInv == ~upset => Orderly

(* A list with a step of STOP or START in it belongs to one actor only.    *)
LEMMA Solo ==
    ASSUME ListInv, Alone, NEW a \in Actors, Left(a) \cap DmaSteps # {}
    PROVE  /\ \A b \in Actors \ {a} : Left(b) \cap DmaSteps = {}
           /\ \/ a \in Users /\ core \in {"bound", "failed"} /\ held = Resources
              \/ a = Core /\ core \in {"recover", "remove", "slot_reset"}
<1>1. /\ todo \in [Actors -> Seq(Steps)] /\ \A u \in Users : u # Core
      /\ Holds(core, todo[Core], held, abandoned) /\ held \in SUBSET Resources /\ core \in Idle \cup Busy
      /\ Actors = Users \cup {Core}
    BY ProbeAssumption DEF ListInv, TypeOK, HeldInv, Actors
<1>2. \A b \in Actors : Left(b) # {} => todo[b] # <<>>
    BY DEF Left, Range
<1>3. \A u \in Users : todo[u] # <<>> => u \in Ioctls
    BY DEF ListInv, IoctlInv, Ioctls
<1>4. CASE a \in Users
  <2>1. a \in Ioctls /\ core \in {"bound", "failed"} /\ Ioctls = {a}
      BY <1>1, <1>2, <1>3, <1>4 DEF Alone
  <2>2. todo[Core] = <<>> /\ held = Resources
      BY <1>1, <2>1 DEF Holds, Idle
  <2>3. \A b \in Actors \ {a} : todo[b] = <<>>
      BY <1>1, <1>3, <2>1, <2>2
  <2> QED BY <1>2, <1>4, <2>1, <2>2, <2>3
<1>5. CASE a = Core
  <2>1. todo[Core] # <<>> /\ todo[Core] \in Seq(Steps)
      BY <1>1, <1>2, <1>5
  <2>2. core \in {"recover", "remove", "slot_reset"}
    <3>1. Range(todo[Core]) \cap Stopping # {} \/ Range(todo[Core]) \cap {"reset2", "enable"} # {}
        BY <1>5 DEF Left, DmaSteps
    <3> QED BY <1>1, <2>1, <3>1, CoreLeft
  <2>3. Ioctls = {}
      BY <2>2 DEF Alone
  <2>4. \A b \in Actors \ {a} : todo[b] = <<>>
      BY <1>1, <1>3, <1>5, <2>3
  <2> QED BY <1>2, <1>5, <2>2, <2>4
<1> QED BY <1>1, <1>4, <1>5

(* No call is past its check while DMA is off and nothing is to drain.     *)
LEMMA NoneIn ==
    ASSUME ListInv, Alone, Drained, dma_enable = 0, core \notin {"bound", "failed", "recover", "remove"}
    PROVE  InUse = {} /\ \A u \in Users : todo[u] = <<>> /\ Left(u) = {}
<1>1. \A u \in Users : todo[u] = <<>>
    BY DEF Alone, ListInv, IoctlInv, Ioctls
<1>2. \A u \in Users : Left(u) = {}
    BY <1>1 DEF Left, Range
<1>3. "drain" \notin Left(Core)
  <2>1. CASE todo[Core] = <<>>
      BY <2>1 DEF Left, Range
  <2>2. CASE todo[Core] # <<>>
    <3>1. /\ todo[Core] \in Seq(Steps) /\ Holds(core, todo[Core], held, abandoned)
          /\ held \in SUBSET Resources /\ core \in Idle \cup Busy
        BY DEF ListInv, TypeOK, HeldInv, Actors
    <3>2. Range(todo[Core]) \cap Stopping = {}
        BY <2>2, <3>1, CoreLeft
    <3> QED BY <3>2 DEF Left, Stopping
  <2> QED BY <2>1, <2>2
<1> QED BY <1>1, <1>2, <1>3 DEF Drained, Actors

(* A step of STOP or START.                                                *)
LEMMA StopOrStartOrderly ==
    ASSUME ListInv, Orderly, NEW a \in Actors, StopOrStart(a), ~upset'
    PROVE  Orderly'
<1> USE DEF core_vars, dev_vars
<1>1. UNCHANGED <<core, held, abandoned, upc, rw_cnt>>
    BY DEF StopOrStart, Disable, Reset, Drain, Reset2, Enable
<1>2. PICK x \in DmaSteps :
        /\ todo[a] \in Seq(Steps) /\ todo[a] # <<>> /\ Head(todo[a]) = x
        /\ todo'[a] = Tail(todo[a]) /\ \A b \in Actors \ {a} : todo'[b] = todo[b]
        /\ x = "disable" => dma_enable' = 0 /\ fault' = fault
        /\ x = "drain" => rw_cnt = 0 /\ dma_enable' = dma_enable /\ fault' = fault
        /\ x \in {"reset", "reset2"} => dma_enable' = dma_enable /\ Touch
        /\ x = "enable" => dma_enable' = 1 /\ Touch
  <2>1. ASSUME NEW x \in {"disable", "drain", "reset2", "enable"}, Doing(a, x)
        PROVE  /\ todo[a] \in Seq(Steps) /\ todo[a] # <<>> /\ Head(todo[a]) = x /\ x \in DmaSteps
               /\ todo'[a] = Tail(todo[a]) /\ \A b \in Actors \ {a} : todo'[b] = todo[b]
      BY <2>1, StepDone DEF ListInv, DmaSteps, Stopping
  <2>2. CASE Disable(a)
      BY <2>1, <2>2 DEF Disable
  <2>3. CASE Drain(a)
      BY <2>1, <2>3 DEF Drain
  <2>4. CASE Reset2(a)
      BY <2>1, <2>4 DEF Reset2
  <2>5. CASE Enable(a)
      BY <2>1, <2>5 DEF Enable
  <2>6. CASE Reset(a)
    <3>1. /\ todo[a] \in Seq(Steps) /\ todo[a] # <<>> /\ Head(todo[a]) = "reset" /\ "reset" \in DmaSteps
          /\ todo'[a] = Tail(todo[a]) /\ \A b \in Actors \ {a} : todo'[b] = todo[b]
        BY <2>6, ResetDone DEF ListInv, DmaSteps, Stopping
    <3> QED BY <2>6, <3>1 DEF Reset
  <2> QED BY <2>2, <2>3, <2>4, <2>5, <2>6 DEF StopOrStart
<1>3. /\ Left(a) = {x} \cup Left(a)' /\ (NoTwice(todo[a]) => x \notin Left(a)')
      /\ \A b \in Actors \ {a} : Left(b)' = Left(b)
    BY <1>2, TailLeft DEF Left
<1>4. /\ NoTwice(todo[a]) /\ ("disable" \in Left(a) => "drain" \in Left(a))
      /\ x = "enable" => Left(a)' = {}
      /\ a = Core => /\ x \in Stopping =>
                          CallNeeds \subseteq held \/ (core = "remove" /\ held # Left(Core) \cap Resources)
                     /\ x \in {"reset2", "enable"} => core = "slot_reset" /\ "iomap" \in held
  <2>1. x = "enable" /\ Tail(todo[a]) = <<>> => Left(a)' = {}
      BY <1>2 DEF Left, Range
  <2>2. CASE a = Core
    <3>1. Holds(core, todo[Core], held, abandoned) /\ core \in Idle \cup Busy /\ held \in SUBSET Resources
        BY DEF ListInv, HeldInv, TypeOK
    <3>2. /\ NoTwice(todo[Core]) /\ ("disable" \in Left(Core) => "drain" \in Left(Core))
          /\ Left(Core) \cap Stopping # {} =>
               CallNeeds \subseteq held \/ (core = "remove" /\ held # Left(Core) \cap Resources)
          /\ Left(Core) \cap {"reset2", "enable"} # {} => core = "slot_reset"
          /\ x \in {"config", "reset2", "enable"} => "iomap" \in held
          /\ x = "enable" => Tail(todo[a]) = <<>>
        BY <1>2, <2>2, <3>1, CoreLeft DEF Left
    <3> QED BY <1>3, <2>1, <2>2, <3>2
  <2>3. CASE a \in Users
    <3>1. IsEndOf(todo[a], Stop) \/ IsEndOf(todo[a], Restart)
        BY <2>3 DEF ListInv, IoctlInv
    <3>2. /\ NoTwice(todo[a]) /\ ("disable" \in Left(a) => "drain" \in Left(a))
          /\ x = "enable" => Tail(todo[a]) = <<>>
        BY <1>2, <3>1, IoctlLeft DEF Left
    <3> QED BY <2>1, <2>3, <3>2, ProbeAssumption
  <2> QED BY <2>2, <2>3 DEF Actors
<1>5. /\ \A b \in Actors \ {a} : Left(b) \cap DmaSteps = {}
      /\ \/ a \in Users /\ core \in {"bound", "failed"} /\ held = Resources
         \/ a = Core /\ core \in {"recover", "remove", "slot_reset"}
    BY <1>2, <1>3, Solo DEF Orderly
<1>6. Alone' /\ Counted' /\ InUse' = InUse
    BY <1>1 DEF Orderly, Alone, Ioctls, Counted, InCall, InUse
<1>7. Drained'
  <2>1. x = "drain" => InUse = {}
    <3>1. ASSUME x = "drain" PROVE InCall = {}
      <4>1. IsFiniteSet(InCall) /\ Cardinality(InCall) <= 0
          BY <1>2, <3>1 DEF Orderly, Counted
      <4>2. Cardinality(InCall) \in Nat
          BY <4>1, FS_CardinalityType
      <4> QED BY <4>1, <4>2, FS_EmptySet
    <3> QED BY <3>1 DEF InCall, InUse
  <2>2. x = "disable" => "drain" \in Left(a)'
      BY <1>3, <1>4
  <2>3. x # "drain" /\ (\E b \in Actors : "drain" \in Left(b)) => \E b \in Actors : "drain" \in Left(b)'
      BY <1>3
  <2> QED BY <1>2, <1>6, <2>1, <2>2, <2>3 DEF Orderly, Drained, DmaSteps, Stopping
<1>8. Stopped'
  <2>1. CASE x = "disable"
      BY <1>2, <2>1 DEF Stopped
  <2>2. CASE x = "enable"
      BY <1>3, <1>4, <1>5, <2>2 DEF Stopped
  <2>3. CASE x \in {"reset", "drain", "reset2"}
    <3>1. "disable" \notin Left(a)' => dma_enable = 0
        BY <1>2, <1>3, <2>3 DEF Orderly, Stopped
    <3> QED BY <1>2, <1>3, <1>5, <2>3, <3>1 DEF Stopped
  <2> QED BY <1>2, <2>1, <2>2, <2>3 DEF DmaSteps, Stopping
<1>9. Off'
  <2>1. CASE x = "disable"
      BY <1>1, <1>2, <1>5, <2>1 DEF Off
  <2>2. CASE x \in {"reset2", "enable"}
      BY <1>1, <1>4, <1>5, <2>2 DEF Off
  <2>3. CASE x \in {"reset", "drain"}
    <3>1. "disable" \notin Left(a)' => dma_enable = 0
        BY <1>2, <1>3, <2>3 DEF Orderly, Stopped
    <3> QED BY <1>1, <1>2, <1>5, <2>3, <3>1 DEF Off
  <2> QED BY <2>1, <2>2, <2>3 DEF DmaSteps, Stopping
<1>10. Apart'
  <2>1. ASSUME core = "remove" PROVE Left(Core)' \cap Resources = Left(Core) \cap Resources /\ x # "enable"
    <3>1. a = Core /\ x \notin Resources
        BY <1>5, <2>1 DEF DmaSteps, Stopping, Resources
    <3> QED BY <1>3, <1>4, <2>1, <3>1
  <2>2. x # "enable" => dma_enable' \in {0, dma_enable}
      BY <1>2 DEF DmaSteps, Stopping
  <2> QED BY <1>1, <1>6, <2>1, <2>2 DEF Orderly, Apart
<1>11. Mapped'
  <2>1. "iomap" \in held \/ abandoned
    <3>1. CASE a \in Users
        BY <1>5, <3>1, ProbeAssumption DEF Resources
    <3>2. CASE a = Core
      <4>1. core = "remove" => held = Left(Core) \cap Resources \/ abandoned
          BY DEF ListInv, HeldInv, Holds, Left
      <4> QED BY <1>4, <3>2, <4>1 DEF DmaSteps, CallNeeds
    <3> QED BY <3>1, <3>2 DEF Actors
  <2> QED BY <1>1, <1>2, <2>1 DEF Orderly, Mapped, Touch, DmaSteps, Stopping
<1> QED BY <1>6, <1>7, <1>8, <1>9, <1>10, <1>11 DEF Orderly

(* A call of the core.                                                     *)
LEMMA CallOrderly ==
    ASSUME ListInv, Orderly, CallProbe \/ CallRemove \/ ErrorDetected \/ CallSlotReset, ~upset'
    PROVE  Orderly'
<1> USE DEF dev_vars
<1>1. /\ UNCHANGED <<held, dma_enable, rw_cnt, upc, fault>>
      /\ todo \in [Actors -> Seq(Steps)] /\ Core \in Actors /\ Actors = Users \cup {Core}
      /\ \A u \in Users : u # Core
      /\ abandoned => abandoned'
    BY ProbeAssumption
       DEF CallProbe, CallRemove, ErrorDetected, CallSlotReset, Call, ListInv, TypeOK, Actors
<1>2. ASSUME NEW steps, todo' = [todo EXCEPT ![Core] = steps]
      PROVE  Left(Core)' = Range(steps) /\ \A u \in Users : Left(u)' = Left(u)
    BY <1>1, <1>2 DEF Left
<1>3. Counted' /\ InUse' = InUse /\ Ioctls' = Ioctls /\ Mapped'
    BY <1>1 DEF Orderly, Counted, InCall, InUse, Ioctls, Mapped
<1>4. ASSUME core \notin {"bound", "failed", "recover", "remove"}
      PROVE  Ioctls = {} /\ (dma_enable = 0 => InUse = {}) /\ \A u \in Users : Left(u) = {}
  <2>1. Ioctls = {} /\ \A u \in Users : Left(u) = {}
      BY <1>4 DEF Orderly, Alone, ListInv, IoctlInv, Ioctls, Left, Range
  <2> QED BY <1>4, <2>1, NoneIn DEF Orderly
<1>5. CASE CallProbe
  <2>1. /\ core = "unbound" /\ core' = "probe" /\ todo' = [todo EXCEPT ![Core] = Probe]
        /\ dma_enable = 0
      BY <1>5 DEF CallProbe, Call, Orderly, Off
  <2>2. Ioctls = {} /\ InUse = {} /\ \A u \in Users : Left(u)' = {}
      BY <1>2, <1>4, <2>1
  <2>3. Alone' /\ Drained' /\ Stopped' /\ Off' /\ Apart'
      BY <1>1, <1>3, <2>1, <2>2 DEF Alone, Drained, Stopped, Off, Apart
  <2> QED BY <1>3, <2>3 DEF Orderly
<1>6. CASE CallRemove
  <2>1. /\ core' = "remove" /\ todo' = [todo EXCEPT ![Core] = PciRemove] /\ core \in Idle \ {"unbound"}
        /\ \A u \in Users : upc[u] = "closed"
      BY <1>6 DEF CallRemove, Call
  <2>2. Ioctls = {} /\ InUse = {} /\ \A u \in Users : Left(u) = {}
      BY <2>1 DEF Ioctls, InUse, ListInv, IoctlInv, Left, Range
  <2>3. Left(Core)' = Range(PciRemove) /\ \A u \in Users : Left(u)' = {}
      BY <1>2, <2>1, <2>2
  <2>4. "disable" \in Range(PciRemove) /\ Range(PciRemove) \cap Resources = Resources
    <3>1. 2 \in 1 .. Len(PciRemove) /\ PciRemove[2] = "disable"
        BY DEF PciRemove
    <3>2. \A R \in Seq(Steps) : DOMAIN R = 1 .. Len(R)
        OBVIOUS
    <3> QED BY <3>1, <3>2, Routines, WholeRoutines DEF Range
  <2>5. held = Resources \/ dma_enable = 0
      BY <2>1 DEF ListInv, HeldInv, Holds, Idle, Orderly, Off
  <2>6. Alone' /\ Drained' /\ Stopped' /\ Off' /\ Apart'
      BY <1>1, <1>3, <2>1, <2>2, <2>3, <2>4, <2>5 DEF Alone, Drained, Stopped, Off, Apart
  <2> QED BY <1>3, <2>6 DEF Orderly
<1>7. CASE ErrorDetected
  <2>1. CASE core' = "recover"
    <3>1. core = "bound" /\ todo' = [todo EXCEPT ![Core] = Recover] /\ Ioctls = {}
        BY <1>7, <2>1 DEF ErrorDetected, Call
    <3>2. "disable" \in Range(Recover) /\ "drain" \in Range(Recover)
      <4>1. 1 \in 1 .. Len(Recover) /\ Recover[1] = "disable" /\ 3 \in 1 .. Len(Recover) /\ Recover[3] = "drain"
          BY DEF Recover
      <4>2. \A R \in Seq(Steps) : DOMAIN R = 1 .. Len(R)
          OBVIOUS
      <4> QED BY <4>1, <4>2, Routines DEF Range
    <3>3. Left(Core)' = Range(Recover) /\ \A u \in Users : Left(u)' = {}
      <4>1. \A u \in Users : Left(u) = {}
          BY <3>1 DEF ListInv, IoctlInv, Ioctls, Left, Range
      <4> QED BY <1>2, <3>1, <4>1
    <3>4. Alone' /\ Drained' /\ Stopped' /\ Off' /\ Apart'
        BY <1>1, <1>3, <2>1, <3>1, <3>2, <3>3 DEF Alone, Drained, Stopped, Off, Apart
    <3> QED BY <1>3, <3>4 DEF Orderly
  <2>2. CASE core' = "failed"
    <3>1. core = "bound" /\ todo' = [todo EXCEPT ![Core] = <<>>] /\ todo[Core] = <<>>
        BY <1>7, <2>2 DEF ErrorDetected, Call, ListInv, HeldInv, Holds, Idle
    <3>2. todo' = todo
        BY <1>1, <3>1
    <3>3. Alone' /\ Drained' /\ Stopped' /\ Off' /\ Apart'
        BY <1>1, <1>3, <2>2, <3>1, <3>2 DEF Orderly, Alone, Drained, Stopped, Off, Apart, Left
    <3> QED BY <1>3, <3>3 DEF Orderly
  <2>3. core' \in {"recover", "failed"}
      BY <1>7 DEF ErrorDetected, Call
  <2> QED BY <2>1, <2>2, <2>3
<1>8. CASE CallSlotReset
  <2>1. /\ core = "needs_reset" /\ core' = "slot_reset" /\ todo' = [todo EXCEPT ![Core] = SlotReset]
        /\ dma_enable = 0
      BY <1>8 DEF CallSlotReset, Call, Orderly, Off
  <2>2. Ioctls = {} /\ InUse = {} /\ \A u \in Users : Left(u)' = {}
      BY <1>2, <1>4, <2>1
  <2>3. Alone' /\ Drained' /\ Stopped' /\ Off' /\ Apart'
      BY <1>1, <1>3, <2>1, <2>2 DEF Alone, Drained, Stopped, Off, Apart
  <2> QED BY <1>3, <2>3 DEF Orderly
<1> QED BY <1>5, <1>6, <1>7, <1>8

(* A routine that returns.                                                 *)
LEMMA ReturnOrderly ==
    ASSUME ListInv, Orderly, Return PROVE Orderly'
<1> USE DEF dev_vars
<1>1. /\ core \in Busy /\ core' = Result[core] /\ todo[Core] = <<>>
      /\ UNCHANGED <<held, abandoned, dma_enable, rw_cnt, todo, upc, fault>>
    BY DEF Return
<1>2. /\ core = "probe" => core' = "bound"
      /\ core = "undo_probe" => core' = "unbound"
      /\ core = "remove" => core' = "unbound"
      /\ core = "recover" => core' = "needs_reset"
      /\ core = "slot_reset" => core' = "bound"
      /\ core = "undo_reset" => core' = "disconnected"
    BY <1>1 DEF Result
<1>3. Left(Core) = {} /\ Ioctls = {}
    BY <1>1 DEF Left, Range, Orderly, Alone, Busy
<1>4. Counted' /\ InUse' = InUse /\ Ioctls' = Ioctls /\ Mapped' /\ Drained' /\ Stopped'
    BY <1>1 DEF Orderly, Counted, InCall, InUse, Ioctls, Mapped, Drained, Stopped, Left
<1>5. Alone' /\ Apart'
    BY <1>1, <1>2, <1>3, <1>4 DEF Alone, Apart, Busy
<1>6. Off'
    BY <1>1, <1>2, <1>3 DEF Orderly, Off, Busy
<1> QED BY <1>4, <1>5, <1>6 DEF Orderly

(* A step of a routine that is not one of STOP or START takes nothing from *)
(* their lists.                                                            *)
LEMMA OtherSteps ==
    ASSUME ListInv, NEW x, x \notin DmaSteps, Doing(Core, x)
    PROVE  /\ \A a \in Actors : Left(a)' \cap DmaSteps = Left(a) \cap DmaSteps
           /\ Left(Core) = {x} \cup Left(Core)' /\ x \notin Left(Core)'
<1>1. /\ Core \in Actors /\ Holds(core, todo[Core], held, abandoned) /\ held \in SUBSET Resources
      /\ core \in Idle \cup Busy
    BY DEF ListInv, TypeOK, HeldInv, Actors
<1>2. /\ todo'[Core] = Tail(todo[Core]) /\ todo[Core] # <<>> /\ Head(todo[Core]) = x
      /\ todo[Core] \in Seq(Steps)
      /\ \A b \in Actors \ {Core} : todo'[b] = todo[b]
    BY <1>1, StepDone DEF ListInv
<1>3. NoTwice(todo[Core])
    BY <1>1, <1>2, CoreLeft
<1>4. Left(Core) = {x} \cup Left(Core)' /\ x \notin Left(Core)'
    BY <1>2, <1>3, TailLeft DEF Left
<1> QED BY <1>2, <1>4 DEF Left

(* So the order is kept by whatever gets, gives back or sets up something. *)
LEMMA SetupOrderly ==
    ASSUME ListInv, Orderly, NEW x, x \notin DmaSteps, Doing(Core, x),
           UNCHANGED <<core, abandoned, dma_enable, rw_cnt, upc>>,
           core = "remove" => x \in Resources /\ held' = held \ {x},
           fault' => fault \/ abandoned
    PROVE  Orderly'
<1>1. /\ \A a \in Actors : Left(a)' \cap DmaSteps = Left(a) \cap DmaSteps
      /\ Left(Core) = {x} \cup Left(Core)' /\ x \notin Left(Core)' /\ Core \in Actors
    BY OtherSteps DEF Actors
<1>2. \A a \in Actors : /\ "disable" \in Left(a)' <=> "disable" \in Left(a)
                        /\ "drain" \in Left(a)' <=> "drain" \in Left(a)
    BY <1>1 DEF DmaSteps, Stopping
<1>3. Alone' /\ Counted' /\ InUse' = InUse
    BY DEF Orderly, Alone, Ioctls, Counted, InCall, InUse
<1>4. Drained'
    BY <1>2, <1>3 DEF Orderly, Drained
<1>5. Stopped'
    BY <1>1, <1>2 DEF Orderly, Stopped
<1>6. Off'
    BY <1>1, <1>2 DEF Orderly, Off
<1>7. Apart'
  <2>1. core = "remove" /\ held = Left(Core) \cap Resources => held' = Left(Core)' \cap Resources
      BY <1>1
  <2> QED BY <1>3, <2>1 DEF Orderly, Apart
<1>8. Mapped'
    BY DEF Orderly, Mapped
<1> QED BY <1>3, <1>4, <1>5, <1>6, <1>7, <1>8 DEF Orderly

(* What gets, gives back or configures keeps the order.                    *)
LEMMA RoutineOrderly ==
    ASSUME ListInv, Orderly, Acquire \/ Release \/ Config PROVE Orderly'
<1> USE DEF core_vars, dev_vars
<1>1. CASE Acquire
  <2>1. PICK x \in Resources \cup Checks : Doing(Core, x)
      BY <1>1 DEF Acquire
  <2>2. UNCHANGED <<core, abandoned, dma_enable, rw_cnt, upc>> /\ core # "remove"
      BY <1>1 DEF Acquire, Getting
  <2>3. x \notin DmaSteps
      BY DEF Resources, Checks, DmaSteps, Stopping
  <2> QED BY <1>1, <2>1, <2>2, <2>3, AcquireList, SetupOrderly
<1>2. CASE Release
  <2>1. PICK x \in Resources : Doing(Core, x) /\ held' = held \ {x}
      BY <1>2 DEF Release
  <2>2. UNCHANGED <<core, abandoned, dma_enable, rw_cnt, upc>>
      BY <1>2 DEF Release
  <2>3. x \notin DmaSteps
      BY DEF Resources, DmaSteps, Stopping
  <2> QED BY <1>2, <2>1, <2>2, <2>3, ReleaseList, SetupOrderly
<1>3. CASE Config
  <2>1. Doing(Core, "config") /\ UNCHANGED <<core, abandoned, dma_enable, rw_cnt, upc>> /\ Touch
      BY <1>3 DEF Config
  <2>2. core \in {"probe", "slot_reset"} /\ "iomap" \in held
    <3>1. /\ todo[Core] # <<>> /\ Head(todo[Core]) = "config" /\ todo[Core] \in Seq(Steps)
          /\ "config" \in Range(todo[Core])
        BY <2>1, StepDone DEF ListInv, Actors, Left
    <3>2. Holds(core, todo[Core], held, abandoned) /\ held \in SUBSET Resources /\ core \in Idle \cup Busy
        BY DEF ListInv, TypeOK, HeldInv
    <3> QED BY <3>1, <3>2, CoreLeft
  <2>3. "config" \notin DmaSteps
      BY DEF DmaSteps, Stopping
  <2> QED BY <2>1, <2>2, <2>3, SetupOrderly DEF Touch
<1> QED BY <1>1, <1>2, <1>3

(* A step that fails: DMA was off.                                         *)
LEMMA FailOrderly ==
    ASSUME ListInv, Orderly, Fail PROVE Orderly'
<1> USE DEF dev_vars
<1>1. /\ core \in {"probe", "slot_reset"} /\ core' \in {"undo_probe", "undo_reset"}
      /\ todo[Core] # <<>>
      /\ UNCHANGED <<held, abandoned, dma_enable, rw_cnt, upc, fault>>
      /\ \E s : todo' = [todo EXCEPT ![Core] = s]
    BY DEF Fail, Getting, Faces
<1>2. /\ todo \in [Actors -> Seq(Steps)] /\ Core \in Actors /\ Actors = Users \cup {Core}
      /\ \A u \in Users : u # Core
      /\ Holds(core, todo[Core], held, abandoned) /\ held \in SUBSET Resources /\ core \in Idle \cup Busy
    BY ProbeAssumption DEF ListInv, TypeOK, Actors, HeldInv
<1>3. dma_enable = 0
  <2>1. CASE core = "probe"
      BY <2>1 DEF Orderly, Off
  <2>2. CASE core = "slot_reset"
    <3>1. "enable" \in Left(Core) /\ "disable" \notin Left(Core)
        BY <1>1, <1>2, <2>2, CoreLeft DEF Left, Stopping
    <3> QED BY <1>2, <3>1 DEF Orderly, Stopped, DmaSteps
  <2> QED BY <1>1, <2>1, <2>2
<1>4. InUse = {} /\ Ioctls = {} /\ \A u \in Users : Left(u) = {}
  <2>1. InUse = {} /\ \A u \in Users : Left(u) = {}
      BY <1>1, <1>3, NoneIn DEF Orderly
  <2> QED BY <1>1, <2>1 DEF Orderly, Alone
<1>5. Left(Core)' \cap DmaSteps = {} /\ \A u \in Users : Left(u)' = {}
  <2>1. \A u \in Users : Left(u)' = {}
      BY <1>1, <1>2, <1>4 DEF Left
  <2>2. Left(Core)' \subseteq Resources
      BY <1>1, FailList DEF ListInv, HeldInv, Holds, Left
  <2> QED BY <2>1, <2>2 DEF Resources, DmaSteps, Stopping
<1>6. Counted' /\ InUse' = InUse /\ Ioctls' = Ioctls /\ Mapped'
    BY <1>1 DEF Orderly, Counted, InCall, InUse, Ioctls, Mapped
<1>7. Alone' /\ Drained' /\ Stopped' /\ Off' /\ Apart'
    BY <1>1, <1>2, <1>3, <1>4, <1>5, <1>6 DEF Alone, Drained, Stopped, Off, Apart, DmaSteps, Stopping
<1> QED BY <1>6, <1>7 DEF Orderly

(* The initialisation of the buffer lists meets no call.                   *)
LEMMA CtrlInitOrderly ==
    ASSUME ListInv, Orderly, CtrlInit, ~upset' PROVE Orderly'
<1> USE DEF core_vars, dev_vars
<1>1. /\ Doing(Core, "ctrl_init") /\ dma_enable' = 0 /\ rw_cnt' = 0 /\ rw_cnt = 0
      /\ UNCHANGED <<core, held, abandoned, upc, fault>>
    BY DEF CtrlInit
<1>2. "ctrl_init" \notin DmaSteps
    BY DEF DmaSteps, Stopping
<1>3. \A a \in Actors : Left(a)' \cap DmaSteps = Left(a) \cap DmaSteps
    BY <1>1, <1>2, OtherSteps
<1>4. core \in {"probe", "slot_reset"}
  <2>1. /\ todo[Core] # <<>> /\ todo[Core] \in Seq(Steps) /\ "ctrl_init" \in Range(todo[Core])
      BY <1>1, StepDone DEF ListInv, Actors, Left
  <2>2. Holds(core, todo[Core], held, abandoned) /\ held \in SUBSET Resources /\ core \in Idle \cup Busy
      BY DEF ListInv, TypeOK, HeldInv
  <2> QED BY <2>1, <2>2, CoreLeft
<1>5. IsFiniteSet(InCall) /\ InCall = {}
  <2>1. IsFiniteSet(InCall) /\ Cardinality(InCall) <= 0
      BY <1>1 DEF Orderly, Counted
  <2>2. Cardinality(InCall) \in Nat
      BY <2>1, FS_CardinalityType
  <2> QED BY <2>1, <2>2, FS_EmptySet
<1>6. InCall' = InCall /\ InUse' = {} /\ Ioctls' = Ioctls
    BY <1>1, <1>5 DEF InCall, InUse, Ioctls
<1>7. Counted'
    BY <1>1, <1>5, <1>6, FS_EmptySet DEF Counted
<1>8. Alone' /\ Drained' /\ Stopped' /\ Off' /\ Apart' /\ Mapped'
    BY <1>1, <1>4, <1>6 DEF Orderly, Alone, Drained, Stopped, Off, Apart, Mapped
<1> QED BY <1>7, <1>8 DEF Orderly

(* A program's step that does not count: its lists and the core's routine  *)
(* stay, and a call gets past its check only while DMA is on.              *)
LEMMA QuietOrderly ==
    ASSUME ListInv, Orderly, NEW u \in Users,
           UNCHANGED <<core, held, abandoned, dma_enable, rw_cnt, todo, fault>>,
           \A v \in Users \ {u} : upc'[v] = upc[v],
           InCall' = InCall, Ioctls' \subseteq Ioctls, upc'[u] = "in" => dma_enable = 1
    PROVE  Orderly'
<1>1. InUse' \subseteq InUse \cup {u} /\ (dma_enable # 1 => InUse' \subseteq InUse)
    BY DEF InUse
<1>2. Alone'
  <2>1. ASSUME NEW v \in Ioctls' PROVE core' \in {"bound", "failed"} /\ Ioctls' = {v}
      BY DEF Orderly, Alone
  <2> QED BY <2>1 DEF Alone
<1>3. Counted' /\ Stopped' /\ Off' /\ Mapped'
    BY DEF Orderly, Counted, Stopped, Off, Mapped, Left
<1>4. Drained'
    BY <1>1 DEF Orderly, Drained, Left
<1>5. Apart'
    BY <1>1 DEF Orderly, Apart, Left
<1> QED BY <1>2, <1>3, <1>4, <1>5 DEF Orderly

(* Counting a call, and counting it back.                                  *)
LEMMA CountOrderly ==
    ASSUME ListInv, Orderly, NEW u \in Users, Inc(u) \/ Dec(u) \/ UseAfterFree(u)
    PROVE  Orderly'
<1> USE DEF core_vars, dev_vars
<1>1. /\ UNCHANGED <<core, held, abandoned, dma_enable, fault>>
      /\ \A v \in Users \ {u} : upc'[v] = upc[v]
      /\ upc'[u] \in {"check", "open", "oops"} /\ upc \in [Users -> {"closed", "open", "check", "in", "dec",
             "ioctl", "oops"}]
    BY DEF Inc, Dec, UseAfterFree, User, ListInv, TypeOK
<1>2. todo' = todo
  <2>1. CASE UseAfterFree(u)
    <3>1. todo[u] = <<>>
      <4>1. "entity" \notin held /\ (core \in {"bound", "failed"} => held = Resources)
          BY <2>1 DEF UseAfterFree, ListInv, HeldInv, Holds
      <4>2. u \notin Ioctls
          BY <4>1 DEF Orderly, Alone, Resources
      <4> QED BY <4>2 DEF ListInv, IoctlInv, Ioctls
    <3>2. todo' = [todo EXCEPT ![u] = <<>>] /\ todo \in [Actors -> Seq(Steps)] /\ u \in Actors
        BY <2>1 DEF UseAfterFree, ListInv, TypeOK, Actors
    <3> QED BY <3>1, <3>2
  <2> QED BY <2>1 DEF Inc, Dec
<1>3. InUse' \subseteq InUse /\ Ioctls' \subseteq Ioctls
    BY <1>1 DEF InUse, Ioctls
<1>4. Alone'
  <2>1. ASSUME NEW v \in Ioctls' PROVE core' \in {"bound", "failed"} /\ Ioctls' = {v}
      BY <1>1, <1>3 DEF Orderly, Alone
  <2> QED BY <2>1 DEF Alone
<1>5. Drained' /\ Stopped' /\ Off' /\ Apart' /\ Mapped'
    BY <1>1, <1>2, <1>3 DEF Orderly, Drained, Stopped, Off, Apart, Mapped, Left
<1>6. IsFiniteSet(InCall) /\ Cardinality(InCall) \in Nat /\ Cardinality(InCall) <= rw_cnt /\ rw_cnt \in Int
    BY FS_CardinalityType DEF Orderly, Counted, ListInv, TypeOK
<1>7. Counted'
  <2>1. CASE Inc(u)
    <3>1. InCall' = InCall \cup {u} /\ u \notin InCall /\ rw_cnt' = rw_cnt + 1
        BY <1>1, <2>1 DEF Inc, User, InCall
    <3>2. IsFiniteSet(InCall \cup {u}) /\ Cardinality(InCall \cup {u}) = Cardinality(InCall) + 1
        BY <1>6, <3>1, FS_AddElement
    <3> QED BY <1>6, <3>1, <3>2 DEF Counted
  <2>2. CASE Dec(u)
    <3>1. InCall' = InCall \ {u} /\ u \in InCall /\ rw_cnt' = rw_cnt - 1
        BY <1>1, <2>2 DEF Dec, User, InCall
    <3>2. IsFiniteSet(InCall \ {u}) /\ Cardinality(InCall \ {u}) = Cardinality(InCall) - 1
        BY <1>6, <3>1, FS_RemoveElement
    <3> QED BY <1>6, <3>1, <3>2 DEF Counted
  <2>3. CASE UseAfterFree(u)
    <3>1. InCall' = InCall \ {u} /\ rw_cnt' = rw_cnt
        BY <1>1, <2>3 DEF UseAfterFree, User, InCall
    <3>2. IsFiniteSet(InCall \ {u}) /\ Cardinality(InCall \ {u}) <= Cardinality(InCall)
        BY <1>6, FS_RemoveElement
    <3>3. Cardinality(InCall \ {u}) \in Nat
        BY <3>2, FS_CardinalityType
    <3> QED BY <1>6, <3>1, <3>2, <3>3 DEF Counted
  <2> QED BY <2>1, <2>2, <2>3
<1> QED BY <1>4, <1>5, <1>7 DEF Orderly

(* An ioctl that is the only one, on a card that is bound.                 *)
LEMMA IoctlOrderly ==
    ASSUME ListInv, Orderly, NEW u \in Users, Ioctl(u), ~upset'
    PROVE  Orderly'
<1> USE DEF core_vars, dev_vars
<1>1. /\ UNCHANGED <<core, held, abandoned, dma_enable, rw_cnt, fault>>
      /\ upc[u] = "open" /\ upc' = [upc EXCEPT ![u] = "ioctl"] /\ "entity" \in held
      /\ core \notin Busy \cup {"needs_reset", "disconnected"} /\ Ioctls = {}
      /\ upc \in [Users -> {"closed", "open", "check", "in", "dec", "ioctl", "oops"}]
      /\ todo \in [Actors -> Seq(Steps)] /\ u \in Actors /\ Actors = Users \cup {Core}
    BY DEF Ioctl, User, ListInv, TypeOK, Actors
<1>2. PICK steps \in {Stop, Restart, Start} :
        todo' = [todo EXCEPT ![u] = steps] /\ (steps \in {Stop, Restart} \/ dma_enable = 0)
  <2>1. dma_enable \in {0, 1}
      BY DEF ListInv, TypeOK
  <2> QED BY <2>1 DEF Ioctl
<1>3. core \in {"bound", "failed"}
    BY <1>1 DEF ListInv, TypeOK, HeldInv, Holds, Idle
<1>4. InCall' = InCall /\ InUse' = InUse /\ Ioctls' = {u}
    BY <1>1 DEF InCall, InUse, Ioctls
<1>5. \A a \in Actors : Left(a) = {}
  <2>1. \A v \in Users : todo[v] = <<>>
      BY <1>1 DEF ListInv, IoctlInv, Ioctls
  <2>2. todo[Core] = <<>>
      BY <1>3 DEF ListInv, HeldInv, Holds, Idle
  <2> QED BY <1>1, <2>1, <2>2 DEF Left, Range
<1>6. Left(u)' = Range(steps) /\ \A a \in Actors \ {u} : Left(a)' = {}
    BY <1>1, <1>2, <1>5 DEF Left
<1>7. dma_enable = 0 \/ "disable" \in Range(steps)
  <2>1. \A R \in {Stop, Restart} : "disable" \in Range(R)
    <3>1. Range(Stop) = {"disable", "reset", "drain"}
        BY DEF Stop, Range
    <3>2. Range(Restart) = {"disable", "reset", "drain", "reset2", "enable"}
        BY DEF Restart, Range
    <3> QED BY <3>1, <3>2
  <2> QED BY <1>2, <2>1
<1>8. Alone' /\ Counted' /\ Off' /\ Apart' /\ Mapped'
    BY <1>1, <1>3, <1>4 DEF Orderly, Alone, Counted, Off, Apart, Mapped
<1>9. Drained'
    BY <1>1, <1>4, <1>5 DEF Orderly, Drained
<1>10. Stopped'
    BY <1>1, <1>6, <1>7 DEF Stopped
<1> QED BY <1>8, <1>9, <1>10 DEF Orderly

(* All steps of a program that are not STOP's or START's.                  *)
LEMMA UserOrderly ==
    ASSUME ListInv, Orderly, NEW u \in Users, UserStep(u), ~upset'
    PROVE  Orderly'
<1> USE DEF core_vars, dev_vars
<1>1. upc \in [Users -> {"closed", "open", "check", "in", "dec", "ioctl", "oops"}]
    BY DEF ListInv, TypeOK
<1>2. CASE Open(u) \/ Close(u) \/ IoctlReturn(u)
  <2>1. /\ UNCHANGED <<core, held, abandoned, dma_enable, rw_cnt, todo, fault>>
        /\ \E to \in {"open", "closed"} : upc' = [upc EXCEPT ![u] = to]
        /\ upc[u] \in {"open", "closed", "ioctl"}
      BY <1>2 DEF Open, Close, IoctlReturn, User
  <2>2. InCall' = InCall /\ Ioctls' \subseteq Ioctls /\ upc'[u] # "in"
            /\ \A v \in Users \ {u} : upc'[v] = upc[v]
      BY <1>1, <2>1 DEF InCall, Ioctls
  <2> QED BY <2>1, <2>2, QuietOrderly
<1>3. CASE Check(u) \/ Work(u)
  <2>1. /\ UNCHANGED <<core, held, abandoned, dma_enable, rw_cnt, todo, fault>>
        /\ \E to \in {"in", "dec"} : upc' = [upc EXCEPT ![u] = to] /\ (to = "in" => dma_enable = 1)
        /\ upc[u] \in {"check", "in"}
      BY <1>3 DEF Check, Work, User
  <2>2. /\ InCall' = InCall /\ Ioctls' \subseteq Ioctls /\ (upc'[u] = "in" => dma_enable = 1)
        /\ \A v \in Users \ {u} : upc'[v] = upc[v]
      BY <1>1, <2>1 DEF InCall, Ioctls
  <2> QED BY <2>1, <2>2, QuietOrderly
<1> QED BY <1>2, <1>3, CountOrderly, IoctlOrderly DEF UserStep

-----------------------------------------------------------------------------
(* What upsets the order stays upset.                                      *)
LEMMA UpsetStays ==
    ASSUME ListInv, [Next]_vars, upset PROVE upset'
<1> USE DEF core_vars, dev_vars
<1>1. CASE CallProbe \/ CallRemove \/ ErrorDetected \/ CallSlotReset
    BY <1>1 DEF CallProbe, CallRemove, ErrorDetected, CallSlotReset
<1>2. ASSUME NEW a \in Actors, StopOrStart(a) PROVE upset'
    BY <1>2 DEF StopOrStart, Disable, Reset, Drain, Reset2, Enable
<1>3. CASE Routine
    BY <1>2, <1>3 DEF Routine, Return, Acquire, Fail, Release, CtrlInit, Config, Actors
<1>4. ASSUME NEW u \in Users, Program(u) PROVE upset'
    BY <1>2, <1>4 DEF Program, Open, Close, Inc, Check, Work, Dec, Ioctl, IoctlReturn, UseAfterFree, Actors
<1>5. CASE UNCHANGED vars
    BY <1>5 DEF vars
<1> QED BY <1>1, <1>3, <1>4, <1>5 DEF Next

(* The inductive invariant: what is left and what is held; and the order,  *)
(* for as long as nothing upset it.                                        *)
ProbeInv == ListInv /\ CleanInv

(* It holds at the start ...                                               *)
LEMMA InitIsProbeInv == ASSUME Init PROVE ProbeInv
<1>1. ListInv
    BY InitIsList
<1>2. InCall = {} /\ InUse = {} /\ Ioctls = {} /\ \A a \in Actors : Left(a) = {}
    BY DEF Init, InCall, InUse, Ioctls, Left, Range
<1>3. IsFiniteSet(InCall) /\ Cardinality(InCall) = 0
    BY <1>2, FS_EmptySet
<1>4. Orderly
    BY <1>2, <1>3 DEF Init, Orderly, Alone, Counted, Drained, Stopped, Off, Apart, Mapped
<1> QED BY <1>1, <1>4 DEF ProbeInv, CleanInv

(* ... and every step keeps it.                                            *)
LEMMA NextKeepsProbeInv == ASSUME ProbeInv, [Next]_vars PROVE ProbeInv'
<1>1. ListInv /\ ListInv'
    BY NextList DEF ProbeInv
<1>2. ASSUME ~upset' PROVE Orderly'
  <2>1. Orderly
      BY <1>1, <1>2, UpsetStays DEF ProbeInv, CleanInv
  <2>2. CASE CallProbe \/ CallRemove \/ ErrorDetected \/ CallSlotReset
      BY <1>1, <1>2, <2>1, <2>2, CallOrderly
  <2>3. ASSUME NEW a \in Actors, StopOrStart(a) PROVE Orderly'
      BY <1>1, <1>2, <2>1, <2>3, StopOrStartOrderly
  <2>4. CASE Routine
      BY <1>1, <1>2, <2>1, <2>3, <2>4, ReturnOrderly, RoutineOrderly, FailOrderly,
          CtrlInitOrderly DEF Routine, Actors
  <2>5. ASSUME NEW u \in Users, Program(u) PROVE Orderly'
      BY <1>1, <1>2, <2>1, <2>3, <2>5, UserOrderly DEF Program, UserStep, Actors
  <2>6. CASE UNCHANGED vars
    <3>1. UNCHANGED <<core, held, abandoned, dma_enable, rw_cnt, todo, upc, fault>>
        BY <2>6 DEF vars, core_vars, dev_vars
    <3> QED BY <2>1, <3>1
            DEF Orderly, Alone, Counted, Drained, Stopped, Off, Apart, Mapped, InCall, InUse, Ioctls, Left
  <2> QED BY <2>2, <2>4, <2>5, <2>6 DEF Next
<1> QED BY <1>1, <1>2 DEF ProbeInv, CleanInv

(* In every state the lists, what is held and the order fit together.      *)
THEOREM CardIsOrderly == Spec => []ProbeInv
<1>1. Init => ProbeInv
    BY InitIsProbeInv
<1>2. ProbeInv /\ [Next]_vars => ProbeInv'
    BY NextKeepsProbeInv
<1> QED BY <1>1, <1>2, PTL DEF Spec

(* Every variable keeps its type: in particular each routine and each      *)
(* ioctl only ever has known steps left, however its resets end.           *)
THEOREM CardTypes == Spec => []TypeOK
<1>1. ProbeInv => TypeOK
    BY DEF ProbeInv, ListInv
<1> QED BY <1>1, CardIsOrderly, PTL

(* A card that is not bound holds nothing, whichever step of probe failed  *)
(* and whatever its recoveries did before it was removed.                  *)
THEOREM ProbeUndoesItself == Spec => []NothingLeaks
<1>1. ProbeInv => NothingLeaks
    BY DEF ProbeInv, ListInv, HeldInv, Holds, NothingLeaks
<1> QED BY <1>1, CardIsOrderly, PTL

(* A bound card holds all it needs, also after any number of recoveries.   *)
THEOREM RecoveryIsComplete == Spec => []BoundHoldsAll
<1>1. ProbeInv => BoundHoldsAll
    BY DEF ProbeInv, ListInv, HeldInv, Holds, BoundHoldsAll
<1> QED BY <1>1, CardIsOrderly, PTL

(* Nothing is got or given back twice and no register is used while it is  *)
(* not mapped, except after an upset or by the removal of a card whose     *)
(* recovery failed.                                                        *)
THEOREM FaultsHaveACause == Spec => []NoFault
<1>1. ProbeInv => NoFault
    BY DEF ProbeInv, CleanInv, Orderly, Mapped, NoFault
<1> QED BY <1>1, CardIsOrderly, PTL

(* A call that is past its check of dma_enable has its device, and nobody  *)
(* relinks the buffer lists under it, until something upsets the order.    *)
THEOREM CallsAreServed == Spec => []CallsHaveDevice
<1>1. ASSUME ProbeInv, NEW u \in Users, upc[u] = "in", ~upset
      PROVE  CallNeeds \subseteq held /\ \A a \in Actors : ~Relinking(a)
  <2>1. ListInv /\ Orderly /\ u \in InUse
      BY <1>1 DEF ProbeInv, CleanInv, InUse
  <2>2. /\ Holds(core, todo[Core], held, abandoned) /\ held \in SUBSET Resources /\ core \in Idle \cup Busy
        /\ Core \in Actors /\ todo \in [Actors -> Seq(Steps)] /\ CallNeeds \subseteq Resources
        /\ dma_enable \in {0, 1} /\ todo[Core] \in Seq(Steps)
      BY <2>1 DEF ListInv, TypeOK, HeldInv, Actors, CallNeeds, Resources
  <2>3. \A a \in Actors, x \in {"ctrl_init", "enable"} : Faces(a, x) => x \in Left(a)
    <3>1. ASSUME NEW a \in Actors, NEW x, Faces(a, x) PROVE x \in Left(a)
        BY <2>2, <3>1, TailLeft DEF Faces, Left
    <3> QED BY <3>1
  <2>4. core \notin {"probe", "slot_reset"} \/ todo[Core] = <<>>
    <3>1. ASSUME core \in {"probe", "slot_reset"}, todo[Core] # <<>> PROVE FALSE
      <4>1. dma_enable # 0
          BY <2>1, <3>1, NoneIn DEF Orderly
      <4>2. core = "slot_reset"
          BY <2>1, <3>1, <4>1 DEF Orderly, Off
      <4>3. "enable" \in Left(Core) /\ "disable" \notin Left(Core)
          BY <2>2, <3>1, <4>2, CoreLeft DEF Left, Stopping
      <4> QED BY <2>1, <2>2, <4>1, <4>3 DEF Orderly, Stopped, DmaSteps
    <3> QED BY <3>1
  <2>5. "ctrl_init" \notin Left(Core) /\ "enable" \notin Left(Core)
    <3>1. CASE todo[Core] = <<>>
        BY <3>1 DEF Left, Range
    <3>2. CASE todo[Core] # <<>>
        BY <2>2, <2>4, <3>2, CoreLeft DEF Left
    <3> QED BY <3>1, <3>2
  <2>6. \A v \in Users : ~Faces(v, "ctrl_init") /\ ~Faces(v, "enable")
    <3>1. ASSUME NEW v \in Users, Faces(v, "ctrl_init") PROVE FALSE
      <4>1. todo[v] \in Seq(Steps) /\ (IsEndOf(todo[v], Stop) \/ IsEndOf(todo[v], Restart))
          BY <2>1, <2>2 DEF ListInv, IoctlInv, Actors
      <4>2. Left(v) \subseteq Stopping \cup {"reset2", "enable"}
          BY <4>1, IoctlLeft DEF Left
      <4> QED BY <2>3, <3>1, <4>2 DEF Stopping, Actors
    <3>2. ASSUME NEW v \in Users, Faces(v, "enable") PROVE FALSE
      <4>1. todo[v] \in Seq(Steps) /\ (IsEndOf(todo[v], Stop) \/ IsEndOf(todo[v], Restart))
            /\ todo[v] # <<>> /\ Head(todo[v]) = "enable" /\ v \in Actors
          BY <2>1, <2>2, <3>2 DEF ListInv, IoctlInv, Actors, Faces
      <4>2. Left(v) = {"enable"}
          BY <4>1, IoctlLeft DEF Left
      <4>3. dma_enable = 0
          BY <2>1, <4>1, <4>2 DEF Orderly, Stopped, DmaSteps
      <4>4. \A b \in Actors \ {v} : Left(b) \cap DmaSteps = {}
          BY <2>1, <4>1, <4>2, Solo DEF Orderly, DmaSteps
      <4>5. \A b \in Actors : "drain" \notin Left(b)
          BY <4>2, <4>4 DEF DmaSteps, Stopping
      <4> QED BY <2>1, <4>3, <4>5 DEF Orderly, Drained
    <3> QED BY <3>1, <3>2
  <2>7. \A a \in Actors : ~Relinking(a)
      BY <2>2, <2>3, <2>5, <2>6 DEF Relinking, Actors
  <2>8. CASE \E a \in Actors : "drain" \in Left(a)
    <3>1. PICK a \in Actors : "drain" \in Left(a)
        BY <2>8
    <3>2. \/ a \in Users /\ core \in {"bound", "failed"} /\ held = Resources
          \/ a = Core /\ core \in {"recover", "remove", "slot_reset"}
        BY <2>1, <3>1, Solo DEF Orderly, DmaSteps, Stopping
    <3>3. CASE a = Core
      <4>1. todo[Core] # <<>> /\ "drain" \in Range(todo[Core])
          BY <3>1, <3>3 DEF Left, Range
      <4>2. CallNeeds \subseteq held \/ (core = "remove" /\ held # Left(Core) \cap Resources)
          BY <2>2, <4>1, CoreLeft DEF Left, Stopping
      <4> QED BY <2>1, <2>7, <4>2 DEF Orderly, Apart
    <3> QED BY <2>2, <2>7, <3>2, <3>3
  <2>9. CASE \A a \in Actors : "drain" \notin Left(a)
    <3>1. dma_enable = 1
        BY <2>1, <2>9 DEF Orderly, Drained
    <3>2. core \in {"bound", "failed"} \/ (core = "slot_reset" /\ todo[Core] = <<>>)
      <4>1. core \notin {"recover", "remove"}
        <5>1. ASSUME core \in {"recover", "remove"} PROVE FALSE
          <6>1. "disable" \in Left(Core)
              BY <2>1, <3>1, <5>1 DEF Orderly, Off
          <6>2. todo[Core] # <<>>
              BY <6>1 DEF Left, Range
          <6>3. "drain" \in Left(Core)
              BY <2>2, <6>1, <6>2, CoreLeft DEF Left
          <6> QED BY <2>2, <2>9, <6>3
        <5> QED BY <5>1
      <4> QED BY <2>1, <2>2, <2>4, <3>1, <4>1 DEF Orderly, Off, Idle, Busy
    <3>3. held = Resources
      <4>1. todo[Core] = <<>> => Range(todo[Core]) = {}
          BY DEF Range
      <4> QED BY <2>2, <3>2, <4>1 DEF Holds
    <3> QED BY <2>2, <2>7, <3>3
  <2> QED BY <2>8, <2>9
<1>2. ProbeInv => CallsHaveDevice
    BY <1>1 DEF CallsHaveDevice, CallNeeds
<1> QED BY <1>2, CardIsOrderly, PTL
=============================================================================
