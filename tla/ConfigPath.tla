---------------------------- MODULE ConfigPath -----------------------------
(***************************************************************************)
(* How a configuration gets into homegw-init: from a file, over the serial *)
(* line /dev/ttyGS0 (bootstrap.go; scripts/gen_config_text.sh sends it),   *)
(* or in an upgrade package (kexec-sealer/main.go, kexec/lib.go) by way of *)
(* the on-chip RAM (ocram.go), which survives a warm reset.                *)
(*                                                                         *)
(* A text is a sequence of cells other than 0, standing for bytes; a hash  *)
(* stands for the text it is the hash of.  The checks of signatures, key   *)
(* and version and the rest of the upgrade handler are in HotUpgrade.      *)
(***************************************************************************)
EXTENDS Integers, Sequences, FiniteSets

CONSTANTS
  Text,        \* Text[c]: the text of each configuration there is
  Kernel,      \* the kernel image of the packages
  Signature,   \* their signature
  MemSize,     \* cells of the on-chip RAM after the hash
  NoFile,      \* HOMEGW_CONFIG_PATH is not set
  Sent,        \* configurations sent over the serial line
  MaxSends,    \* BOUND: transmissions in a boot
  MaxDamage,   \* BOUND: lines lost or damaged in a boot
  MaxUpgrades  \* BOUND: packages uploaded

Configs == DOMAIN Text
Texts   == {Text[c] : c \in Configs}

ASSUME ConfigAssumption ==
  /\ \A c \in Configs : Text[c] \in Seq(Nat \ {0})
  /\ \A c, d \in Configs : Text[c] = Text[d] => c = d
  /\ Kernel \in Seq(Nat) /\ Signature \in Seq(Nat)
  /\ MemSize \in Nat \ {0} /\ NoFile \notin Configs /\ Sent \subseteq Configs
  /\ MaxSends \in Nat /\ MaxDamage \in Nat /\ MaxUpgrades \in Nat

VARIABLES
  phase,    \* "boot", "gs0" (loadConfigFromGs0), "main", "dead"
  file,     \* the configuration in the file of HOMEGW_CONFIG_PATH, or NoFile
  text,     \* configText
  ocram,    \* [hash, cells]
  rx,       \* the reader of the serial line: [st, hash, data]
  tx,       \* lines of the current transmission still to come
  hurt,     \* a line of it was lost or damaged
  saving,   \* the text the upgrade handler saves, with its progress
  sends, damage, upgrades,  \* bounded by MaxSends, MaxDamage and MaxUpgrades
  \* --- history ---
  clean,    \* complete undamaged transmissions, one after the other
  given,    \* configurations given for the next start of main
  saved     \* the text wholly saved before the last reset, or <<>>

configVars == <<phase, file, text, ocram, rx, tx, hurt, saving, sends, damage, upgrades, clean, given, saved>>

Line(tag, val) == [tag |-> tag, val |-> val]
NoLine == Line("none", <<>>)
Idle   == [st |-> "begin", hash |-> NoLine, data |-> <<>>]
NoSave == [at |-> "none", text |-> <<>>]

Zeros == [i \in 1..MemSize |-> 0]
Erased == [hash |-> <<0>>, cells |-> Zeros]
Junk   == [hash |-> <<-1>>, cells |-> [i \in 1..MemSize |-> -2]]

ConfigInit ==
  /\ phase = "boot" /\ file \in Configs \cup {NoFile} /\ text = <<>>
  /\ ocram \in {Erased, Junk}
  /\ rx = Idle /\ tx = <<>> /\ hurt = FALSE /\ saving = NoSave
  /\ sends = 0 /\ damage = 0 /\ upgrades = 0 /\ clean = 0 /\ given = {} /\ saved = <<>>

(* loadConfig ends: json.Unmarshal accepts the configurations' texts only. *)
Use(t) ==
  /\ phase' = IF t \in Texts THEN "main" ELSE "dead"
  /\ text' = t
  /\ rx' = Idle /\ tx' = <<>> /\ hurt' = FALSE /\ clean' = 0
  /\ sends' = 0 /\ damage' = 0 /\ given' = {}

NotUsed == UNCHANGED <<text, rx, tx, hurt, clean, sends, damage, given>>

-----------------------------------------------------------------------------
(* From a file; a file that cannot be read is fatal.                       *)
LoadFile ==
  /\ phase = "boot" /\ file # NoFile
  /\ \/ Use(Text[file])
     \/ phase' = "dead" /\ NotUsed
  /\ UNCHANGED <<file, ocram, saving, upgrades, saved>>

(* loadConfigFromOcram: the text ends before the first zero; without one   *)
(* it is empty.                                                            *)
OcramText ==
  LET zeros == {i \in 1..MemSize : ocram.cells[i] = 0}
  IN IF zeros = {} THEN <<>>
     ELSE SubSeq(ocram.cells, 1, (CHOOSE i \in zeros : \A j \in zeros : i <= j) - 1)

(* dumpAndEraseOcram, and the fall-back to the serial line.                *)
LoadOcram ==
  /\ phase = "boot" /\ file = NoFile
  /\ \/ /\ ocram' = Erased
        /\ IF ocram.hash = OcramText THEN Use(OcramText) ELSE phase' = "gs0" /\ NotUsed
     \/ phase' = "dead" /\ UNCHANGED ocram /\ NotUsed
  /\ UNCHANGED <<file, saving, upgrades, saved>>

-----------------------------------------------------------------------------
(* The serial line.                                                        *)

(* gen_config_text.sh.                                                     *)
Lines(t) ==
  <<Line("begin", <<>>), Line("hash", t)>>
    \o [i \in 1..Len(t) |-> Line("data", <<t[i]>>)] \o <<Line("end", <<>>)>>

StartSending(c) ==
  /\ phase = "gs0" /\ tx = <<>> /\ sends < MaxSends
  /\ tx' = Lines(Text[c]) /\ hurt' = FALSE /\ sends' = sends + 1
  /\ given' = given \cup {c}
  /\ UNCHANGED <<phase, file, text, ocram, rx, saving, damage, upgrades, clean, saved>>

Received(r) == [i \in 1..Len(r.data) |-> IF r.data[i].tag = "data" THEN r.data[i].val[1] ELSE 0]

(* Mutant: the hash is only decoded, not compared.                         *)
Good_Unchecked(r) ==
  r.hash.tag = "hash" /\ \A i \in 1..Len(r.data) : r.data[i].tag = "data"

(* What was read is decoded and compared with the hash.                    *)
Good(r) ==
  /\ r.hash.tag = "hash"
  /\ \A i \in 1..Len(r.data) : r.data[i].tag = "data"
  /\ Received(r) = r.hash.val

(* Mutant: after a failed check the reader does not wait for <BEGIN>.      *)
Read_NoResync(l) ==
  CASE rx.st = "begin" -> [rx EXCEPT !.st = IF l.tag = "begin" THEN "hash" ELSE "begin"]
    [] rx.st = "hash"  -> [st |-> "data", hash |-> l, data |-> <<>>]
    [] rx.st = "data"  -> IF l.tag = "end" THEN [Idle EXCEPT !.st = "hash"]
                          ELSE [rx EXCEPT !.data = Append(@, l)]

(* One line read: skip until <BEGIN>, take the next line as the hash and   *)
(* whatever comes until <END> as the data; after a failed check, again.    *)
Read(l) ==
  CASE rx.st = "begin" -> [rx EXCEPT !.st = IF l.tag = "begin" THEN "hash" ELSE "begin"]
    [] rx.st = "hash"  -> [st |-> "data", hash |-> l, data |-> <<>>]
    [] rx.st = "data"  -> IF l.tag = "end" THEN Idle ELSE [rx EXCEPT !.data = Append(@, l)]

Receive(l) ==
  IF rx.st = "data" /\ l.tag = "end" /\ Good(rx)
  THEN Use(Received(rx))
  ELSE rx' = Read(l) /\ UNCHANGED <<phase, text>>

Deliver ==
  /\ phase = "gs0" /\ tx # <<>>
  /\ Receive(Head(tx))
  /\ phase' = "gs0" =>
       /\ tx' = Tail(tx) /\ UNCHANGED <<hurt, sends, damage, given>>
       /\ clean' = IF hurt THEN 0 ELSE IF Tail(tx) = <<>> THEN clean + 1 ELSE clean
  /\ UNCHANGED <<file, ocram, saving, upgrades, saved>>

(* A line is lost, or arrives as something else.                           *)
Damage ==
  /\ phase = "gs0" /\ tx # <<>> /\ damage < MaxDamage
  /\ damage' = damage + 1
  /\ tx' = Tail(tx) /\ hurt' = TRUE /\ clean' = 0
  /\ rx' \in {rx, Read(Line("noise", <<>>))}
  /\ UNCHANGED <<phase, file, text, ocram, saving, sends, upgrades, given, saved>>

(* The line is closed: the data so far is checked, else it is fatal; it is *)
(* fatal too when the device cannot be opened or set up.                   *)
HangUp ==
  /\ phase = "gs0"
  /\ \/ rx.st = "data" /\ Good(rx) /\ Use(Received(rx))
     \/ ~(rx.st = "data" /\ Good(rx)) /\ phase' = "dead" /\ NotUsed
  /\ UNCHANGED <<file, ocram, saving, upgrades, saved>>

-----------------------------------------------------------------------------
(* An upgrade package.                                                     *)

Field(s) == <<Len(s)>> \o s

(* kexec-sealer: the package it encrypts.                                  *)
Seal(kernel, config) ==
  LET data == Field(kernel) \o Field(config) IN Field(Signature) \o Field(data)

(* The readers of length-prefixed fields in decryptAndVerify and Unseal.   *)
HasField(s)  == Len(s) >= 1 /\ Len(s) - 1 >= Head(s)
Rest(s)      == SubSeq(s, 2 + Head(s), Len(s))
LastField(s) == Len(s) >= 1 /\ Len(s) - 1 = Head(s)

WellFormed(pkg) ==
  /\ HasField(pkg) /\ LastField(Rest(pkg))
  /\ LET data == Tail(Rest(pkg)) IN HasField(data) /\ LastField(Rest(data))

UnsealedConfig(pkg) == Tail(Rest(Tail(Rest(pkg))))

(* writeConfigToOcram: "config is too big".                                *)
Fits(t) == Len(t) + 1 <= MemSize

(* A sealed package is uploaded, the first or one after a failure; unless  *)
(* it is refused, saving begins.                                           *)
Upload(c) ==
  /\ phase = "main" /\ saving.at \in {"none", "failed"} /\ upgrades < MaxUpgrades
  /\ upgrades' = upgrades + 1 /\ given' = given \cup {c}
  /\ LET pkg == Seal(Kernel, Text[c])
         ok  == WellFormed(pkg) /\ UnsealedConfig(pkg) \in Texts /\ Fits(UnsealedConfig(pkg))
     IN saving' = IF ok THEN [at |-> "hash", text |-> UnsealedConfig(pkg)] ELSE saving
  /\ UNCHANGED <<phase, file, text, ocram, rx, tx, hurt, sends, damage, clean, saved>>

SaveHash ==
  /\ phase = "main" /\ saving.at = "hash"
  /\ ocram' = [ocram EXCEPT !.hash = saving.text]
  /\ saving' = [saving EXCEPT !.at = "text"]
  /\ UNCHANGED <<phase, file, text, rx, tx, hurt, sends, damage, upgrades, clean, given, saved>>

(* The copy stops anywhere when the gateway is reset.                      *)
SaveText ==
  /\ phase = "main" /\ saving.at = "text"
  /\ \E n \in 0..Len(saving.text) :
       /\ ocram' = [ocram EXCEPT !.cells =
                      [i \in 1..MemSize |-> IF i <= n THEN saving.text[i] ELSE @[i]]]
       /\ saving' = [saving EXCEPT !.at = IF n = Len(saving.text) THEN "zero" ELSE "stopped"]
  /\ UNCHANGED <<phase, file, text, rx, tx, hurt, sends, damage, upgrades, clean, given, saved>>

(* Mutant: the text is not terminated.                                     *)
SaveZero_Missing ==
  /\ phase = "main" /\ saving.at = "zero"
  /\ saving' = [saving EXCEPT !.at = "saved"]
  /\ UNCHANGED <<phase, file, text, ocram, rx, tx, hurt, sends, damage, upgrades, clean, given, saved>>

(* The terminating zero; an index past the mapping panics.                 *)
SaveZero ==
  /\ phase = "main" /\ saving.at = "zero"
  /\ LET end == Len(saving.text) + 1 IN
     /\ ocram' = [ocram EXCEPT !.cells = [i \in 1..MemSize |-> IF i = end THEN 0 ELSE @[i]]]
     /\ saving' = [saving EXCEPT !.at = IF end <= MemSize THEN "saved" ELSE "failed"]
  /\ UNCHANGED <<phase, file, text, rx, tx, hurt, sends, damage, upgrades, clean, given, saved>>

(* kexec_load fails: what was saved stays, and another upload may come.    *)
LoadFails ==
  /\ phase = "main" /\ saving.at = "saved"
  /\ saving' = [saving EXCEPT !.at = "failed"]
  /\ UNCHANGED <<phase, file, text, ocram, rx, tx, hurt, sends, damage, upgrades, clean, given, saved>>

(* The next kernel starts (kexec), or the gateway is reset: the on-chip    *)
(* RAM survives, unless power fails.                                       *)
Restart ==
  /\ phase = "main" /\ saving # NoSave
  /\ phase' = "boot" /\ text' = <<>> /\ saving' = NoSave
  /\ \/ saved' = (IF saving.at = "saved" THEN saving.text ELSE <<>>) /\ UNCHANGED ocram
     \/ ocram' = Junk /\ saved' = <<>>
  /\ UNCHANGED <<file, rx, tx, hurt, sends, damage, upgrades, clean, given>>

ConfigNext ==
  \/ LoadFile \/ LoadOcram
  \/ \E c \in Sent : StartSending(c)
  \/ Deliver \/ Damage \/ HangUp
  \/ SaveHash \/ SaveText \/ SaveZero \/ LoadFails

-----------------------------------------------------------------------------
LineType   == [tag: {"begin", "hash", "data", "end", "noise", "none"}, val: Seq(Int)]
ReaderType == [st: {"begin", "hash", "data"}, hash: LineType, data: Seq(LineType)]
OcramType  == [hash: Seq(Int), cells: [1..MemSize -> Int]]
SavingType == [at: {"none", "hash", "text", "stopped", "zero", "saved", "failed"}, text: Seq(Int)]

ConfigTypeOK ==
  /\ phase \in {"boot", "gs0", "main", "dead"} /\ file \in Configs \cup {NoFile}
  /\ text \in Seq(Int) /\ saved \in Seq(Int) /\ given \subseteq Configs
  /\ ocram \in OcramType /\ saving \in SavingType
  /\ rx \in ReaderType /\ tx \in Seq(LineType) /\ hurt \in BOOLEAN /\ clean \in Nat
  /\ sends \in 0..MaxSends /\ damage \in 0..MaxDamage /\ upgrades \in 0..MaxUpgrades

(* main is given a configuration the gateway was given, whole: neither a   *)
(* damaged or interleaved transmission (bootstrap.go:98-130) nor a save    *)
(* cut short (ocram.go:55-58) yields another, not even one that parses.    *)
ConfigIntact ==
  [][phase # "main" /\ phase' = "main" =>
       \E c \in given \cup {file} : c \in Configs /\ text' = Text[c]]_configVars

(* However a transmission was damaged, two undamaged ones are enough: the  *)
(* reader may take the first for data of the damaged one, but not both     *)
(* (bootstrap.go:85-106).                                                  *)
TwoIntactSuffice == phase = "gs0" => clean < 2

(* A configuration that was sealed, uploaded and saved is the one the next *)
(* kernel uses, without a transmission, whatever the on-chip RAM held: the *)
(* package format, the size check, the terminator and the search for it    *)
(* agree (kexec-sealer/main.go:56-77, ocram.go:20-58).                     *)
SavedIsUsed ==
  saved # <<>> /\ file = NoFile =>
    phase # "gs0" /\ (phase = "main" => text = saved)
=============================================================================
