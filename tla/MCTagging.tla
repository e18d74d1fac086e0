------------------------------ MODULE MCTagging ------------------------------
(***************************************************************************)
(* Small programs and policies for the tagging tool, each chosen for what  *)
(* it does to the tags on their way into the validator.                    *)
(***************************************************************************)
EXTENDS Tagging

(* Instructions as halfwords, low half first *)
li == <<\h0093, \h0050>>       \* addi x1, x0, 5
mv == <<\h8113, \h0000>>       \* addi x2, x1, 0
lw == <<\h2183, \h0001>>       \* lw x3, 0(x2)
bad == <<\hffff, \hffff>>      \* no instruction
c_nop == <<\h0001>>

Section(name, flags, address, size, data) ==
  [name |-> name, flags |-> flags, address |-> address, size |-> size, data |-> data]
Text(address, code) == Section(".text", {"ALLOC", "EXECINSTR"}, address, 2 * Len(code), code)
Data(address, size) == Section(".data", {"ALLOC", "WRITE"}, address, size, <<>>)
Rodata(address, size) == Section(".rodata", {"ALLOC"}, address, size, <<>>)
TagArray(address) == Section(".tag_array", {"ALLOC"}, address, 40, <<>>)

(* set the base to 16, tag 16 + 4 as a call target, a function 16 .. 24 *)
Dover == Section(".dover_metadata", {}, 0, 24,
           <<1, 16, 0, 0, 0, 0, 0, 0, 0,  2, 4, 0, 0, 0, 1,  10, 0, 0, 0, 0, 8, 0, 0, 0>>)
DoverPolicy == Section(".dover_metadata", {}, 0, 10, <<1, 16, 0, 0, 0, 0, 0, 0, 0, 9>>)

Symbol(name, value, size) == [name |-> name, value |-> value, size |-> size, shndx |-> "DEF"]
Image(class, sections, symbols) == [class |-> class, sections |-> sections, symbols |-> symbols]

malloc == Symbol("malloc", 17, 8)      \* bit 0 is not part of the address
buf == Symbol("buf", 36, 4)
low == Symbol("low", 12, 4)
half == Symbol("half", 34, 8)
undefined == [name |-> "ext", value |-> 0, size |-> 4, shndx |-> "UNDEF"]

Program == Image(32, <<Text(16, li \o mv \o lw), Rodata(28, 6), Data(36, 8)>>, <<undefined, malloc, buf>>)
Program64 == Image(64, <<Text(16, li \o bad \o lw), Data(32, 8)>>, <<malloc, buf>>)
Compiled == Image(32, <<Text(16, li \o mv \o lw), Dover>>, <<malloc>>)
Unknown == Image(32, <<Text(16, li), DoverPolicy>>, <<>>)
Compressed == Image(32, <<Text(16, c_nop \o li \o c_nop \o mv)>>, <<>>)
AtZero == Image(32, <<Text(0, li \o mv), Data(8, 4)>>, <<Symbol("malloc", 0, 4), buf>>)
WithArray == Image(32, <<Text(16, li), TagArray(24)>>, <<>>)
FarArray == Image(32, <<Text(16, li), TagArray(3000)>>, <<>>)
Gap == Image(32, <<Text(20, li \o mv)>>, <<low>>)
Outside == Image(32, <<Text(16, li), Data(64, 12)>>, <<>>)
CodeAtZero == Image(32, <<Text(0, li \o mv)>>, <<>>)
Split == Image(32, <<Text(16, li), Data(28, 4)>>, <<Symbol("malloc", 16, 8), buf>>)
Halfway == Image(32, <<Text(16, li), Data(36, 8)>>, <<half>>)
HalfCode == Image(32, <<Text(36, c_nop \o c_nop \o c_nop \o c_nop)>>, <<half>>)

(* The region of .data is extended over that of .text, and that downwards. *)
Crossed == Image(32, <<Text(16, li \o mv), Data(40, 8)>>,
                 <<Symbol("malloc", 4, 4), Symbol("buf", 40, 4), Symbol("below", 12, 4)>>)

-----------------------------------------------------------------------------
X == RWX_X  R == RWX_R  W == RWX_W
Malloc == <<"Code", "malloc">>
Uart == <<"SOC", "IO", "UART_0">>
Gpio == <<"SOC", "IO", "GPIO_0">>
Ram == <<"SOC", "Memory", "Ram_0">>
Call == <<"llvm", "CFI_Call-Tgt">>

(* the paths and the tags, sorted *)
Names ==
  << Malloc, Csr("Default"), Csr("MEPC"), Csr("MISA"), Csr("MStatus"), Reg("Default"), Reg("Env"),
     Reg("Odd"), Reg("RZero"), Reg("SP"), Gpio, Uart, Ram, R, W, X, Call, NoCFI,
     <<"t", "call">>, <<"t", "exec">>, <<"t", "grp">>, <<"t", "heap">>, <<"t", "li">>, <<"t", "read">>,
     <<"t", "reg">>, <<"t", "write">> >>

Meta(name, id) == [name |-> <<"t", name>>, id |-> id]
Metas == <<Meta("exec", 1), Meta("read", 2), Meta("write", 3), Meta("grp", 130), Meta("li", 5),
           Meta("heap", 6), Meta("reg", 7)>>

(* li when the base register is x0 and the immediate small *)
Groups(kind) ==
  "addi" :> <<[meta |-> <<"t", "grp">>, rules |-> none],
              [meta |-> <<"t", "li">>,
               rules |-> some(<<any, [match |-> kind, values |-> <<0>>], any, any,
                           [match |-> "match_in_range", values |-> <<0, 7>>]>>)]>>

T(names) == {<<"t", n>> : n \in names}
Elf == (X :> T({"exec"})) @@ (R :> T({"read"})) @@ (W :> T({"write"}))
Isa == (Reg("Default") :> T({"reg"})) @@ (Reg("Env") :> {}) @@ (Reg("RZero") :> T({"reg", "read"})) @@
       (Csr("Default") :> T({"reg"})) @@ (Csr("MEPC") :> T({"write"}))
Soc_ == (Uart :> T({"write"})) @@ (Ram :> T({"read"}))
Heap == Malloc :> T({"heap"})
Without_(f, key) == [p \in DOMAIN f \ {key} |-> f[p]]

Policy(require) == [require |-> require, metas |-> Metas, groups |-> Groups("match_equal")]
Full == Policy(Elf @@ Isa @@ Soc_ @@ Heap)
Heaps == Policy(Isa @@ Heap @@ (Gpio :> T({"write"})) @@ (Uart :> T({"write"})))
Llvm == Policy(Elf @@ Isa @@ (Call :> T({"call"})) @@ (NoCFI :> T({"read"})))
NoRequire == Policy(<<>>)
NoAlloc == Policy(Without_(Elf, R) @@ Isa)
NoDefault == Policy(Without_(Elf @@ Isa, Reg("Default")))
NoEnv == Policy(Without_(Elf @@ Isa, Reg("Env")))
OddRegister == Policy(Elf @@ Isa @@ (Reg("Odd") :> T({"reg"})))
SharedSlot == Policy(Elf @@ Isa @@ (Csr("MISA") :> T({"exec"})) @@ (Csr("MStatus") :> T({"read"})))
BadRule == [Full EXCEPT !.groups = Groups("match_some")]

-----------------------------------------------------------------------------
Element(name, start, end, heterogeneous, granularity) ==
  [name |-> name, start |-> start, end |-> end, heterogeneous |-> heterogeneous,
   tag_granularity |-> granularity]
Elements ==
  << Element(<<"SOC", "Memory", "Flash_0">>, 0, 64, TRUE, 8), Element(Ram, 72, 96, TRUE, 4),
     Element(Gpio, 124, 131, FALSE, 4), Element(Uart, 128, 135, FALSE, 16) >>

Node(name, kind) == [name |-> name, kind |-> kind]
Named(node, elf_name) == [f \in DOMAIN node \cup {"elf_name"} |-> IF f = "elf_name" THEN elf_name ELSE node[f]]
OfRange == [name |-> Malloc, kind |-> "range", elf_start |-> "malloc", elf_end |-> "buf"]
Single == [name |-> Malloc, kind |-> "symbol", elf_name |-> "buf", tag_all |-> FALSE]
Entities == << <<Named(Node(Malloc, "symbol"), "malloc"), Node(Uart, "soc"), Single>>,
               <<Named(Node(<<"none">>, "symbol"), "buf"), Node(Malloc, "device"), OfRange>> >>
Symbols(name) == << <<Named(Node(Malloc, "symbol"), name)>> >>
Spanning == << <<OfRange>> >>
SpanningBelow == << <<OfRange, Named(Node(R, "symbol"), "malloc"), Named(Node(R, "symbol"), "below")>> >>

Case(img, pol, entities, firmware) ==
  [image |-> img, policy |-> pol, soc |-> Elements, entities |-> entities, firmware |-> firmware,
   taginfo |-> TRUE]
None == << <<>> >>

Plain ==
  { Case(Program, Full, Entities, FALSE), Case(Compiled, Llvm, None, FALSE),
    Case(Compressed, Full, None, FALSE), Case(Outside, Full, None, FALSE),
    Case(Split, Full, Spanning, FALSE), Case(Halfway, Full, Symbols("half"), FALSE),
    Case(Crossed, Full, SpanningBelow, FALSE), Case(Program64, NoRequire, None, FALSE),
    [Case(Program, NoRequire, None, FALSE) EXCEPT !.taginfo = FALSE] }
Broken ==
  { Case(no_image, Full, None, FALSE), Case(no_image, NoRequire, None, FALSE),
    Case(Unknown, Llvm, None, FALSE), Case(AtZero, Full, Entities, FALSE),
    Case(HalfCode, Full, Symbols("half"), FALSE),
    Case(Program, Llvm, None, FALSE), Case(Compressed, NoRequire, None, FALSE),
    Case(FarArray, Full, None, FALSE), Case(Gap, Heaps, Symbols("low"), FALSE),
    Case(Program, NoAlloc, None, FALSE), Case(Program, BadRule, None, FALSE) }
Firmware ==
  { Case(Program, Full, Entities, TRUE), Case(Program64, Heaps, Entities, TRUE),
    Case(WithArray, Full, None, TRUE),
    Case(Program, NoDefault, None, TRUE), Case(Program, NoEnv, None, TRUE),
    Case(Program, OddRegister, None, TRUE), Case(Program, SharedSlot, None, TRUE) }

AllInputs == Plain \cup Broken \cup Firmware
AtZeroInput == {Case(CodeAtZero, Full, None, FALSE)}

(* "/b" and nothing more, which loads as no tag file, and a line that does  *)
Texts == {<<10, 47, 98>>, <<10, 32, 49, 9, 102, 105, 108, 101, 32, 102, 111, 114, 109>>}

Keys == {"policy_dir", "tags_file", "soc_cfg_path"}
AllConfigs == {{}, Keys, Keys \ {"tags_file"}, Keys \cup {"rule_cache_name"}}
OneConfig == {Keys}

SocSet == {Elements[i] : i \in DOMAIN Elements}
Words32 == {4 * i : i \in 0 .. 31}
Addresses_ == Words32 \cup {5000}

=============================================================================
