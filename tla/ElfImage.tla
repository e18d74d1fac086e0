------------------------------ MODULE ElfImage ------------------------------
(***************************************************************************)
(* What the tagging tools take from an ELF file: elf_image_t with its      *)
(* sections, symbol_table_t, and the entity bindings that name symbols.    *)
(*                                                                         *)
(* An image is [class, sections, symbols]: sections in the order of the    *)
(* file as [name, flags, address, size, data], symbols as libelf returns   *)
(* them, [name, value, size, shndx].  A file libelf cannot open or read is *)
(* the image no_image.                                                     *)
(***************************************************************************)
EXTENDS Addresses, SequencesExt

no_image == [class |-> 0, sections |-> <<>>, symbols |-> <<>>]

round_up(x, align) == ((x + align - 1) \div align) * align

end_address(s) == uint64(round_up(s.address + s.size, 4))
address_range(s) == [start |-> s.address, end |-> uint64(end_address(s) - 1)]
word_bytes(image) == IF image.class = 64 THEN 8 ELSE 4

(* Symbols that are defined in a section; bit 0 of an address is cleared.  *)
symtab(image) ==
  LET symbol(y) == [name |-> y.name, size |-> y.size, address |-> y.value - (y.value % 2)]
  IN  FlattenSeq([i \in DOMAIN image.symbols |->
        Where(image.symbols[i].shndx \notin {"UNDEF", "ABS"}, symbol(image.symbols[i]))])

(* name_map keeps the last symbol pushed under a name; no symbol is <<>> *)
find(symbols, name) ==
  LET named == {i \in DOMAIN symbols : symbols[i].name = name}
  IN  IF named = {} THEN <<>> ELSE <<symbols[Max(named)]>>

(* find with an error report: a symbol without size is no symbol when its  *)
(* size is needed, unless it is optional                                   *)
find_symbol(symbols, name, needs_size, optional) ==
  LET sym == find(symbols, name)
  IN  IF sym # <<>> /\ needs_size /\ ~optional /\ sym[1].size = 0 THEN <<>> ELSE sym

-----------------------------------------------------------------------------
(* entity_binding.cc.  A node is a record with the fields it has in the    *)
(* YAML file.                                                              *)
Flag(n, field) == field \in DOMAIN n /\ n[field]

Required(kind) == CASE kind = "symbol" -> {"elf_name"}
                    [] kind = "range" -> {"elf_start", "elf_end"}
                    [] OTHER -> {}

(* expect_field or the test of the kind throws *)
Malformed(n) ==
  \/ ~({"name", "kind"} \subseteq DOMAIN n)
  \/ n.kind \notin {"symbol", "range", "soc", "isa", "image"}
  \/ ~(Required(n.kind) \subseteq DOMAIN n)

(* entity_binding_t::load keeps the elements it has read when it meets one *)
(* that is malformed, and reads no further.                                *)
load_bindings(nodes) ==
  SubSeq(nodes, 1, Min({i \in DOMAIN nodes : Malformed(nodes[i])} \cup {Len(nodes) + 1}) - 1)

(* tag_all: false makes the binding one of a single word *)
is_singularity(n) == "tag_all" \in DOMAIN n /\ ~n.tag_all

=============================================================================
