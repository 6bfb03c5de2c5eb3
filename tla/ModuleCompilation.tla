------------------------- MODULE ModuleCompilation -------------------------
(***************************************************************************)
(* How the frontend turns a WebAssembly module into a binary: one operator *)
(* per section of the bytecode, with every check it makes in the order it  *)
(* makes them, then the sections of the binary (Frontend.cpp).             *)
(*                                                                         *)
(* A compilation c is a record: what is known of the module (ModuleInfo),  *)
(* the error thrown ("" while there is none) and the output, a sequence of *)
(* 4-byte words.  A word is <<"u32", n>>, <<"code", what, function, k>>,   *)
(* <<"bytes", 1 to 4 of them>>, <<"value", v>>, one half of an 8-byte      *)
(* value, <<"lo", v>> or <<"hi", v>>, a word with the type of a global     *)
(* (<<"type", type>>, <<"flags", isMutable, type>>) or with the stack      *)
(* trace settings.  Names are sequences of bytes; a value type is the      *)
(* letter its signature has: i, I, f or F.  Offsets are in bytes.          *)
(* The bodies of functions are compiled by the modules FunctionBody and    *)
(* CompileStack; here a body is the outcome of that.                       *)
(***************************************************************************)
EXTENDS Integers, Sequences, FiniteSets, SequencesExt

CONSTANTS
    Limits,         \* ImplementationLimits: a record of the limits used below
    BuiltinModule,  \* the name of the module of the builtin functions
    Builtins,       \* the builtin functions: pairs of name and signature
    PageBytes,      \* the bytes of a WebAssembly page
    MaxPages,       \* the pages of the whole address space
    BlobBytes       \* the size of each kind of generated code, in bytes

Unknown == -1  \* 0xFFFFFFFF

ValueTypes == {"i", "I", "f", "F"}

SizeOf(type) == IF type \in {"i", "f"} THEN 4 ELSE 8

RoundUp(n, size) == ((n + size - 1) \div size) * size

Signature(params, results) == <<"(">> \o params \o <<")">> \o results

(* Errors.  A section stops at the first check that fails. *)

Throw(c, code) == [c EXCEPT !.error = code]

Must(condition, code) == IF condition THEN "" ELSE code

\* The first of a list of codes that is one.
FirstError(codes) ==
    LET i == SelectInSeq(codes, LAMBDA code : code # "")
    IN  IF i = 0 THEN "" ELSE codes[i]

Checked(c, code, next) == IF code = "" THEN next ELSE Throw(c, code)

\* Step is done for each item, until it throws.
ForEach(c, items, Step(_, _)) ==
    FoldLeft(LAMBDA d, item : IF d.error = "" THEN Step(d, item) ELSE d, c, items)

(***************************************************************************)
(* UTF-8, byte by byte, as the code reads it: the number of leading ones   *)
(* of a byte says how many bytes follow or that it is one of them.         *)
(***************************************************************************)
LeadingOnes(byte) ==
    CASE byte < 128 -> 0 [] byte < 192 -> 1 [] byte < 224 -> 2 [] byte < 240 -> 3
      [] byte < 248 -> 4 [] byte < 252 -> 5 [] byte < 254 -> 6 [] OTHER -> byte - 247

FirstCodepoint == <<0, 128, 2048, 65536>>
LastCodepoint == <<127, 32767, 65535, 1114111>>

\* A faulty variant, to show what the properties detect: surrogates pass.
NextByteWithSurrogates(u, byte) ==
    LET ones    == LeadingOnes(byte)
        starts  == u.pending = 0
        total   == IF starts THEN ones ELSE u.total
        pending == (IF starts THEN ones ELSE u.pending) - 1
        code    == (IF starts THEN 0 ELSE u.codepoint) + (byte % 2 ^ (7 - ones)) * 64 ^ pending
    IN  IF ~u.valid \/ (starts /\ ones = 0) THEN u
        ELSE IF (starts /\ ones \notin 2 .. 4) \/ (~starts /\ ones # 1)
             THEN [u EXCEPT !.valid = FALSE]
        ELSE [pending |-> pending, total |-> total, codepoint |-> code,
              valid |-> pending > 0 \/ code \in FirstCodepoint[total] .. LastCodepoint[total]]

NextByte(u, byte) ==
    LET ones    == LeadingOnes(byte)
        starts  == u.pending = 0
        payload == byte % 2 ^ (7 - ones)
        total   == IF starts THEN ones ELSE u.total
        pending == (IF starts THEN ones ELSE u.pending) - 1
        code    == (IF starts THEN 0 ELSE u.codepoint) + payload * 64 ^ pending
    IN  IF ~u.valid \/ (starts /\ ones = 0) THEN u
        ELSE IF (starts /\ ones \notin 2 .. 4) \/ (~starts /\ ones # 1)
             THEN [u EXCEPT !.valid = FALSE]
        ELSE [pending |-> pending, total |-> total, codepoint |-> code,
              valid |-> \/ pending > 0
                        \/ /\ code \in FirstCodepoint[total] .. LastCodepoint[total]
                           /\ code \notin 55296 .. 57343]

ValidUTF8(name) ==
    LET end == FoldLeft(NextByte, [pending |-> 0, total |-> 0, codepoint |-> 0, valid |-> TRUE], name)
    IN  end.valid /\ end.pending = 0

NameError(name, code) ==
    FirstError(<<Must(Len(name) <= Limits.string, code),
                 Must(ValidUTF8(name), "Malformed_UTF_8_sequence")>>)

(***************************************************************************)
(* The output.                                                             *)
(***************************************************************************)
U32(n) == <<"u32", n>>

Size(c) == 4 * Len(c.output)

Write(c, words) == [c EXCEPT !.output = @ \o words]

\* Bytes, padded to whole words.
Padded(bytes) ==
    [k \in 1 .. RoundUp(Len(bytes), 4) \div 4 |->
        <<"bytes", SubSeq(bytes, 4 * k - 3, IF 4 * k < Len(bytes) THEN 4 * k ELSE Len(bytes))>>]

Text(bytes) == Padded(bytes) \o <<U32(Len(bytes))>>

Code(what, function) ==
    [k \in 1 .. RoundUp(BlobBytes[what], 4) \div 4 |-> <<"code", what, function, k>>]

\* Generated code, padded, and its size without the padding.
PaddedBinaryBlob(what, function) == Code(what, function) \o <<U32(BlobBytes[what])>>

ValueWords(size, value) ==
    IF size = 4 THEN <<<<"value", value>>>> ELSE <<<<"lo", value>>, <<"hi", value>>>>

\* The size of what was written since the output had the size start.
SectionSize(c, start) == Write(c, <<U32(Size(c) - start)>>)

(***************************************************************************)
(* Types.  A signature equal to an earlier one is replaced by its index;   *)
(* behind the types of the module stand those of the blocks without a type *)
(* index: (), ()i, ()I, ()f and ()F.                                       *)
(***************************************************************************)
TypeError(type, code) ==
    CASE type \in ValueTypes -> ""
      [] type = "reference" -> "Reference_type_feature_not_implemented"
      [] OTHER -> code

TypesError(types, code) ==
    LET i == SelectInSeq(types, LAMBDA type : type \notin ValueTypes)
    IN  IF i = 0 THEN "" ELSE TypeError(types[i], code)

ParseType(c, t) ==
    LET code == FirstError(
            <<Must(t.form = "func", "Malformed_section_1__wrong_type"),
              Must(Len(t.params) <= Limits.params, "Too_many_params"),
              TypesError(t.params, "Invalid_function_parameter_type"),
              Must(Len(t.results) <= Limits.results, "Too_many_results"),
              TypesError(t.results, "Invalid_function_return_type")>>)
        signature == Signature(t.params, t.results)
        earlier   == SelectInSeq(c.types, LAMBDA u : u.signature = signature)
    IN  Checked(c, code,
            [c EXCEPT !.types = Append(@,
                IF earlier = 0 THEN [signature |-> signature, forward |-> Unknown]
                               ELSE [signature |-> <<>>, forward |-> earlier - 1])])

BlockTypes ==
    [k \in 1 .. 5 |-> [signature |-> Signature(<<>>, <<<<>>, <<"i">>, <<"I">>, <<"f">>, <<"F">>>>[k]),
                       forward |-> Unknown]]

ParseTypeSection(c, s) ==
    LET d == Checked(c, Must(Len(s.items) <= Limits.types, "Too_many_types"),
                     ForEach(c, s.items, ParseType))
    IN  Checked(d, d.error, [d EXCEPT !.types = @ \o BlockTypes, !.numTypes = Len(s.items)])

SigIndexForBlock(c, type) ==
    c.numTypes + (CASE type = "" -> 0 [] type = "i" -> 1 [] type = "I" -> 2
                    [] type = "f" -> 3 [] type = "F" -> 4)

TypeIndexError(c, index) == Must(index < c.numTypes, "Function_type_out_of_bounds")

ReduceTypeIndex(c, index) ==
    LET forward == c.types[index + 1].forward
    IN  IF forward = Unknown THEN index ELSE forward

SignatureAt(c, sigIndex) == c.types[sigIndex + 1].signature

(***************************************************************************)
(* Functions: the imported ones first.                                     *)
(***************************************************************************)
NumImports(c) == Len(c.imports)

IsImported(c, f) == f < NumImports(c)

FncSigIndex(c, f) ==
    IF IsImported(c, f) THEN c.imports[f + 1].sigIndex ELSE c.functions[f - NumImports(c) + 1]

FunctionSignature(c, f) == SignatureAt(c, FncSigIndex(c, f))

IsBuiltin(c, f) == IsImported(c, f) /\ c.imports[f + 1].builtin

IsLinked(c, f) == IF IsImported(c, f) THEN c.imports[f + 1].linked ELSE f < c.total

Matches(symbol, item) == symbol.module = item.module /\ symbol.name = item.name

\* The given symbols come before the default ones.
ImportSymbols(c) == c.options.symbols \o c.options.defaults

ImportFunction(c, item) ==
    LET sigIndex  == ReduceTypeIndex(c, item.type)
        signature == SignatureAt(c, sigIndex)
        builtin   == item.module = BuiltinModule /\ <<item.name, signature>> \in Builtins
        found     == SelectInSeq(ImportSymbols(c),
                         LAMBDA symbol : Matches(symbol, item) /\ symbol.signature = signature)
        linked    == builtin \/ found # 0
        dynamic   == ~builtin /\ found # 0 /\ ImportSymbols(c)[found].linkage = "DYNAMIC"
    IN  Checked(c, FirstError(<<TypeIndexError(c, item.type)>>),
        Checked(c, Must(linked \/ c.options.allowUnknownImports, "Imported_symbol_could_not_be_found"),
            [c EXCEPT !.imports = Append(@,
                          [sigIndex |-> sigIndex, builtin |-> builtin, linked |-> linked,
                           symbol |-> IF builtin THEN 0 ELSE found,
                           offset |-> IF builtin \/ found = 0 THEN 0 ELSE c.linkDataLength]),
                      !.linkDataLength = @ + (IF dynamic THEN c.options.pointerBytes ELSE 0)]))

ImportGlobal(c, item) ==
    LET found == SelectInSeq(c.options.globals,
                     LAMBDA symbol : Matches(symbol, item) /\ symbol.type = item.type)
        code == FirstError(
            <<Must(item.mutability \in {0, 1}, "Validation_failed"),
              TypeError(item.type, "Invalid_global_type"),
              Must(item.mutability = 0, "Mutable_imported_globals_not_supported"),
              Must(found # 0, "Imported_symbol_could_not_be_found")>>)
    IN  Checked(c, code, [c EXCEPT !.importGlobals = Append(@,
            [type |-> item.type, mutable |-> FALSE, value |-> c.options.globals[found].value,
             offset |-> 0, register |-> FALSE])])

ParseImport(c, item) ==
    Checked(c, FirstError(<<NameError(item.module, "Module_name_too_long"),
                            NameError(item.name, "Import_name_too_long")>>),
        CASE item.kind = "func" -> ImportFunction(c, item)
          [] item.kind = "table" -> Throw(c, "Imported_table_not_supported")
          [] item.kind = "mem" -> Throw(c, "Imported_memory_not_supported")
          [] item.kind = "global" -> ImportGlobal(c, item)
          [] OTHER -> Throw(c, "Unknown_import_type"))

ParseImportSection(c, s) ==
    LET d == ForEach(c, s.items, ParseImport)
    IN  Checked(d, FirstError(<<d.error, Must(NumImports(d) <= Limits.imported,
                                              "Too_many_imported_functions")>>),
                [d EXCEPT !.total = NumImports(d)])

ParseFunction(c, index) ==
    Checked(c, TypeIndexError(c, index),
            [c EXCEPT !.functions = Append(@, ReduceTypeIndex(c, index))])

ParseFunctionSection(c, s) ==
    Checked(c, Must(Len(s.items) <= Limits.functions, "Maximum_number_of_functions_exceeded"),
            ForEach([c EXCEPT !.total = NumImports(c) + Len(s.items)], s.items, ParseFunction))

(***************************************************************************)
(* Table and memory: at most one of each.                                  *)
(***************************************************************************)
ParseTable(c, t) ==
    LET code == FirstError(
            <<Must(t.element \in {"funcref", "externref"}, "Only_table_type__funcref__allowed"),
              Must(t.element = "funcref", "Reference_type_feature_not_implemented"),
              Must(t.flag \in {0, 1}, "Unknown_size_limit_flag"),
              Must(t.initial <= Limits.tableEntries, "Table_initial_size_too_long"),
              Must(t.flag = 1 => t.maximum >= t.initial,
                   "Maximum_table_size_smaller_than_initial_table_size"),
              Must(t.flag = 1 => t.maximum <= Limits.tableEntries, "Table_Maximum_Size_too_long")>>)
    IN  Checked(c, code, [c EXCEPT !.elements =
            [i \in 1 .. t.initial |-> [function |-> Unknown, wrapper |-> Unknown]]])

ParseTableSection(c, s) ==
    Checked(c, Must(Len(s.items) <= 1, "Reference_type_feature_not_implemented"),
            ForEach([c EXCEPT !.hasTable = TRUE], s.items, ParseTable))

ParseMemory(c, m) ==
    LET code == FirstError(
            <<Must(m.flag \in {0, 1}, "Unknown_size_limit_flag"),
              Must(m.flag = 1 => m.maximum >= m.initial,
                   "Maximum_memory_size_smaller_than_initial_memory_size"),
              Must(m.initial <= MaxPages /\ (m.flag = 1 => m.maximum <= MaxPages),
                   "Memory_size_must_be_at_most_65536_pages__4GiB_")>>)
    IN  Checked(c, code, [c EXCEPT !.hasMemory = TRUE, !.initialPages = m.initial])

ParseMemorySection(c, s) ==
    Checked(c, Must(Len(s.items) <= 1, "Only_one_memory_instance_allowed"),
            ForEach(c, s.items, ParseMemory))

(***************************************************************************)
(* Globals.  An instruction is the letter of the type of its constant,     *)
(* "global.get", "end", one with an extension prefix or another one.       *)
(***************************************************************************)
OpCodeError(op) ==
    CASE op = "extended" -> "Unknown_instruction"
      [] op = "vector" -> "Simd_feature_not_implemented"
      [] OTHER -> ""

\* The error of the instruction that gives a global its initial value.
InitialValueError(c, g) ==
    CASE g.op \in ValueTypes ->
            Must(g.op = g.type, "Malformed_global_initialization_expression")
      [] g.op = "global.get" ->
            Must(/\ g.value < Len(c.importGlobals)
                 /\ c.importGlobals[g.value + 1].type = g.type, "Validation_failed")
      [] OTHER -> "Malformed_global_initialization_expression"

\* A global of 4 bytes that can change is given its place at once.
ParseGlobal(c, g) ==
    LET code == FirstError(
            <<TypeError(g.type, "Invalid_global_type"),
              Must(g.mutability \in {0, 1}, "Unknown_mutability_flag"),
              OpCodeError(g.op), InitialValueError(c, g), OpCodeError(g.end),
              Must(g.end = "end", "Malformed_global_initialization_expression")>>)
        mutable == g.mutability = 1
    IN  Checked(c, code,
            [c EXCEPT !.globals = Append(@,
                          [type |-> g.type, mutable |-> mutable,
                           value |-> IF g.op = "global.get" THEN c.importGlobals[g.value + 1].value
                                                            ELSE g.value,
                           offset |-> c.linkDataLength,
                           register |-> ~c.options.debug /\ c.globals = <<>> /\ mutable /\ g.type = "i"]),
                      !.linkDataLength = @ + (IF mutable /\ SizeOf(g.type) = 4 THEN 4 ELSE 0)])

\* Those of 8 bytes follow, from the next multiple of 8.
PlaceLongGlobal(c, i) ==
    IF c.globals[i].mutable /\ SizeOf(c.globals[i].type) = 8
    THEN [c EXCEPT !.globals[i].offset = c.linkDataLength, !.linkDataLength = @ + 8]
    ELSE c

\* A faulty variant, to show what the properties detect: the globals of 8
\* bytes follow at once.
ParseGlobalSectionUnaligned(c, s) ==
    LET d == Checked(c, Must(Len(s.items) <= Limits.globals, "Too_many_globals"),
                     ForEach(c, s.items, ParseGlobal))
    IN  Checked(d, d.error, ForEach(d, [i \in DOMAIN d.globals |-> i], PlaceLongGlobal))

ParseGlobalSection(c, s) ==
    LET d == Checked(c, Must(Len(s.items) <= Limits.globals, "Too_many_globals"),
                     ForEach(c, s.items, ParseGlobal))
    IN  Checked(d, d.error, ForEach([d EXCEPT !.linkDataLength = RoundUp(@, 8)],
                                    [i \in DOMAIN d.globals |-> i], PlaceLongGlobal))

NumGlobals(c) == Len(c.importGlobals) + Len(c.globals)

GlobalDef(c, index) ==
    IF index < Len(c.importGlobals) THEN c.importGlobals[index + 1]
    ELSE c.globals[index - Len(c.importGlobals) + 1]

(***************************************************************************)
(* Exports and the start function.                                         *)
(***************************************************************************)
IndexError(c, e) ==
    CASE e.kind = "func" -> Must(e.index < c.total, "Function_out_of_range")
      [] e.kind = "global" -> Must(e.index < NumGlobals(c), "Global_out_of_range")
      [] e.kind = "mem" -> Must(c.hasMemory /\ e.index = 0, "Memory_out_of_range")
      [] e.kind = "table" -> Must(c.hasTable /\ e.index = 0, "Table_out_of_range")
      [] OTHER -> "Unknown_export_type"

ParseExport(c, e) ==
    LET code == FirstError(
            <<NameError(e.name, "Export_name_too_long"), IndexError(c, e),
              Must(\A i \in DOMAIN c.exports : c.exports[i].name # e.name, "Duplicate_export_symbol")>>)
    IN  Checked(c, code, [c EXCEPT !.exports = Append(@, e),
                                   !.tableIsExported = @ \/ e.kind = "table"])

ParseExportSection(c, s) == ForEach(c, s.items, ParseExport)

\* An imported function gets, once, an adapter that compiled code can call.
EmitWasmToNativeAdapter(c, f) ==
    IF ~IsImported(c, f) \/ c.positions[f] # Unknown THEN c
    ELSE Checked(c, Must(~IsBuiltin(c, f), "Cannot_indirectly_call_builtin_functions"),
                 [c EXCEPT !.positions[f] = Size(c), !.output = @ \o PaddedBinaryBlob("adapter", f)])

ParseStartSection(c, s) ==
    LET f == s.items[1]
        code == FirstError(
            <<Must(f < c.total, "Start_function_index_out_of_range"),
              Must(f < c.total => Len(FunctionSignature(c, f)) = 2, "Start_function_must_be_nullary")>>)
    IN  Checked(c, code, EmitWasmToNativeAdapter([c EXCEPT !.start = f], f))

(***************************************************************************)
(* Element segments.                                                       *)
(***************************************************************************)
\* The error of the expression that gives a segment its offset.
OffsetError(e) ==
    FirstError(<<OpCodeError(e.op),
                 CASE e.op \in ValueTypes ->
                         Must(e.op = "i", "Constant_expression_offset_has_to_be_of_type_i32")
                   [] e.op = "global.get" -> "Imported_globals_not_supported"
                   [] OTHER -> "Malformed_constant_expression_offset",
                 OpCodeError(e.end), Must(e.end = "end", "Malformed_constant_expression_offset")>>)

\* item: the entry of the table and the function it gets.
ParseTableElement(c, item) ==
    LET d == [c EXCEPT !.elements[item.entry].function = item.function]
    IN  Checked(c, Must(item.function < c.total, "Function_index_out_of_range"),
            IF IsLinked(c, item.function) THEN EmitWasmToNativeAdapter(d, item.function) ELSE d)

ParseElementSegment(c, e) ==
    LET code == FirstError(
            <<Must(e.mode = 0, "Bulk_memory_operations_feature_not_implemented"),
              Must(c.hasTable, "Table_index_out_of_bounds"), OffsetError(e),
              Must(e.offset + Len(e.functions) <= Len(c.elements),
                   "Table_element_index_out_of_range__initial_table_size_")>>)
    IN  Checked(c, code, ForEach(c,
            [j \in DOMAIN e.functions |-> [entry |-> e.offset + j, function |-> e.functions[j]]],
            ParseTableElement))

ParseElementSection(c, s) == ForEach(c, s.items, ParseElementSegment)

(***************************************************************************)
(* Function bodies: the outcome of compiling each of them.                 *)
(***************************************************************************)
\* The locals declared before the i-th group.
LocalsBefore(locals, i) == FoldLeft(LAMBDA n, l : n + l.count, 0, SubSeq(locals, 1, i - 1))

LocalsError(locals) ==
    FirstError([i \in DOMAIN locals |-> FirstError(
        <<Must(LocalsBefore(locals, i) + locals[i].count <= Limits.directLocals,
               "Too_many_direct_locals"),
          TypeError(locals[i].type, "Invalid_local_type_in_function")>>)])

ParseBody(c, body) ==
    LET f == NumImports(c) + c.bodies
        code == FirstError(
            <<LocalsError(body.locals), body.error,
              Must(body.terminated, "Function_was_not_terminated_properly"),
              Must(body.sizeMatches, "Function_size_mismatch")>>)
    IN  Checked(c, code,
            [c EXCEPT !.positions[f] = Size(c), !.bodies = @ + 1,
                      !.output = @ \o Code("body", f)
                                   \o <<U32(4 * Len(Code("body", f)))>>])

\* With bounds checks the code that asks for more memory comes first, if
\* there is a memory; without them, the landing pad of the signal handlers.
EmitMemoryHelper(c) ==
    CASE c.options.active /\ c.hasMemory -> Write(c, PaddedBinaryBlob("extension", 0))
      [] c.options.active /\ ~c.hasMemory -> c
      [] OTHER -> Write([c EXCEPT !.landingPad = Size(c)], PaddedBinaryBlob("landing pad", 0))

ParseCodeSection(c, s) ==
    Checked(c, Must(Len(s.items) = c.total - NumImports(c),
                    "Function_and_code_section__mismatch_of_number_of_definitions"),
            ForEach(EmitMemoryHelper(c), s.items, ParseBody))

(***************************************************************************)
(* Data segments.                                                          *)
(***************************************************************************)
ParseDataCountSection(c, s) == [c EXCEPT !.dataSegments = s.items[1]]

ParseDataSegment(c, e) ==
    LET size == Len(e.bytes)
        code == FirstError(
            <<Must(e.mode = 0, "Passive_mode_data_segments_not_implemented"),
              Must(c.hasMemory, "Memory_index_out_of_bounds"), OffsetError(e),
              Must(/\ e.offset + size <= c.initialPages * PageBytes
                   /\ e.offset <= PageBytes * MaxPages - 1 - size, "Data_segment_out_of_initial_bounds")>>)
    IN  Checked(c, code, Write(c, Text(e.bytes) \o <<U32(e.offset)>>))

ParseDataSection(c, s) ==
    Checked(c, Must(c.dataSegments \in {Unknown, Len(s.items)},
                    "Data_count_and_data_section_have_inconsistent_lengths"),
            ForEach([c EXCEPT !.dataSegments = Len(s.items)], s.items, ParseDataSegment))

(***************************************************************************)
(* The order of the sections.  What a section leaves behind is done        *)
(* whether it is there or not.                                             *)
(***************************************************************************)
SectionOrder == <<"type", "import", "function", "table", "memory", "global", "export", "start",
                  "element", "data count", "code", "data", "placeholder">>

PostSectionAction(c, kind) ==
    CASE kind = "function" -> [c EXCEPT !.positions = [f \in 0 .. c.total - 1 |-> Unknown]]
      [] kind = "code" ->
            Checked(c, Must(c.bodies >= c.total - NumImports(c), "Missing_function_bodies"), c)
      [] kind = "data" ->
            LET count == IF c.dataSegments = Unknown THEN 0 ELSE c.dataSegments
            IN  Write([c EXCEPT !.dataSegments = count], <<U32(count)>>)
      [] OTHER -> c

MoveToTargetSection(c, kind) ==
    LET ahead   == SubSeq(SectionOrder, c.expected, Len(SectionOrder))
        target  == SelectInSeq(ahead, LAMBDA k : k = kind)
        skipped == IF target = 0 THEN ahead ELSE SubSeq(ahead, 1, target - 1)
        d       == ForEach(c, skipped, PostSectionAction)
    IN  Checked(d, FirstError(<<d.error, Must(target # 0,
                                    "Duplicate_section_or_sections_in_wrong_order")>>),
                [d EXCEPT !.expected = @ + target - 1])

(***************************************************************************)
(* Custom sections: only the one called "name" matters, and only if stack  *)
(* traces are kept.  It stands behind all other sections.                  *)
(***************************************************************************)
NameSection == <<110, 97, 109, 101>>

WriteFunctionName(c, item) ==
    Checked(c, Must(ValidUTF8(item.name), "Malformed_UTF_8_sequence"),
            Write(c, Text(item.name) \o <<U32(item.function)>>))

ParseNameSubsection(c, sub) ==
    IF sub.kind # "function" THEN c
    ELSE LET d == ForEach([c EXCEPT !.functionNames = Len(sub.names)], sub.names, WriteFunctionName)
         IN  Checked(d, FirstError(<<d.error, Must(sub.sizeMatches, "Subsection_size_mismatch")>>), d)

WriteNameSection(c, subsections) ==
    LET d == ForEach(c, IF c.options.stacktraceRecords > 0 THEN subsections ELSE <<>>,
                     ParseNameSubsection)
    IN  Checked(d, d.error, SectionSize(Write(d, <<U32(d.functionNames)>>), Size(c)))

ParseCustomSection(c, s) ==
    IF ~ValidUTF8(s.name) THEN Throw(c, "Malformed_UTF_8_sequence")
    ELSE IF s.name # NameSection THEN c
    ELSE LET d == Checked(c, Must(~c.nameSectionHandled, "Multiple_name_sections_encountered"),
                          MoveToTargetSection([c EXCEPT !.nameSectionHandled = TRUE], "placeholder"))
         IN  Checked(d, d.error, WriteNameSection(d, s.items))

SizeError(s) ==
    CASE s.size = "zero" -> "Section_of_size_0"
      [] s.size = "past the end" -> "Section_size_extends_past_module_size"
      [] OTHER -> ""

\* One turn of the loop over the sections, before and after what the section's kind
\* calls for.
OpenSection(c, s) ==
    Checked(c, SizeError(s), IF s.kind = "custom" THEN c ELSE MoveToTargetSection(c, s.kind))

CloseSection(c, s) ==
    LET closed == Checked(c, c.error, PostSectionAction(c, s.kind))
    IN  IF s.kind = "custom" THEN c
        ELSE Checked(closed, FirstError(<<closed.error, Must(s.size = "exact", "Section_size_mismatch")>>),
                     [closed EXCEPT !.expected = @ + 1])

(***************************************************************************)
(* The start of a compilation.  header: what stands before the sections.   *)
(***************************************************************************)
NewCompilation(options) ==
    [options |-> options, error |-> "", expected |-> 1, nameSectionHandled |-> FALSE,
     types |-> <<>>, numTypes |-> 0, imports |-> <<>>, importGlobals |-> <<>>,
     functions |-> <<>>, total |-> 0, hasTable |-> FALSE, tableIsExported |-> FALSE,
     elements |-> <<>>, hasMemory |-> FALSE, initialPages |-> 0, globals |-> <<>>,
     exports |-> <<>>, start |-> Unknown, positions |-> <<>>, linkDataLength |-> 0,
     bodies |-> 0, dataSegments |-> Unknown, functionNames |-> 0, exportedFunctions |-> 0,
     landingPad |-> Unknown, output |-> <<>>]

StartCompilation(options, header) ==
    LET c == NewCompilation(options)
    IN  Checked(c, FirstError(<<Must(header # "none", "Empty_input"),
                                Must(header # "magic", "Wrong_Wasm_magic_number"),
                                Must(header # "version", "Wasm_Version_not_supported")>>),
                Write(c, PaddedBinaryBlob("trap handler", 0)))

(***************************************************************************)
(* The sections of the binary behind the code and the data segments.       *)
(***************************************************************************)
SerializeStartFunctionSection(c) ==
    LET d == IF c.start = Unknown THEN c
             ELSE Write(c, PaddedBinaryBlob("entry", c.start) \o Text(FunctionSignature(c, c.start)))
    IN  SectionSize(d, Size(c))

SerializeWasmGlobals(c) ==
    LET written == SelectSeq(c.globals, LAMBDA g : g.mutable)
        words(g) == ValueWords(SizeOf(g.type), g.value) \o <<U32(g.offset), <<"type", g.type>>>>
    IN  SectionSize(Write(c, FlattenSeq([i \in DOMAIN written |-> words(written[i])])
                             \o <<U32(Len(written))>>), Size(c))

SerializeDynamicFunctionImports(c) ==
    LET dynamic == SelectSeq(c.imports,
            LAMBDA i : i.symbol # 0 /\ ImportSymbols(c)[i.symbol].linkage = "DYNAMIC")
        words(i) == LET symbol == ImportSymbols(c)[i.symbol]
                    IN  <<U32(i.offset)>> \o Text(symbol.signature) \o Text(symbol.name)
                                          \o Text(symbol.module)
    IN  SectionSize(Write(c, FlattenSeq([i \in DOMAIN dynamic |-> words(dynamic[i])])
                             \o <<U32(Len(dynamic))>>), Size(c))

SerializeMemory(c) == Write(c, <<U32(IF c.hasMemory THEN c.initialPages ELSE Unknown)>>)

SerializeExportedGlobals(c) ==
    LET exported == SelectSeq(c.exports, LAMBDA e : e.kind = "global")
        words(e) == LET g == GlobalDef(c, e.index)
                    IN  (IF g.mutable THEN <<U32(g.offset)>> ELSE ValueWords(SizeOf(g.type), g.value))
                        \o <<<<"flags", g.mutable, g.type>>>> \o Text(e.name)
    IN  SectionSize(Write(c, FlattenSeq([i \in DOMAIN exported |-> words(exported[i])])
                             \o <<U32(Len(exported))>>), Size(c))

\* An entry point for the host, also stored for the entries of an exported
\* table that hold the function.
ProduceWrapper(c, name, f, direct) ==
    LET d     == Write(c, PaddedBinaryBlob("entry", f) \o Text(FunctionSignature(c, f)))
        entry == Size(d)
        holds(e) == c.tableIsExported /\ e.function = f
    IN  Checked(c, Must(~IsBuiltin(c, f), "Cannot_export_builtin_function"),
            [d EXCEPT !.output = @ \o Text(name) \o <<U32(IF direct THEN f ELSE Unknown)>>,
                      !.elements = [i \in DOMAIN c.elements |->
                          [function |-> c.elements[i].function,
                           wrapper |-> IF holds(c.elements[i]) THEN entry ELSE c.elements[i].wrapper]],
                      !.exportedFunctions = @ + 1])

WrapExport(c, e) == IF e.kind = "func" THEN ProduceWrapper(c, e.name, e.index, TRUE) ELSE c

WrapTableEntry(c, i) ==
    IF /\ c.tableIsExported
       /\ c.elements[i].wrapper = Unknown
       /\ c.elements[i].function # Unknown
    THEN ProduceWrapper(c, <<>>, c.elements[i].function, FALSE)
    ELSE c

SerializeExportedFunctions(c) ==
    LET d == ForEach(c, c.exports, WrapExport)
        e == ForEach(d, [i \in DOMAIN c.elements |-> i], WrapTableEntry)
    IN  Checked(e, e.error, SectionSize(Write(e, <<U32(e.exportedFunctions)>>), Size(c)))

SerializeLinkStatus(c) ==
    Write(c, Text([i \in DOMAIN c.imports |-> IF c.imports[i].linked THEN 1 ELSE 0]))

SerializeTable(c) ==
    LET words(e) ==
            CASE e.function = Unknown -> <<U32(Unknown), U32(Unknown)>>
              [] OTHER -> <<U32(IF IsLinked(c, e.function) THEN c.positions[e.function] ELSE 0),
                            U32(FncSigIndex(c, e.function))>>
    IN  Write(c, FlattenSeq([i \in DOMAIN c.elements |-> words(c.elements[i])])
                 \o <<U32(Len(c.elements))>>)

SerializeTableEntryFunctionWrappers(c) ==
    Write(c, [i \in DOMAIN c.elements |-> U32(c.elements[i].wrapper)] \o <<U32(Len(c.elements))>>)

VersionNumber == 3

SerializeModuleMetadata(c) ==
    LET d == Write(c, <<U32(c.linkDataLength)>>)
        e == Write(d, <<U32(IF c.options.active THEN Unknown ELSE Size(d) - c.landingPad),
                        <<"trace", c.options.stacktraceRecords, c.options.debug>>,
                        U32(VersionNumber)>>)
    IN  Write(e, <<U32(Size(e))>>)

\* What is done when the bytecode has been read.
Serialize(c) ==
    LET d == IF c.nameSectionHandled THEN c ELSE Write(c, <<U32(0), U32(4)>>)
        e == SerializeExportedFunctions(SerializeExportedGlobals(SerializeMemory(
                 SerializeDynamicFunctionImports(SerializeWasmGlobals(
                     SerializeStartFunctionSection(d))))))
    IN  Checked(e, e.error, SerializeModuleMetadata(SerializeTableEntryFunctionWrappers(
                                SerializeTable(SerializeLinkStatus(e)))))

FinishCompilation(c) ==
    LET d == MoveToTargetSection(c, "placeholder") IN Checked(d, d.error, Serialize(d))
=============================================================================
