--------------------------- MODULE ModuleInstance ---------------------------
(***************************************************************************)
(* From bytecode to a running module: the frontend reads the sections one  *)
(* by one and writes the binary (ModuleCompilation); the runtime reads the *)
(* binary from its end, links the dynamic imports, initialises globals and *)
(* memory, and gives the host the exports (BinaryModule.cpp, Runtime.cpp,  *)
(* WasmModule.cpp).  The modules that are compiled come from Plans: each   *)
(* has the settings of the compiler, what stands before the sections and,  *)
(* slot by slot, the sections that may come next.                          *)
(***************************************************************************)
EXTENDS ModuleCompilation

CONSTANTS
    Plans,       \* a sequence of [options, header, slots, runtimes]
    Values,      \* the values the host writes to globals
    Probes       \* the names the host looks up besides the exported ones

VARIABLES
    plan,        \* the plan that is followed
    slot,        \* the index of the slot that comes next
    phase,       \* "sections", "compiled" or "loaded"
    bytecode,    \* the sections read so far
    c,           \* the compilation
    instance,    \* the runtime
    written      \* the last write of the host: the export and the value

vars == <<plan, slot, phase, bytecode, c, instance, written>>

Options == plan.options

Binary == c.output

Number(n) == Binary[n][2]

(***************************************************************************)
(* Reading the binary backwards.  A cursor is the number of words before   *)
(* it, so the next value read is the word with that index.                 *)
(***************************************************************************)
TextStart(n) == n - 1 - RoundUp(Number(n), 4) \div 4

TextBefore(n) ==
    SubSeq(FlattenSeq([k \in 1 .. n - 1 - TextStart(n) |-> Binary[TextStart(n) + k][2]]), 1, Number(n))

\* Over a section whose size is the word n.
SectionStart(n) == n - 1 - Number(n) \div 4

\* count entries that end at n; Read gives an entry and where it starts.
Entries(n, count, Read(_)) ==
    LET step(read, i) == LET entry == Read(read.start)
                         IN  [start |-> entry.start, list |-> Append(read.list, entry)]
    IN  FoldLeft(step, [start |-> n, list |-> <<>>], [i \in 1 .. count |-> i]).list

BinaryModule ==
    LET end       == Len(Binary)
        wrappers  == end - 6 - Number(end - 5)
        table     == wrappers - 1 - 2 * Number(wrappers)
        \* exported functions and globals, memory, dynamic imports, mutable globals, start
        \* function, function names, data segments
        cursor[k \in 1 .. 8] == CASE k = 1 -> TextStart(table)
                                  [] k = 4 -> cursor[3] - 1
                                  [] OTHER -> SectionStart(cursor[k - 1])
    IN  [length               |-> Number(end),
         version              |-> Number(end - 1),
         stacktraceRecords    |-> Binary[end - 2][2],
         landingPad           |-> IF Number(end - 3) = Unknown THEN Unknown
                                  ELSE 4 * (end - 4) - Number(end - 3),
         linkDataLength       |-> Number(end - 4),
         tableEntryFunctions  |-> wrappers,
         tableSize            |-> Number(wrappers),
         tableStart           |-> table,
         linkStatusStart      |-> cursor[1],
         exportedFunctionsEnd |-> cursor[1] - 1,
         exportedGlobalsEnd   |-> cursor[2] - 1,
         initialMemorySize    |-> Number(cursor[3]),
         dynamicImportsEnd    |-> cursor[4] - 1,
         mutableGlobalsEnd    |-> cursor[5] - 1,
         startFunctionOffset  |-> IF Number(cursor[6]) > 0 THEN 4 * (end - (cursor[6] - 1)) ELSE Unknown,
         functionNamesEnd     |-> cursor[7] - 1,
         numDataSegments      |-> Number(cursor[8]),
         dataSegmentsEnd      |-> cursor[8] - 1]

ReadDynamicImport(n) ==
    LET name == TextStart(n)
        signature == TextStart(name)
        offset == TextStart(signature)
    IN  [module |-> TextBefore(n), name |-> TextBefore(name), signature |-> TextBefore(signature),
         offset |-> Number(offset), start |-> offset - 1]

\* The offset is read as 16 bits.
ReadMutableGlobal(n) ==
    LET size == SizeOf(Number(n)) \div 4
    IN  [type |-> Number(n), offset |-> Number(n - 1) % 2 ^ 16,
         words |-> SubSeq(Binary, n - 1 - size, n - 2), start |-> n - 2 - size]

ReadDataSegment(n) ==
    [offset |-> Number(n), bytes |-> TextBefore(n - 1), start |-> TextStart(n - 1)]

\* at: where the signature and the entry point stand.
ReadExportedFunction(n) ==
    LET at == TextStart(n - 1)
        wrapper == TextStart(at)
    IN  [name |-> TextBefore(n - 1), at |-> at, start |-> TextStart(wrapper)]

ReadExportedGlobal(n) ==
    LET at == TextStart(n)
        bytes == IF Binary[at][2] THEN 4 ELSE SizeOf(Binary[at][3])
    IN  [name |-> TextBefore(n), at |-> at, start |-> at - 1 - bytes \div 4]

ReadFunctionName(n) ==
    [function |-> Number(n), name |-> TextBefore(n - 1), start |-> TextStart(n - 1)]

(***************************************************************************)
(* The runtime.  Its link data is a sequence of words.                     *)
(***************************************************************************)
Store(linkData, offset, words) ==
    [k \in DOMAIN linkData |->
        IF k - offset \div 4 \in DOMAIN words THEN words[k - offset \div 4] ELSE linkData[k]]

ValueOf(words) ==
    IF Len(words) = 1 THEN words[1][2]
    ELSE IF words[1] = <<"lo", words[1][2]>> /\ words[2] = <<"hi", words[1][2]>> THEN words[1][2]
    ELSE Unknown

LoadFrom(linkData, offset, size) ==
    ValueOf(SubSeq(linkData, offset \div 4 + 1, (offset + size) \div 4))

NoRuntime ==
    [error |-> "", symbols |-> <<>>, linkData |-> <<>>, memory |-> <<>>, actualBytes |-> 0,
     pages |-> 0, queuedStart |-> Unknown, called |-> <<>>, fromBytecode |-> FALSE]

\* The given symbols first, then the default ones.
LinkDynamicImport(r, import) ==
    LET symbols == r.symbols \o Options.defaults
        found   == SelectInSeq(symbols, LAMBDA symbol :
                       Matches(symbol, import) /\ symbol.signature = import.signature)
    IN  Checked(r, Must(found # 0, "Dynamic_import_not_resolved"),
            [r EXCEPT !.linkData = Store(@, import.offset,
                                         ValueWords(Options.pointerBytes, symbols[found].pointer))])

InitializeGlobal(r, global) == [r EXCEPT !.linkData = Store(@, global.offset, global.words)]

\* The memory manager is asked for memory only when a segment needs more.
LoadSegment(r, segment) ==
    LET end == segment.offset + Len(segment.bytes)
        covered == segment.offset .. end - 1
    IN  Checked(r, Must(end <= r.actualBytes \/ end <= Options.room, "Could_not_extend_linear_memory"),
            [r EXCEPT !.actualBytes = IF end > @ THEN end ELSE @,
                      !.memory = [a \in DOMAIN @ \union covered |->
                          IF a \in covered THEN segment.bytes[a - segment.offset + 1] ELSE r.memory[a]]])

InitializeModule(r) ==
    LET module  == BinaryModule
        empty   == [r EXCEPT !.linkData = [k \in 1 .. module.linkDataLength \div 4 |-> <<"value", 0>>],
                             !.pages = module.initialMemorySize]
        imports == module.dynamicImportsEnd
        globals == module.mutableGlobalsEnd
        linked  == ForEach(empty, Entries(imports - 1, Number(imports), ReadDynamicImport),
                           LinkDynamicImport)
        filled  == ForEach(linked, Entries(globals - 1, Number(globals), ReadMutableGlobal),
                           InitializeGlobal)
        loaded  == ForEach(filled, Entries(module.dataSegmentsEnd, module.numDataSegments,
                                           ReadDataSegment), LoadSegment)
    IN  Checked(loaded, loaded.error, [loaded EXCEPT !.queuedStart = module.startFunctionOffset])

NewRuntime(symbols) ==
    LET r == [NoRuntime EXCEPT !.symbols = symbols]
    IN  Checked(r, Must(BinaryModule.version = VersionNumber, "Binary_module_version_not_supported"),
                InitializeModule(r))

(***************************************************************************)
(* What the host can look up.  A function is found as the distance, in     *)
(* bytes, of its entry from the end of the binary; Unknown: not found.     *)
(***************************************************************************)
FindIn(entries, name) ==
    LET i == SelectInSeq(entries, LAMBDA entry : entry.name = name)
    IN  IF i = 0 THEN Unknown ELSE 4 * (Len(Binary) - entries[i].at)

FindExportedFunctionByName(name) ==
    LET end == BinaryModule.exportedFunctionsEnd
    IN  FindIn(Entries(end - 1, Number(end), ReadExportedFunction), name)

FindFunctionByExportedTableIndex(index) ==
    LET module == BinaryModule
        entry  == Number(module.tableEntryFunctions + 1 + index)
    IN  IF index >= module.tableSize \/ entry = Unknown THEN Unknown
        ELSE 4 * Len(Binary) - entry

FindExportedGlobalByName(name) ==
    LET end == BinaryModule.exportedGlobalsEnd
    IN  FindIn(Entries(end - 1, Number(end), ReadExportedGlobal), name)

FunctionInfo(offset) ==
    LET n == Len(Binary) - offset \div 4
    IN  [signature |-> TextBefore(n), code |-> Binary[TextStart(TextStart(n)) + 1]]

\* Whether a typed reference to a function of this signature can be made.
ValidateParameterTypes(signature, params) ==
    /\ \A i \in DOMAIN params : i + 1 <= Len(signature) /\ signature[i + 1] = params[i]
    /\ Len(params) + 2 <= Len(signature)
    /\ signature[Len(params) + 2] = ")"

ValidateNumReturnValue(signature, count) ==
    /\ count < Len(signature)
    /\ signature[Len(signature) - count] = ")"

\* Whether results of these types can be read after a call.
DerefAndValidateReturnValues(signature, results) ==
    \A i \in DOMAIN results : signature[Len(signature) - Len(results) + i] = results[i]

GlobalIsMutable(offset) == Binary[Len(Binary) - offset \div 4][2]

GlobalType(offset) == Binary[Len(Binary) - offset \div 4][3]

GetGlobal(offset) ==
    LET n == Len(Binary) - offset \div 4
        size == SizeOf(GlobalType(offset))
    IN  IF GlobalIsMutable(offset) THEN LoadFrom(instance.linkData, Number(n - 1), size)
        ELSE ValueOf(SubSeq(Binary, n - size \div 4, n - 1))

\* The name a stack trace shows for a function, <<>> if it has none.
FunctionName(f) ==
    LET end   == BinaryModule.functionNamesEnd
        names == Entries(end - 1, Number(end), ReadFunctionName)
        i     == SelectInSeq(names, LAMBDA entry : entry.function = f)
    IN  IF i = 0 THEN <<>> ELSE names[i].name

(***************************************************************************)
(* The actions.                                                            *)
(***************************************************************************)
Slots == plan.slots

Init ==
    /\ \E k \in DOMAIN Plans : plan = Plans[k]
    /\ slot = 1
    /\ phase = "sections"
    /\ bytecode = <<>>
    /\ c = StartCompilation(plan.options, plan.header)
    /\ instance = NoRuntime
    /\ written = <<>>

\* The sections of this kind that may come next.
Offered(kind) ==
    IF slot \in DOMAIN Slots THEN {i \in DOMAIN Slots[slot] : Slots[slot][i].kind = kind} ELSE {}

Opened(i) == OpenSection(c, Slots[slot][i])

\* The i-th of them is read; parsed: what its kind makes of the opened section.
Section(i, parsed) ==
    /\ phase = "sections"
    /\ c.error = ""
    /\ bytecode' = Append(bytecode, Slots[slot][i])
    /\ c' = CloseSection(Checked(Opened(i), Opened(i).error, parsed), Slots[slot][i])
    /\ slot' = slot + 1
    /\ UNCHANGED <<plan, phase, instance, written>>

ReadTypeSection ==
    \E i \in Offered("type") : Section(i, ParseTypeSection(Opened(i), Slots[slot][i]))
ReadImportSection ==
    \E i \in Offered("import") : Section(i, ParseImportSection(Opened(i), Slots[slot][i]))
ReadFunctionSection ==
    \E i \in Offered("function") : Section(i, ParseFunctionSection(Opened(i), Slots[slot][i]))
ReadTableSection ==
    \E i \in Offered("table") : Section(i, ParseTableSection(Opened(i), Slots[slot][i]))
ReadMemorySection ==
    \E i \in Offered("memory") : Section(i, ParseMemorySection(Opened(i), Slots[slot][i]))
ReadGlobalSection ==
    \E i \in Offered("global") : Section(i, ParseGlobalSection(Opened(i), Slots[slot][i]))
ReadExportSection ==
    \E i \in Offered("export") : Section(i, ParseExportSection(Opened(i), Slots[slot][i]))
ReadStartSection ==
    \E i \in Offered("start") : Section(i, ParseStartSection(Opened(i), Slots[slot][i]))
ReadElementSection ==
    \E i \in Offered("element") : Section(i, ParseElementSection(Opened(i), Slots[slot][i]))
ReadDataCountSection ==
    \E i \in Offered("data count") : Section(i, ParseDataCountSection(Opened(i), Slots[slot][i]))
ReadCodeSection ==
    \E i \in Offered("code") : Section(i, ParseCodeSection(Opened(i), Slots[slot][i]))
ReadDataSection ==
    \E i \in Offered("data") : Section(i, ParseDataSection(Opened(i), Slots[slot][i]))
ReadCustomSection ==
    \E i \in Offered("custom") : Section(i, ParseCustomSection(Opened(i), Slots[slot][i]))
ReadPlaceholder ==
    \E i \in Offered("placeholder") : Section(i, Throw(Opened(i), "Invalid_section_type"))
ReadUnknownSection ==
    \E i \in Offered("unknown") : Section(i, Throw(Opened(i), "Invalid_section_type"))

\* The module has no section here.
NoSection ==
    /\ phase = "sections"
    /\ c.error = ""
    /\ Offered("none") # {}
    /\ slot' = slot + 1
    /\ UNCHANGED <<plan, phase, bytecode, c, instance, written>>

Compile ==
    /\ phase = "sections"
    /\ c.error = ""
    /\ slot \notin DOMAIN Slots
    /\ phase' = "compiled"
    /\ c' = FinishCompilation(c)
    /\ UNCHANGED <<plan, slot, bytecode, instance, written>>

\* Compiles without global symbols and links the symbols it compiled with.
InitFromBytecode ==
    /\ phase = "compiled"
    /\ c.error = ""
    /\ Options.globals = <<>>
    /\ phase' = "loaded"
    /\ instance' = [NewRuntime(Options.symbols) EXCEPT !.fromBytecode = TRUE]
    /\ UNCHANGED <<plan, slot, bytecode, c, written>>

\* A binary loaded later can only be given dynamic symbols.
InitFromCompiledBinary ==
    /\ phase = "compiled"
    /\ c.error = ""
    /\ \E k \in DOMAIN plan.runtimes :
          LET symbols == plan.runtimes[k]
          IN  instance' = IF \E i \in DOMAIN symbols : symbols[i].linkage = "STATIC"
                          THEN [NoRuntime EXCEPT !.error = "Wrong_type", !.symbols = symbols]
                          ELSE NewRuntime(symbols)
    /\ phase' = "loaded"
    /\ UNCHANGED <<plan, slot, bytecode, c, written>>

Started == -2  \* 0xFFFFFFFE: the start function is not called again

Start ==
    /\ phase = "loaded"
    /\ instance.error = ""
    /\ instance.queuedStart # Started
    /\ instance' = [instance EXCEPT
          !.called = IF instance.queuedStart = Unknown THEN @
                     ELSE Append(@, FunctionInfo(instance.queuedStart)),
          !.queuedStart = Started]
    /\ UNCHANGED <<plan, slot, phase, bytecode, c, written>>

\* A reference to a global can be made once the module has started.
SetValue ==
    /\ phase = "loaded"
    /\ instance.error = ""
    /\ instance.queuedStart = Started
    /\ written = <<>>
    /\ \E i \in DOMAIN c.exports, value \in Values :
          LET offset == FindExportedGlobalByName(c.exports[i].name)
          IN  /\ offset # Unknown
              /\ GlobalIsMutable(offset)
              /\ instance' = [instance EXCEPT !.linkData =
                    Store(@, Number(Len(Binary) - offset \div 4 - 1),
                          ValueWords(SizeOf(GlobalType(offset)), value))]
              /\ written' = <<c.exports[i].index, value>>
    /\ UNCHANGED <<plan, slot, phase, bytecode, c>>

Next ==
    \/ ReadTypeSection \/ ReadImportSection \/ ReadFunctionSection \/ ReadTableSection
    \/ ReadMemorySection \/ ReadGlobalSection \/ ReadExportSection \/ ReadStartSection
    \/ ReadElementSection \/ ReadDataCountSection \/ ReadCodeSection \/ ReadDataSection
    \/ ReadCustomSection \/ ReadPlaceholder \/ ReadUnknownSection \/ NoSection
    \/ Compile \/ InitFromBytecode \/ InitFromCompiledBinary \/ Start \/ SetValue

Spec == Init /\ [][Next]_vars

(***************************************************************************)
(* What the bytecode declares, read off its sections.                      *)
(***************************************************************************)
Given(kind) ==
    LET i == SelectInSeq(bytecode, LAMBDA s : s.kind = kind)
    IN  IF i = 0 THEN <<>> ELSE bytecode[i].items

Has(kind) == \E i \in DOMAIN bytecode : bytecode[i].kind = kind

Imported(kind) == SelectSeq(Given("import"), LAMBDA item : item.kind = kind)

\* The type indices of all functions, the imported ones first.
FunctionTypes ==
    [i \in DOMAIN Imported("func") |-> Imported("func")[i].type] \o Given("function")

SignatureOfType(index) ==
    LET t == Given("type")[index + 1] IN Signature(t.params, t.results)

DeclaredSignature(f) == SignatureOfType(FunctionTypes[f + 1])

IsBuiltinImport(item) ==
    item.module = BuiltinModule /\ <<item.name, SignatureOfType(item.type)>> \in Builtins

Offers(symbol, item) ==
    Matches(symbol, item) /\ symbol.signature = SignatureOfType(item.type)

\* The symbol an import is linked with, as a sequence of none or one.
LinkedWith(symbols, item) ==
    IF IsBuiltinImport(item) THEN <<>>
    ELSE LET offering == SelectSeq(symbols \o Options.defaults, LAMBDA symbol : Offers(symbol, item))
         IN  SubSeq(offering, 1, IF offering = <<>> THEN 0 ELSE 1)

Exported(kind) == SelectSeq(Given("export"), LAMBDA e : e.kind = kind)

\* All globals, with their types and initial values.
DeclaredGlobals ==
    LET imports == Imported("global")
        symbol(item) == SelectSeq(Options.globals,
                            LAMBDA g : Matches(g, item) /\ g.type = item.type)[1]
        value(g) == IF g.op = "global.get" THEN symbol(imports[g.value + 1]).value ELSE g.value
        own == Given("global")
    IN  [i \in DOMAIN imports |->
            [type |-> imports[i].type, mutable |-> FALSE, value |-> symbol(imports[i]).value]]
        \o [i \in DOMAIN own |->
            [type |-> own[i].type, mutable |-> own[i].mutability = 1, value |-> value(own[i])]]

TableEntries == IF Given("table") = <<>> THEN 0 ELSE Given("table")[1].initial

\* The function in an entry of the table: that of the last segment with it.
TableFunction(index) ==
    LET sets(e) == index \in e.offset .. e.offset + Len(e.functions) - 1
        setting == SelectSeq(Given("element"), sets)
        last    == setting[Len(setting)]
    IN  IF setting = <<>> THEN Unknown ELSE last.functions[index - last.offset + 1]

\* A byte of the memory: segments are written in order, the last one wins.
SegmentsWith(address) ==
    LET covers(e) == address \in e.offset .. e.offset + Len(e.bytes) - 1
    IN  SelectSeq(Given("data"), covers)

DeclaredByte(address) ==
    LET covering == SegmentsWith(address)
        last     == covering[Len(covering)]
    IN  IF covering = <<>> THEN 0 ELSE last.bytes[address - last.offset + 1]

\* What an exported global shows: its initial value until the host writes it.
GlobalNow(index) ==
    IF written # <<>> /\ written[1] = index THEN written[2] ELSE DeclaredGlobals[index + 1].value

(***************************************************************************)
(* What makes an instance the one that is declared.                        *)
(***************************************************************************)
OwnIndex(i) == Len(Imported("global")) + i - 1

MutableGlobals == {i \in DOMAIN Given("global") : Given("global")[i].mutability = 1}

DynamicImports ==
    {i \in DOMAIN Imported("func") :
        LET symbol == LinkedWith(Options.symbols, Imported("func")[i])
        IN  symbol # <<>> /\ symbol[1].linkage = "DYNAMIC"}

\* The bytes of link data that compiled code uses for a global or a pointer.
GlobalBytes(i) == c.globals[i].offset .. c.globals[i].offset + SizeOf(c.globals[i].type) - 1

PointerBytes(i) == c.imports[i].offset .. c.imports[i].offset + Options.pointerBytes - 1

LinkDataHolds ==
    /\ \A i \in MutableGlobals :
          /\ c.globals[i].offset % SizeOf(c.globals[i].type) = 0
          /\ LoadFrom(instance.linkData, c.globals[i].offset, SizeOf(c.globals[i].type))
                = GlobalNow(OwnIndex(i))
          /\ \A j \in MutableGlobals \ {i} : GlobalBytes(i) \intersect GlobalBytes(j) = {}
          /\ \A j \in DynamicImports : GlobalBytes(i) \intersect PointerBytes(j) = {}
    /\ \A i \in DynamicImports :
          /\ c.imports[i].offset % Options.pointerBytes = 0
          /\ LoadFrom(instance.linkData, c.imports[i].offset, Options.pointerBytes)
                = LinkedWith(instance.symbols, Imported("func")[i])[1].pointer

LinkStatusHolds ==
    \A i \in DOMAIN Imported("func") :
        LET item == Imported("func")[i]
            word == Binary[BinaryModule.linkStatusStart + 1 + (i - 1) \div 4][2]
        IN  word[((i - 1) % 4) + 1] = 1
              <=> IsBuiltinImport(item) \/ LinkedWith(Options.symbols, item) # <<>>

SegmentBytes == UNION {Given("data")[i].offset .. Given("data")[i].offset + Len(Given("data")[i].bytes) - 1 :
                          i \in DOMAIN Given("data")}

\* Bytes that several segments give.  Nothing is claimed of their value: the
\* code reads the segments from the end of the binary (Runtime.cpp:258), so that
\* the first one wins.
CoveredTwice == {a \in SegmentBytes : Len(SegmentsWith(a)) > 1}

MemoryHolds ==
    /\ instance.pages = IF Given("memory") = <<>> THEN Unknown ELSE Given("memory")[1].initial
    /\ DOMAIN instance.memory = SegmentBytes
    /\ \A a \in SegmentBytes : a < instance.actualBytes
    /\ \A a \in SegmentBytes \ CoveredTwice : instance.memory[a] = DeclaredByte(a)

\* An indirect call compares the index of the signature and calls the code.
TableHolds ==
    \A index \in 0 .. TableEntries - 1 :
        LET at   == BinaryModule.tableStart + 1 + 2 * index
            f    == TableFunction(index)
            code == IF f < Len(Imported("func")) THEN "adapter" ELSE "body"
        IN  IF f = Unknown THEN Number(at) = Unknown /\ Number(at + 1) = Unknown
            ELSE /\ IF IsLinked(c, f) THEN Binary[Number(at) \div 4 + 1] = <<"code", code, f, 1>>
                                      ELSE Number(at) = 0
                 /\ \A t \in DOMAIN Given("type") :
                        ReduceTypeIndex(c, t - 1) = Number(at + 1)
                          <=> SignatureOfType(t - 1) = DeclaredSignature(f)

\* What was found calls this function, and with no other signature.
Calls(offset, f) ==
    LET info == FunctionInfo(offset)
        fits(type) == /\ ValidateParameterTypes(info.signature, type.params)
                      /\ ValidateNumReturnValue(info.signature, Len(type.results))
                      /\ DerefAndValidateReturnValues(info.signature, type.results)
    IN  /\ offset # Unknown
        /\ info = [signature |-> DeclaredSignature(f), code |-> <<"code", "entry", f, 1>>]
        /\ \A t \in DOMAIN Given("type") :
              fits(Given("type")[t]) <=> SignatureOfType(t - 1) = DeclaredSignature(f)

ExportsHold ==
    /\ \A i \in DOMAIN Given("export") :
          LET e == Given("export")[i]
          IN  /\ IF e.kind = "func" THEN Calls(FindExportedFunctionByName(e.name), e.index)
                                    ELSE FindExportedFunctionByName(e.name) = Unknown
              /\ IF e.kind = "global"
                 THEN LET offset == FindExportedGlobalByName(e.name)
                          g == DeclaredGlobals[e.index + 1]
                      IN  /\ offset # Unknown
                          /\ GlobalType(offset) = g.type
                          /\ GlobalIsMutable(offset) = g.mutable
                          /\ GetGlobal(offset) = GlobalNow(e.index)
                 ELSE FindExportedGlobalByName(e.name) = Unknown
    /\ \A name \in Probes :
          (\A i \in DOMAIN Given("export") : Given("export")[i].name # name) =>
              /\ FindExportedFunctionByName(name) = Unknown
              /\ FindExportedGlobalByName(name) = Unknown
    /\ \A index \in 0 .. TableEntries :
          LET offset == FindFunctionByExportedTableIndex(index)
          IN  IF Exported("table") = <<>> \/ index = TableEntries \/ TableFunction(index) = Unknown
              THEN offset = Unknown
              ELSE Calls(offset, TableFunction(index))

StartHolds ==
    instance.called =
        IF Has("start") /\ instance.queuedStart = Started
        THEN <<[signature |-> <<"(", ")">>, code |-> <<"code", "entry", Given("start")[1], 1>>]>>
        ELSE <<>>

\* The names a name section gives; the last one counts.
GivenNames ==
    LET sections == SelectSeq(bytecode, LAMBDA s : s.kind = "custom" /\ s.name = NameSection)
        lists    == FlattenSeq([i \in DOMAIN sections |-> sections[i].items])
        naming   == SelectSeq(lists, LAMBDA sub : sub.kind = "function")
    IN  IF Options.stacktraceRecords = 0 THEN <<>>
        ELSE FlattenSeq([i \in DOMAIN naming |-> naming[i].names])

NamesHold ==
    \A f \in 0 .. Len(FunctionTypes) :
        LET given == SelectSeq(GivenNames, LAMBDA item : item.function = f)
        IN  FunctionName(f) = IF given = <<>> THEN <<>> ELSE given[Len(given)].name

LayoutHolds ==
    /\ BinaryModule.length = 4 * (Len(Binary) - 1)
    /\ Binary[1] = <<"code", "trap handler", 0, 1>>
    /\ (~Options.active /\ Has("code")) =>
          Binary[BinaryModule.landingPad \div 4 + 1] = <<"code", "landing pad", 0, 1>>
    /\ Has("type") => \A type \in ValueTypes \union {""} :
          SignatureAt(c, SigIndexForBlock(c, type)) = Signature(<<>>, IF type = "" THEN <<>> ELSE <<type>>)

\* A module can be loaded if its dynamic imports are offered and its segments
\* fit; a compiled binary is not given static symbols.
Loadable ==
    /\ instance.fromBytecode \/ \A i \in DOMAIN instance.symbols : instance.symbols[i].linkage = "DYNAMIC"
    /\ \A i \in DynamicImports : LinkedWith(instance.symbols, Imported("func")[i]) # <<>>
    /\ \A i \in DOMAIN Given("data") :
          Given("data")[i].offset + Len(Given("data")[i].bytes) <= Options.room

(***************************************************************************)
(* A module that is loaded is the one its bytecode declares: link data,    *)
(* memory, table, exports, start function and names, found in the binary   *)
(* by reading it from its end (Runtime::initializeModule, BinaryModule::-  *)
(* init, the lookups of Runtime and the serialize functions of Frontend),  *)
(* except for the value of the bytes that are CoveredTwice.                *)
(***************************************************************************)
InstanceAsDeclared ==
    phase = "loaded" =>
        /\ instance.error = "" <=> Loadable
        /\ instance.error = "" =>
              /\ LinkDataHolds
              /\ LinkStatusHolds
              /\ MemoryHolds
              /\ TableHolds
              /\ ExportsHold
              /\ StartHolds
              /\ NamesHold
              /\ LayoutHolds

(***************************************************************************)
(* What makes a module one that is compiled.                               *)
(***************************************************************************)
\* One character, after the table of well-formed sequences of Unicode.
Character(s) ==
    LET tail(from) == \A i \in from .. Len(s) : s[i] \in 128 .. 191
        leads(first, second) == s[1] \in first /\ s[2] \in second
        any == 128 .. 191
    IN  CASE Len(s) = 1 -> s[1] \in 0 .. 127
          [] Len(s) = 2 -> leads(194 .. 223, any)
          [] Len(s) = 3 -> /\ tail(3)
                           /\ \/ leads({224}, 160 .. 191)
                              \/ leads({237}, 128 .. 159)
                              \/ leads((225 .. 239) \ {237}, any)
          [] Len(s) = 4 -> /\ tail(3)
                           /\ \/ leads({240}, 144 .. 191)
                              \/ leads(241 .. 243, any)
                              \/ leads({244}, 128 .. 143)
          [] OTHER -> FALSE

WellFormed(name) ==
    \E ends \in SUBSET (1 .. Len(name)) :
        /\ name # <<>> => Len(name) \in ends
        /\ \A e \in ends :
              LET before == {b \in ends : b < e}
              IN  Character(SubSeq(name, 1 + (IF before = {} THEN 0 ELSE Max(before)), e))

NameValid(name) == Len(name) <= Limits.string /\ WellFormed(name)

IsNameSection(s) == s.kind = "custom" /\ s.name = NameSection

SectionsValid ==
    LET rank(s) == SelectInSeq(SectionOrder, LAMBDA kind : kind = s.kind)
    IN  \A j \in DOMAIN bytecode :
          LET s == bytecode[j]
          IN  /\ s.size = "exact" \/ (s.size = "other" /\ s.kind = "custom")
              /\ IF s.kind = "custom" THEN WellFormed(s.name) ELSE rank(s) \in 1 .. 12
              /\ \A i \in 1 .. j - 1 :
                    LET r == bytecode[i]
                    IN  /\ (r.kind # "custom" /\ s.kind # "custom") => rank(r) < rank(s)
                        /\ IsNameSection(r) => s.kind = "custom" /\ ~IsNameSection(s)

AllTypesIn(types) == \A i \in DOMAIN types : types[i] \in ValueTypes

TypesValid ==
    /\ Len(Given("type")) <= Limits.types
    /\ \A i \in DOMAIN Given("type") :
          LET t == Given("type")[i]
          IN  /\ t.form = "func"
              /\ AllTypesIn(t.params) /\ Len(t.params) <= Limits.params
              /\ AllTypesIn(t.results) /\ Len(t.results) <= Limits.results

TypeIndexValid(index) == index < Len(Given("type"))

ImportsValid ==
    /\ Len(Imported("func")) <= Limits.imported
    /\ \A i \in DOMAIN Given("import") :
          LET item == Given("import")[i]
          IN  /\ NameValid(item.module) /\ NameValid(item.name)
              /\ \/ /\ item.kind = "func"
                    /\ TypeIndexValid(item.type)
                    /\ \/ Options.allowUnknownImports \/ IsBuiltinImport(item)
                       \/ LinkedWith(Options.symbols, item) # <<>>
                 \/ /\ item.kind = "global"
                    /\ item.mutability = 0
                    /\ item.type \in ValueTypes
                    /\ \E g \in DOMAIN Options.globals :
                          Matches(Options.globals[g], item) /\ Options.globals[g].type = item.type

FunctionsValid ==
    /\ Len(Given("function")) <= Limits.functions
    /\ \A i \in DOMAIN Given("function") : TypeIndexValid(Given("function")[i])

\* The limits of a table or a memory.
LimitsValid(items, most) ==
    /\ Len(items) <= 1
    /\ \A i \in DOMAIN items :
          /\ items[i].flag \in {0, 1}
          /\ items[i].initial <= most
          /\ items[i].flag = 1 => items[i].maximum \in items[i].initial .. most

GlobalsValid ==
    /\ Len(Given("global")) <= Limits.globals
    /\ \A i \in DOMAIN Given("global") :
          LET g == Given("global")[i]
          IN  /\ g.type \in ValueTypes /\ g.mutability \in {0, 1} /\ g.end = "end"
              /\ \/ g.op = g.type
                 \/ /\ g.op = "global.get"
                    /\ g.value + 1 \in DOMAIN Imported("global")
                    /\ Imported("global")[g.value + 1].type = g.type

\* A function that the host or an indirect call can reach.
Reachable(f) ==
    /\ f < Len(FunctionTypes)
    /\ f < Len(Imported("func")) => ~IsBuiltinImport(Imported("func")[f + 1])

ExportsValid ==
    \A i \in DOMAIN Given("export") :
        LET e == Given("export")[i]
        IN  /\ NameValid(e.name)
            /\ \A j \in 1 .. i - 1 : Given("export")[j].name # e.name
            /\ CASE e.kind = "func" -> Reachable(e.index)
                 [] e.kind = "global" -> e.index + 1 \in DOMAIN DeclaredGlobals
                 [] e.kind \in {"mem", "table"} -> e.index = 0 /\ Given(
                        IF e.kind = "mem" THEN "memory" ELSE "table") # <<>>
                 [] OTHER -> FALSE

StartValid ==
    Has("start") => LET f == Given("start")[1]
                    IN  Reachable(f) /\ DeclaredSignature(f) = Signature(<<>>, <<>>)

\* A segment that is written when the module is instantiated.
SegmentValid(e, length, size) ==
    e.mode = 0 /\ e.op = "i" /\ e.end = "end" /\ e.offset + length <= size

ElementsValid ==
    \A i \in DOMAIN Given("element") :
        LET e == Given("element")[i]
        IN  /\ Given("table") # <<>>
            /\ SegmentValid(e, Len(e.functions), TableEntries)
            /\ \A j \in DOMAIN e.functions : Reachable(e.functions[j])

BodyValid(body) ==
    /\ \A i \in DOMAIN body.locals : body.locals[i].type \in ValueTypes
    /\ LocalsBefore(body.locals, Len(body.locals) + 1) <= Limits.directLocals
    /\ body.error = "" /\ body.terminated /\ body.sizeMatches

\* Whether the place of the code section has been passed.
CodePassed ==
    \/ phase # "sections" \/ Has("code") \/ Has("data")
    \/ \E i \in DOMAIN bytecode : IsNameSection(bytecode[i])

BodiesValid ==
    /\ CodePassed => Len(Given("code")) = Len(Given("function"))
    /\ \A i \in DOMAIN Given("code") : BodyValid(Given("code")[i])

DataValid ==
    /\ (Has("data count") /\ Has("data")) => Len(Given("data")) = Given("data count")[1]
    /\ \A i \in DOMAIN Given("data") :
          LET e == Given("data")[i]
          IN  /\ Given("memory") # <<>>
              /\ SegmentValid(e, Len(e.bytes), Given("memory")[1].initial * PageBytes)

NamesValid ==
    Options.stacktraceRecords > 0 =>
        \A i \in DOMAIN bytecode : IsNameSection(bytecode[i]) =>
            \A j \in DOMAIN bytecode[i].items :
                LET sub == bytecode[i].items[j]
                IN  sub.kind = "function" =>
                        /\ sub.sizeMatches
                        /\ \A k \in DOMAIN sub.names : WellFormed(sub.names[k].name)

Valid ==
    /\ plan.header = "good"
    /\ SectionsValid
    /\ TypesValid
    /\ ImportsValid
    /\ FunctionsValid
    /\ LimitsValid(Given("table"), Limits.tableEntries)
    /\ \A i \in DOMAIN Given("table") : Given("table")[i].element = "funcref"
    /\ LimitsValid(Given("memory"), MaxPages)
    /\ GlobalsValid
    /\ ExportsValid
    /\ StartValid
    /\ ElementsValid
    /\ BodiesValid
    /\ DataValid
    /\ NamesValid

(***************************************************************************)
(* The compiler accepts exactly the modules whose sections are valid: it   *)
(* stops at a section only if that section or one before it is not, and    *)
(* what has been compiled is valid as a whole (Frontend::startCompilation  *)
(* and the parse functions it calls).                                      *)
(***************************************************************************)
AcceptsExactly ==
    /\ c.error # "" => ~Valid
    /\ (phase # "sections" /\ c.error = "") => Valid
=============================================================================
