# TLA+ verification of the TARDIS Go Haxe backend

This directory models the core of the TARDIS Go backend in TLA+. The repository
holds two source files. `src/unnamed/part_000` is package `pogo`: the `Language`
capability interface, `LanguageEntry`, the backend list and `FuncPathName`.
`src/haxe/types.go` is the Haxe backend's type code: `LangType`, `Convert`,
`MakeInterface`, `ChangeInterface`, `ChangeType`, `TypeAssert`, `getHaxeClass`,
`preprocessTypeName`, `getTypeInfo` and `EmitTypeInfo`. The model checker TLC
checks small instances. The TLAPS proof system proves theorems for every
instance that satisfies the stated assumptions.

## 1. Inventory

### Components

| # | Component | Source | State it keeps | Operations |
|---|-----------|--------|----------------|------------|
| 1 | Backend capability contract and registry | part_000 | `LanguageList` (append under `languageListAppendMutex`), one output buffer per backend, the pending `files` | the `Language` methods, `FindTargetLang`, `emitComment`, `isDupPkg`, `FuncPathName` |
| 2 | Type Encounter Registry | `pogo.LogTypeUse`, `TypesEncountered`, `NextTypeID` (in pogo, **not under src/**) | a `typeutil.Map` from types to IDs, and the next ID | `LogTypeUse`, `At`, `Keys` |
| 3 | Type lowering | types.go 17-192, 727-773 | none (a pure function) | `LangType(t, zero)`, `loadStoreSuffix`, `TypeStart` |
| 4 | Conversion engine | types.go 194-317 | none (a pure function) | `Convert` |
| 5 | Interface and dynamic-type engine | types.go 319-416 | writes to the registry (2) | `MakeInterface`, `ChangeInterface`, `ChangeType`, `TypeAssert`, `getHaxeClass` |
| 6 | Runtime type-metadata emitter | types.go 418-716 | reads the registry (2) and the method-set types | `EmitTypeInfo`, `getTypeInfo`, `preprocessTypeName` |
| 7 | Haxe runtime library (`Interface.assertOk`, `GOint64`, `Force`) | not in this repository | at run time, interface values `(typeID, value)` | assertion, method call, 64-bit arithmetic |
| 8 | Driver and file writing | not in this repository | `FileOutput` list | writes files after a successful run |

### How the components interact

Compilation is single-threaded. The driver walks the SSA program and calls one
`Language` method per instruction. Each method returns Haxe text.

Three of these handlers (5) print type IDs into the code. `MakeInterface`,
`ChangeInterface` and `TypeAssert` call `pogo.LogTypeUse` (2), which gives a
type its ID the first time the type is met. `typeutil.Map` compares keys with
`types.Identical`. So a type object identical to one already stored gets the
stored ID, even if it is a different object.

After the last function, the driver calls `EmitTypeInfo` (6) once. It prints
class `TypeInfo` over the registry as it then stands:
- `typesByID`;
- the name → ID map `typIDs`, with a deDup tag on repeated names;
- `isAssignableTo` and `isIdentical`, computed with go/types;
- `isConcrete`, `zeroValue` (through `LangType`, 3) and `method(t, m)`.

The generated program then uses these tables with the IDs printed earlier.
It asserts a type (`Interface.assertOk`), names a type (`getName`), looks a
type up by name (`getId`) and calls interface methods (`method`).

What goes wrong here is the relation between two moments. An ID printed while
one function is emitted must still mean the same type in the tables printed at
the end.

### What is hard

- **Identity, not object equality.** The box (`types.go:320`) and the assertion
  (`types.go:393`) name the type through different `types.Type` objects. They
  must get the same ID.
- **Unspecified order.** `EmitTypeInfo` walks `TypesEncountered.Keys()`, whose
  order `typeutil.Map` leaves unspecified. The name deDup (`types.go:593-600`)
  keeps the first name it meets *in that order*.
- **Name collisions.** Distinct types can print the same `String()`, for
  example two function-local types `T` in package `main`. Names are used as map
  keys (`typIDs`) and as method targets (`types.go:692`).
- **Names are not identities.** Identical types can print different
  `String()`s: `byte` and `uint8`, `rune` and `int32`, signatures whose
  parameter names differ. The name `getName` answers (`types.go:587`) is the
  `String()` of whichever object of the class was registered first.
- **Bounds.** `typesByID` has `NextTypeID` entries, and ID 0 is reserved.
- **Numeric edges in `Convert`.** Narrowing integer conversions, unsigned
  widening and float truncation (modelled), and float32 rounding (not
  modelled).
- **Concurrency.** There is none in the compilation itself. Go runs package
  `init` functions one after another, so the mutex on `LanguageList`
  (part_000:121) guards against an interleaving that the code shown never
  creates. It is not listed as a hazard.

### Properties that make each component correct

- **Registry:** IDs are positive and given once. An ID never moves to another
  type. Identical types share an ID.
- **Dynamic-type engine:** every printed ID is still the registry's ID of that
  type.
- **Metadata emitter:**
  - the tables cover every printed ID;
  - `assertOk` agrees with Go;
  - `getName` and `getId` resolve boxed types, and the map-literal keys are
    distinct;
  - `method` finds exactly the dynamic type's method.
- **Type lowering:** the recursion terminates, since pointers are meant to cut
  cycles. The model shows that maps and channels do not cut them.
- **Conversion:** the emitted conversion computes Go's value,
  including wrap-around.

## 2. Status and plan

Done:
- the dynamic-type pipeline (`GoTypes`, `TypeRegistry`, `DynamicTypes`,
  `TypeInfo`, `Compilation`), with the theorems of `CompilationProofs`;
- the table theorems (`TableProofs`): `assertOk` and `method(t, m)` agree with
  Go for every type universe and every Keys order;
- the numeric branches of `Convert` (`Conversion`), checked against Go's
  conversion;
- `LangType` in both modes (`TypeLowering`), with termination under fairness, and the
  theorem that no call is re-entered on a ranked type graph (`TypeLoweringProofs`);
- the abstract registry (`RegistryAbstract`), with `TypeRegistry` proved to
  refine it (`RegistryProofs`);
- `TypeNamesResolve` as a theorem (`NameProofs`);
- the type correctness of `Convert` as a theorem (`ConversionProofs`).

Still to do, in order:
1. `ChangeType`, and the `TypeAssert` empty-register path (`types.go:389`).
   The second needs pogo's register naming, which is not under src/.
2. The String, Slice, Dynamic and `unsafe.Pointer` branches of `Convert`, and
   float32.

Runs stay small. About eight type objects cover every case: two identical
objects of uint8, one printed `uint8` and one `byte`, a named type with a method, two same-named local types, a native
Haxe class, and the two interface types. At most three ID-carrying
instructions are emitted. So every pair of kinds (box/assert, concrete/interface,
identical/distinct, same/different name) appears in some run.

## 3. Modules

| Module | Models | State ↔ code |
|--------|--------|--------------|
| `GoTypes` | go/types as the backend queries it | constants: `Types` (type objects), `Ident` (`types.Identical`), `Assignable` (`types.AssignableTo`), `InterfaceTypes`, `Str` (`String()`), `Methods` (`types.NewMethodSet`), `HaxePkgMethods` (methods declared in a `_` package), `HaxeNames` (`getHaxeClass(name) != ""`). Assumptions: `Ident` is an equivalence, it is contained in `Assignable`, and assignability, interface-ness and method sets respect identity. `String()` does not: identical types may print differently |
| `TypeRegistry` | `pogo.TypesEncountered`, `NextTypeID`, `LogTypeUse` (from spec section 3; the code is not under src/) | `registry = [id : key ↦ ID, next]`; `At`/`Has`/`KeyOf` look keys up modulo `Identical`, as `typeutil.Map` does |
| `DynamicTypes` | `MakeInterface`, `ChangeInterface`, `TypeAssert` | one action per handler. Each registers its types in the order the code calls `LogTypeUse`, and adds `[op, typ, id]` to `code`. `msTypes` is `TypesWithMethodSets` (the boxed types, spec 3) |
| `TypeInfo` | `EmitTypeInfo` and the emitted query functions | the Keys walk order is a bijection `order`. Each table is one operator: `TypesByID` (last write wins), `TypIDs` (deDup tag), `AssignableCases`, `IdenticalCases`, `ConcreteIDs`, `MethodCases`. The runtime side is `GetName`, `GetIds`, `MethodRT`, `IsIdenticalRT`, `IsAssignableToRT`, and `AssertOkRT` (`Interface.assertOk`, from spec 4.4) |
| `Compilation` | one run | `phase` is `"emit"` while any number (up to `MaxInstrs`) of handler steps run. The single `EmitTypeInfoStep` picks a walk order, sets `info` and moves to `"done"` |
| `MC_Compilation` | the TLC instance | see the module comment |
| `RegistryAbstract` | what the registry promises (spec section 3) | `ids[t]` is the ID of `t` (0 while its class is unmet) and `nextID` the next one. `Encounter(t1, t2)` registers the classes of two types in order, because `ChangeInterface` logs two types. `Compilation` maps `registry` onto it (`AbsReg`, `RegistryRefines`) |
| `CompilationProofs` | the registry theorems | |
| `TableProofs` | the table theorems | see section 5 |
| `RegistryProofs` | the refinement proof | see section 5 |
| `NameProofs` | the `getId`/`getName` theorem | see section 5 |
| `ConversionProofs` | the type correctness of `Convert` | see section 5 |
| `Conversion` | the numeric branches of `Convert` (types.go 194-296), with the numeric kinds of `LangType` | `typ` is the Go type of the register, `hx` the value the emitted Haxe code leaves in it, and `go` (a ghost) the value Go gives. `ConvertStep(d)` is one `Convert` instruction to type `d`. `ToInt`, `ToGOint64` and `ToFloat` are the three `case` arms. The runtime calls (`GOint64.ofInt`, `make`, `toFloat`, `Math.floor`) and `intTypeCoersion` are modelled from spec 4.3. Widths are scaled down (Int has `Bits32` bits, GOint64 has twice that). Floats are integers counting halves, which is enough to tell truncation from rounding |
| `MC_Conversion` | the TLC instances | the type sets of each run, and float constants just past the scaled 64-bit range |
| `TypeLowering` | `LangType(t, retInitVal)` (types.go 17-191) | `stack` holds the active calls, innermost last. Each frame is `[t, init, res]`, where `res` holds the results of the calls it has made. `LangTypeCalls` lists the recursive calls each case makes, and `LangTypeResult` builds the text from their results. `Call` pushes the next call. `ReturnToCaller` and `ReturnToDriver` pop the innermost one. A stack deeper than `MaxStack` is a goroutine stack overflow: no step is left |
| `TypeLoweringProofs` | the lowering theorem | see section 5 |
| `MC_TypeLowering` | a type graph | basic types, named types with and without a Haxe class, a struct, `type Tree map[string]*Tree` (a cycle through a pointer), a map, a chan, a tuple, and the cycles `type M map[string]M` and `type C chan C`. The `ASSUME MCCyclesThroughIndirections` checks that the graph of the passing run meets the hypothesis of `LoweringNeverRepeats` |

The emitted Haxe text is abstracted to what the generated program reads: the
entry point and the type ID. Haxe formatting, `Force.toHaxeParam` wrapping and
`haxeStringConst` are left out.

## 4. Runs

| Run | Expect | What it shows |
|-----|--------|---------------|
| `core` (`MC_Compilation.cfg`) | pass, 145,196 states | For every interleaving of up to three handler calls and every Keys order: printed IDs stay current, `assertOk` answers as Go does, `getName` of a box answers the `String()` of its registered key (so a `byte` boxed after a `uint8` reports `uint8`) and `getId` resolves that name to exactly one ID (`TypeNamesResolve`), and `method(t, m)` answers exactly the wrappers named by the identical method-set types when Go has the method (`MethodDispatchSound`). The registry implements the abstract registry of `RegistryAbstract` (`RegistryRefines`). |
| `name_dedup` (`MC_NameDedup.cfg`) | violation | Two same-named local types are boxed. When `Keys()` lists the later one first, `getId("main.T")` answers the later ID. Which ID the name resolves to depends on hash-map order, not on registration (spec 4.5 and 8 say "first"). |
| `dispatch_targets` (`MC_DispatchTargets.cfg`) | violation | Those two types both get `String` by embedding. `method(id, "String")` sends both to `Go_<LangName("main.T","String")>`. `FuncPathName`'s "unique" name is not unique for same-named local types. |

| `conv_core` (`MC_Conversion.cfg`) | pass, 1,565 states | Chains of conversions among int32, int64, uint64 and float64 keep the Haxe value equal to Go's (`ValueCorrect`). Over every 32-bit and 64-bit value, and float constants in and past range, the register stays in its Haxe type's range (`TypeOK`). |
| `conv_narrowing` (`MC_ConvNarrowing.cfg`) | violation | `types.go:196`: source and destination both lower to `Int`, so the conversion is a plain copy. `int8(int32(x))` or `uint8(int8(-2))` keeps a value outside the destination type. |
| `conv_unsigned_widen` (`MC_ConvUnsignedWiden.cfg`) | violation | `types.go:274`: `GOint64.ofInt` sign-extends a uint32 at or above 2^31, so `uint64(uint32(x))` is wrong. |
| `conv_float_range` (`MC_ConvFloatRange.cfg`) | violation | `types.go:266`: a float64 outside the Int range goes through `Math.floor`/`ceil`, whose result Haxe leaves unspecified. Go truncates and then wraps. |
| `lowering_terminates` (`MC_TypeLowering.cfg`) | pass, 141 states | `LangType` returns for every root type and both modes, including `type Tree map[string]*Tree`, whose cycle the pointer case cuts (`Terminates`). No call is re-entered with the arguments of a call still on the stack (`NoRepeatedCall`, spec 4.2). |
| `lowering_cycle` (`MC_LoweringCycle.cfg`) | violation | `types.go:91-98`: the map and chan cases recurse into their element, so `type M map[string]M` (zero value) and `type C chan C` never return. The stack grows until `MaxStack`, and the compiler overflows its stack. |

`CHECK_DEADLOCK FALSE`: a compilation ends after `EmitTypeInfo`. The final
state is the real end of the run, not a deadlock.

`Compilation` and `Conversion` assume no fairness. Compilation is a terminating
sequential pass, and the conversion runs only check safety. `TypeLowering`
assumes `WF_vars(Next)`. `LangType` is sequential code, so while a call is
active its next statement runs. `Terminates == <>(stack = << >>)` is then the
claim that every call returns. Its runs also set `CHECK_DEADLOCK FALSE`: the
empty stack is the real end, and so is an overflowing stack in the cyclic
run.

`Conversion` bounds: `Bits8 = 2`, `Bits16 = 3`, `Bits32 = 4`, so Int has 16
values and GOint64 has 256. Every value of every type is an initial state, and
the float constants run from -(2^9+6) to 2^9+6 halves, past the signed 64-bit
range. Narrowing, sign changes, the 2^31 boundary (here 2^3) and out-of-range
floats are therefore all reached. No behaviour depends on the real widths
beyond the ratios kept here.

Every property of the passing runs has a mutant, a plausible bug, that TLC finds:
- IDs counted from 0;
- `LogTypeUse` not counting `NextTypeID` up (`RegistryRefines`);
- the box's ID read before `LogTypeUse` registers the type;
- `isConcrete` true for interfaces;
- no deDup;
- Haxe-package methods not skipped;
- `ofInt` replaced by plain assignment (`TypeOK` of `conv_core`);
- a GOint64 read with the destination's signedness (`ValueCorrect`);
- the pointer case recursing into its element (`Terminates`, `NoRepeatedCall`).

## 5. Proofs (checked by tlapm)

The assumptions are those of `GoTypes` (`IdentEquivalence`,
`TypeQueriesRespectIdentity`) and `MaxInstrsAssumption`. Apart from these, the
theorems hold for every type universe, every bound and every Keys order.

- `TypeCorrect: Spec => []TypeOK`.
- `IDsStayCurrent: Spec => []EmittedIDsCurrent`. The invariant is not inductive
  alone: a new key could be identical to a stored one and take over its
  lookups. It is strengthened to
  `IInv == TypeOK /\ KeysDistinct(registry) /\ EmittedIDsCurrent`, which says the
  map holds one key per identity class. The supporting lemmas are:
  - `LogTypeUseStable`: a call keeps the keys distinct and every registered
    type's ID;
  - `KeyOfUnique`: the lookup finds the one identical key;
  - `LogTypeUseKeepsCode`.

`TableProofs` proves the table half:
- `AssertsAnsweredAsGo: Spec => []AssertAgreesWithGo`;
- `MethodsDispatchedAsGo: Spec => []MethodDispatchSound`.

Both rest on one inductive invariant, `TInv`. It is `IInv` plus:
- `IdsBelowNext` and `IdsInjective`: IDs are below the counter and distinct
  types in the map have distinct IDs;
- `BoxesListed`: every boxed type has an identical type in `msTypes`;
- `MsRegistered`: every `msTypes` entry is registered;
- `InfoEmitted`: once emitted, `info` is `EmitTypeInfo` over the final registry
  for some Keys order.

The lemmas:
- `NextTInv`: every handler step and `EmitTypeInfoStep` keep `TInv`;
- `SameIdIffIdentical`: two registered types share an ID exactly when they are
  identical;
- `AssertTable`: `AssertOkRT` over the emitted tables answers as
  `GoAssertOk`;
- `MethodTable`: `MethodRT` answers with the wrapper of the dynamic type's
  method.

TLC checked `TInv` as an invariant of the `core` instance before it was proved.

`RegistryProofs` proves `RegistryRefinement: Spec => RegistryRefines`. The
registry implements `RegistryAbstract` under the mapping
`ids[t] = At(registry, t)`, `nextID = registry.next`. The argument:
- `InitRefines`: the empty map is the abstract initial state;
- `AbsLogTypeUse`: on a map with one key per identity class (`KeysDistinct`,
  from `IInv`), `LogTypeUse(t)` changes the answer of `At` only when no type
  identical to `t` is registered. It then gives exactly the types identical to
  `t` the old `NextTypeID`. That is the abstract `RegisterClass(t)`;
- `NextRefines`: each handler's one or two `LogTypeUse` calls are one
  `Encounter`. `MakeInterface` and `TypeAssert` log one type, and logging it
  twice changes nothing (`LogTypeUseIdempotent`). `EmitTypeInfoStep` leaves the
  registry alone, so it is a stutter.

`NameProofs` proves `TypeNamesAlwaysResolve: Spec => []TypeNamesResolve`, for
every Keys order. Which ID a name resolves to depends on that order, and the
`name_dedup` run shows this. But there is always exactly one, and `getName`
gives the name back. It follows from `TInv`:
- `OrderOnto`: a walk order, an injection from `0..n-1` into the `n` keys, hits
  every key (`FS_Injection`);
- `LeastPosition`: the first position at which a name occurs exists
  (`WFMin` over `NatLessThanWellFounded`). That occurrence is untagged, and
  every later one is tagged (`GetIdsOfName`);
- `TypIDsKeysDistinct`: the deDup makes the map-literal keys distinct.

`ConversionProofs` proves `ConversionTypeCorrect: Spec => []TypeOK` for
`Conversion`. It holds for every set of numeric types and float constants, and
for every value the runtime may return where Haxe leaves the result open. It is
inductive as it stands. Each branch of `Convert` either reduces modulo `2^w`,
or chooses from the destination's range, or doubles an integer
(`ConvertResultsType`). The provers know no facts about `^` with a symbolic
exponent. Z3 evaluates `2^32` but not `2^63` or `2^64`. So the proof uses
`PowerAssumption` in `Conversion`: `2^w = 2 * 2^(w-1)` with `2^(w-1)` a
positive natural, for the four widths. This is true of every positive width,
so it restricts no instance, and TLC evaluates it on every run.

`TypeLoweringProofs` proves `LoweringNeverRepeats`:
`Spec => [](NoRepeatedCall /\ StackWithinBound)`. It holds for every type
graph whose cycles all pass through a pointer, a slice or a signature. That
hypothesis, `CyclesThroughIndirections(T, rank)` in `TypeLowering`, is about
the type graph alone: `T` is a set of types containing the roots, and `rank`
maps it to `Nat`. Every component (`Components`: the underlying type of a
named type, the element of a chan, slice, array or pointer, the key and
element of a map, the elements of a tuple) of a type in `T` that is not a
pointer, slice or signature is again in `T` with a lower rank. The struct
case (`types.go:146`) never recurses, so a struct is a leaf. Whether the
lowering respects this graph is what the proof establishes, from the code's
cases:
- `CallsDescend`: a case analysis of `LangTypeCalls`. Every call the named,
  chan, map and tuple cases make is to a component of a non-indirection type,
  so it has a lower rank. The pointer, slice and signature cases make no call.
  A pointer case that recursed into its element, as the comment at
  `types.go:168` warns against, would break this lemma;
- `GraphRanksCalls`: so `RankedCalls(T \X BOOLEAN, rank of the type)` holds:
  every call made from a pair of the set is in the set and has a lower rank.

`type M map[string]M` has no such rank, and `lowering_cycle` shows that it
overflows. The hypothesis is not vacuous: `MC_TypeLowering` computes, for the
graph of `lowering_terminates`, the types reachable from the roots and the
depth of each along non-indirection edges, and its `ASSUME
MCCyclesThroughIndirections` (evaluated by TLC on every run of the module)
states that they satisfy it. `Tree = map[string]*Tree` is in that graph.

`NoRepeatedCall` is not inductive alone, because a `Call` could push a call
that is already deeper in the stack. The inductive invariant is `LInv`:
- every frame is a frame (`IsFrame`) whose call is in `S`;
- the ranks of the frames strictly decrease from the outermost call to the
  innermost.

The lemmas:
- `CallLInv`: the pushed call has a lower rank than the top frame;
- `ReturnToCallerLInv`: popping and appending the result to the caller's
  `res` leaves the other frames' calls alone;
- `LInvNoRepeat`: distinct ranks mean distinct calls;
- `NoRepeatBound`: the calls are pairwise distinct members of
  `Ty \X BOOLEAN`, so by `FS_PigeonHole` and `FS_Product` there are at most
  `2 * Cardinality(Ty)` of them, below `MaxStack`.

TLC checks `NoRepeatedCall` on `lowering_terminates`.

These stay with TLC:
- `ValueCorrect` (`conv_core`). The proof would need `(v + N*N) % N = v % N`
  for a symbolic `N = 2^Bits32`: GOint64 to Int keeps the low word. The
  provers fail on this, and on `v = (v \div N) * N + v % N`, for a symbolic
  divisor. The only mod facts they prove here are the in-range identity and a
  single shift by the modulus;
- `Terminates` (liveness; `ENABLED` and fairness are out of the prover's
  reach);
- anything that needs induction over data.

## 6. Not modelled, and why

- Backend registration (`LanguageList`, `FindTargetLang`): a slice append run
  from sequential `init`. No property is at stake beyond "first match".
- `emitComment`, `isDupPkg`, `loadStoreSuffix`, `fixKeyWds`,
  `TypeStart`/`TypeEnd`: text formatting only.
- `Convert` to or from String, Slice, Dynamic and `unsafe.Pointer`, and
  float32 (with float precision in general). Floats are exact halves.
- `ChangeType`: it does not touch the registry and only copies the value.
- The `TypeAssert` empty-register path (`types.go:389`). Whether the driver
  passes an empty register for an assertion that can fail is decided in pogo,
  which is not in this repository.
- `preprocessTypeName` and `haxeStringConst`: names are modelled as the
  escaped strings. The escaping maps both `"` and `\"` to `\"`, which is noted
  as a hazard.
- Sizes and alignment (`haxeStdSizes`): these come from an external sizes
  table.
- The driver, file output and the Haxe runtime library, except
  `Interface.assertOk`.
