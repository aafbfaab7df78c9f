----------------------------- MODULE StrategyText -----------------------------
(***************************************************************************)
(* How the arguments of a strategy become those of nfqws2 (strategy.py),   *)
(* and which arguments of blockcheckw are let into the catalogue.  A text  *)
(* is a sequence of options; an option has a name and a sequence of values *)
(* (the parts of a list).  A state is an entry of the catalogue that       *)
(* somebody has written option by option.                                  *)
(***************************************************************************)
EXTENDS Lists, SequencesExt

CONSTANTS
    Options,    \* the options that texts are made of
    Payloads,   \* values of no_reasm_payloads
    MaxLength   \* bound: options of a text

VARIABLES
    text,       \* lua_opt, or nfqws_opt if there is none
    protocol,   \* what it was found or imported for; maybe nothing
    noReasm     \* the payloads that are not to be reassembled

textVars == <<text, protocol, noReasm>>

\* A value is a list: split(",") has made one of it.
Values == UNION {ToSet(option.val) : option \in Options}
WellFormed ==
    /\ \A option \in Options : option.val \in Seq(Values)
    /\ \A payloads \in Payloads : payloads \in Seq(ToSet(payloads))

ASSUME TextAssumption == WellFormed

Opt(name, val) == [name |-> name, val |-> val]

Has(args, names) == \E i \in DOMAIN args : args[i].name \in names
Only(args, names) == Where(args, {o \in ToSet(args) : o.name \in names})
Except(args, names) == Where(args, {o \in ToSet(args) : o.name \notin names})

FilterNames == {"--filter-tcp", "--filter-udp"}
NativeNames == {"--lua-desync", "--payload"}
LegacyNames ==
    {"--dpi-desync", "--dpi-desync-split-pos", "--dpi-desync-repeats", "--dpi-desync-fooling"}
Unsupported == {"--dpi-desync-ttl"}     \* and all others that begin so
AllLegacy == LegacyNames \cup Unsupported

----------------------------------------------------------------------------
(* native_options                                                          *)

FilterOf(p) ==
    CASE p = "QUIC" -> Opt("--filter-udp", <<"443">>)
      [] p = "HTTP" -> Opt("--filter-tcp", <<"80">>)
      [] OTHER      -> Opt("--filter-tcp", <<"443">>)

\* A native text, or one without any desync, only gets a filter if it has none.
\* (Native_Filtered: also if it has one.)
Native_Filtered(args, p) == IF p = "" THEN args ELSE <<FilterOf(p)>> \o args
Native(args, p) ==
    IF p = "" \/ Has(args, FilterNames) THEN args ELSE <<FilterOf(p)>> \o args

IsLegacy(args) == Has(args, AllLegacy) /\ ~Has(args, NativeNames)

Profiles(args) ==
    LET parts[k \in 0..Len(args)] ==
            IF k = 0 THEN << <<>> >>
            ELSE LET ps == parts[k - 1] IN
                 IF args[k].name = "--new" THEN Append(ps, <<>>)
                 ELSE [ps EXCEPT ![Len(ps)] = Append(@, args[k])]
    IN  parts[Len(args)]

\* Profiles of nothing but desync are dropped.
Kept(args) == Where(Profiles(args), {p \in ToSet(Profiles(args)) : Except(p, AllLegacy) # <<>>})

\* The value of the last option of a name counts.
LastVal(profile, name, default) ==
    LET all == Only(profile, {name}) IN IF all = <<>> THEN default ELSE Last(all).val

Modes(profile) ==
    FlattenSeq([i \in DOMAIN Only(profile, {"--dpi-desync"}) |-> Only(profile, {"--dpi-desync"})[i].val])

Renamed(mode) ==
    CASE mode = "split" -> "multisplit" [] mode = "disorder" -> "multidisorder" [] OTHER -> mode

FakeModes == {"fake", "fakedsplit"}
KnownModes == FakeModes \cup {"multisplit", "multidisorder"}
KnownFooling == <<"md5sig", "badseq", "ts">>

PayloadOf(profile) ==
    CASE Has(profile, {"--filter-udp"}) -> "quic_initial"
      [] Contains(profile, Opt("--filter-tcp", <<"80">>)) -> "http_req"
      [] OTHER -> "tls_client_hello"

\* One function of the Lua library, with its parameters.
Function(profile, mode) ==
    LET pos == LastVal(profile, "--dpi-desync-split-pos", <<"2">>)
        repeats == LastVal(profile, "--dpi-desync-repeats", <<"1">>)
        fooling == LastVal(profile, "--dpi-desync-fooling", <<>>)
    IN  Opt("--lua-desync",
            <<mode>> \o
            IF mode \in FakeModes
            THEN repeats \o (IF mode = "fake" THEN <<PayloadOf(profile)>> ELSE <<Last(pos)>>)
                         \o Where(KnownFooling, ToSet(fooling))
            ELSE pos)

\* What makes native_options raise.
RaisesFor(profile) ==
    \/ Has(profile, Unsupported)
    \/ \E mode \in {Renamed(m) : m \in ToSet(Modes(profile))} :
          \/ mode \notin KnownModes
          \/ mode \in FakeModes
             /\ ~ ToSet(LastVal(profile, "--dpi-desync-fooling", <<>>)) \subseteq ToSet(KnownFooling)

ToNative(profile) ==
    Except(profile, AllLegacy) \o <<Opt("--payload", <<PayloadOf(profile)>>)>>
        \o [i \in DOMAIN Modes(profile) |-> Function(profile, Renamed(Modes(profile)[i]))]

\* (Joined_Flat: without the option between them.)
Joined_Flat(profiles) == FlattenSeq(profiles)
Joined(profiles) ==
    LET all[k \in 0..Len(profiles)] ==
            IF k = 0 THEN <<>>
            ELSE LET args == all[k - 1] IN
                 IF args = <<>> THEN profiles[k]
                 ELSE args \o <<Opt("--new", <<>>)>> \o profiles[k]
    IN  all[Len(profiles)]

NativeOptions(args, p) ==
    IF args = <<>> THEN <<>>
    ELSE IF IsLegacy(args)
         THEN Joined([i \in DOMAIN Kept(args) |-> ToNative(Kept(args)[i])])
         ELSE Native(args, p)

----------------------------------------------------------------------------
(* strategy_args                                                           *)

\* What would take the engine's queue or identity away; "" is no option.
Forbidden ==
    {"", "--qnum", "--fwmark", "--daemon", "--pidfile", "--intercept", "--dry-run", "--version",
     "--chdir"}

Raises(args, p) ==
    \/ IsLegacy(args) /\ \E i \in DOMAIN Kept(args) : RaisesFor(Kept(args)[i])
    \/ Has(NativeOptions(args, p), Forbidden)

Disabled(args, payloads) ==
    IF payloads = <<>> THEN args
    ELSE Except(args, {"--reasm-disable"})
             \o [i \in DOMAIN payloads |-> Opt("--reasm-disable", <<payloads[i]>>)]

StrategyArgs(args, p, payloads) == Disabled(NativeOptions(args, p), payloads)

----------------------------------------------------------------------------
(* validate_args: its list of forbidden options is one of its own          *)

\* (ForbiddenArgs_Few: an option that is missing in it.)
ForbiddenArgs_Few == {"", "--fwmark", "--daemon", "--user", "--lua-init"}
ForbiddenArgs ==
    {"", "--qnum", "--fwmark", "--daemon", "--pidfile", "--intercept", "--dry-run", "--version",
     "--chdir", "--uid", "--user", "--lua-init", "--writable"}

Validated(args) == args # <<>> /\ ~Has(args, ForbiddenArgs)

----------------------------------------------------------------------------

TextInit ==
    /\ text = <<>>
    /\ protocol \in {"", "HTTP", "TLS", "QUIC"}
    /\ noReasm \in Payloads

Write(option) ==
    /\ Len(text) < MaxLength
    /\ text' = Append(text, option)
    /\ UNCHANGED <<protocol, noReasm>>

TextNext == \E option \in Options : Write(option)

TextSpec == TextInit /\ [][TextNext]_textVars

----------------------------------------------------------------------------
(* Properties                                                              *)

Args == StrategyArgs(text, protocol, noReasm)
Rendered == ~Raises(text, protocol)

\* What is rendered is native: rendering it once more changes nothing, so that
\* a text is not taken apart again when it is stored and applied.  (A legacy text
\* without a filter gets none, and would get one the second time.)
RenderedIsNative ==
    Rendered /\ text # <<>> /\ (IsLegacy(text) => Has(text, FilterNames)) =>
        StrategyArgs(Args, protocol, noReasm) = Args

\* Each profile of a legacy text that is kept becomes one of the engine, with its
\* own filters, one payload and one function for each of its modes, in order.
ProfilesKept ==
    IsLegacy(text) /\ Rendered =>
        LET in == Kept(text)
            out == Profiles(NativeOptions(text, protocol))
        IN  in # <<>> =>
            /\ Len(out) = Len(in)
            /\ \A i \in DOMAIN in :
                  /\ Except(out[i], NativeNames) = Except(in[i], AllLegacy)
                  /\ Len(Only(out[i], {"--payload"})) = 1
                  /\ LET functions == Only(out[i], {"--lua-desync"})
                     IN  [k \in DOMAIN functions |-> functions[k].val[1]] =
                         [k \in DOMAIN Modes(in[i]) |-> Renamed(Modes(in[i])[k])]

\* What validate_args lets into the catalogue can be applied: strategy.py renders
\* it, if it is native as blockcheckw's arguments are.
ValidatedRenders == Validated(text) /\ ~IsLegacy(text) => Rendered
=============================================================================
