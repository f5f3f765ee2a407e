----------------------------- MODULE MCSettings -----------------------------
(* Model checking instance of Settings. *)
EXTENDS Settings

CONSTANTS s1, s2

MCAddresses == {s1, s2}

\* An empty file, a file with both addresses, a file with the longest host,
\* and files that are refused: zero backlog, a port past 16 bits, a bad
\* address, an unknown key.
MCContents ==
    {Empty,
     Profile :> <<"string", "default">> @@ Explicit :> <<"address", s2, "lower">>
       @@ Learned :> <<"address", s1, "lower">>,
     Host :> <<"string", "a.name.of.16.ch">>,
     Backlog :> <<"integer", 0>>,
     Port :> <<"integer", 4>>,
     Explicit :> <<"string", "no address">>,
     "report.other" :> <<"integer", 1>>}

\* An environment that sets nothing, one that sets (and wraps) a few settings,
\* and refused ones: a zero period, a host that is too long, a negative port
\* that wraps out of range, a number that is empty, an unknown profile.
MCEnvs ==
    {Empty,
     Period :> <<"number", -1>> @@ Host :> <<"text", "">>
       @@ Port :> <<"number", 3>> @@ Profile :> <<"text", "">>,
     Period :> <<"number", 0>>,
     Host :> <<"text", "a.name.of.16.chr">>,
     Port :> <<"number", -1>>,
     Backlog :> <<"text", "">>,
     Profile :> <<"text", "other">>}

Separate(name) == [text |-> name, option |-> name, form |-> "separate", value |-> ""]
Equals(name, text) == [text |-> name, option |-> name, form |-> "equals", value |-> text]
Word(text) == [text |-> text, option |-> text, form |-> "separate", value |-> ""]

MCArgvs ==
    {<<>>,
     <<Separate("--config"), Word("config.toml")>>,
     <<Equals("--backend", "noop"), Equals("--config", "config.toml")>>,
     <<Separate("--config"), Word("config.toml"), Separate("--adapter-location"),
       Word("libusb:1:2.3")>>,
     <<Separate("--adapter-location"), Word("libusb:1:0")>>,
     <<Separate("--adapter-location"), Word("libusb:1:2.")>>,
     <<Equals("--adapter-location", "winusb:")>>,
     <<Separate("--config")>>,
     <<Equals("--config", "")>>,
     <<Equals("--backend", "other")>>,
     <<Separate("--backend"), Separate("--config")>>,
     <<Word("run")>>,
     <<Word("help")>>,
     <<Word("adapters")>>,
     <<Word("adapters"), Word("all")>>,
     <<Word("config"), Separate("--config"), Word("config.toml")>>}

MCLexemes ==
    LET usb(bus, ports, rest) ==
          [prefix |-> "libusb:", path |-> "", bus |-> bus, ports |-> ports, rest |-> rest]
    IN "libusb:1:2.3" :> usb(1, <<2, 3>>, "") @@ "libusb:1:0" :> usb(1, <<0>>, "")
       @@ "libusb:1:2." :> usb(1, <<2>>, ".")
       @@ "winusb:" :> [prefix |-> "winusb:", path |-> "", bus |-> 0,
                        ports |-> <<>>, rest |-> ""]

ASSUME OptionsAreValid
=============================================================================
