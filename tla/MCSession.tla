------------------------------ MODULE MCSession ------------------------------
(* Session for TLC: debug clients, and a client with lines of its own.     *)
EXTENDS Session

MCNeutral ==
    [buttons |-> {}, lx |-> 2, ly |-> 2, rx |-> 2, ry |-> 2,
     accel_x |-> 0, accel_y |-> 0, accel_z |-> 0, gyro_x |-> 0, gyro_y |-> 0, gyro_z |-> 0]

Pressed == [MCNeutral EXCEPT !.buttons = {"a"}, !.gyro_z = -4]
Tilted == [MCNeutral EXCEPT !.lx = 3]

\* Every state the command lines and the lines below can lead to.
MCStates == {MCNeutral, Pressed, Tilted}

\* Press a and hold; tilt the stick and leave without a release; a sequence
\* number beyond INT64_MAX; no port, and a macro argument.
MCArgvs ==
    { << Word("--port"), NumberWord(1), Word("--button"), Word("a"),
         Word("--gyro-z"), NumberWord(-4), Word("--seq"), NumberWord(1) >>,
      << Word("--port"), NumberWord(1), Word("--buttons"), BitsWord({"b"}),
         Word("--neutral"), Word("--lx"), NumberWord(3), Word("--hold-ms"), NumberWord(2),
         Word("--skip-release") >>,
      << Word("--port"), NumberWord(1), Word("--seq"), NumberWord(6) >>,
      << Word("--lx"), NumberWord(1), Word("--tap") >> }

Line_(fields) == [complete |-> TRUE, fields |-> <<Field("v", Number(1))>> \o fields]

SetStateLine(fields, state) ==
    Line_(<<Field("type", Text("set_state"))>> \o fields
          \o <<Field("owner_id", format_owner_id(1)), Field("state", Object(state))>>)

PlainLines ==
    { Line_(<<Field("type", Text("acquire"))>>),
      Line_(<<Field("note", Text("x")), Field("type", Text("release")),
              Field("owner_id", format_owner_id(1))>>),
      SetStateLine(<<Field("seq", Number(2))>>, state_fields(Tilted)),
      SetStateLine(<<>>, <<Field("seq", Number(3))>> \o state_fields(Pressed)),
      SetStateLine(<<>>, state_fields([Tilted EXCEPT !.lx = 4])) }

RefusedLines ==
    { [complete |-> FALSE, fields |-> <<>>],
      Line_(<<Field("request_id", Unread("unreadable")), Field("type", Text("acquire"))>>),
      [complete |-> TRUE, fields |-> <<Field("v", Number(2)), Field("type", Text("acquire"))>>],
      Line_(<<Field("type", Number(1))>>),
      Line_(<<Field("type", Text("reset"))>>),
      Line_(<<Field("type", Text("release")), Field("owner_id", Text("nobody"))>>),
      SetStateLine(<<Field("seq", Number(-1))>>, state_fields(Tilted)) }

\* client_name in front of the command, with an escape in it.
EscapedLines ==
    { Line_(<<Field("client_name", Unread("escaped")), Field("type", Text("hello"))>>) }

MCLines == PlainLines \cup RefusedLines
=============================================================================
