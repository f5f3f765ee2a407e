-------------------------- MODULE MCOutputReports ---------------------------
(* Model checking instance of OutputReports. *)
EXTENDS OutputReports

MCNeutralState ==
    [buttons |-> 0, lx |-> 2048, ly |-> 2048, rx |-> 2048, ry |-> 2048,
     imu |-> <<0, 0, 0, 0, 0, 0>>]

\* Every button, sticks at and beyond their ends, IMU values of both signs.
MCStates ==
    {MCNeutralState,
     [buttons |-> 16728063, lx |-> 4095, ly |-> 0, rx |-> 1, ry |-> 5000,
      imu |-> <<-32768, 32767, -1, 1, 256, -256>>]}

Data(size, rumble, id, args) ==
    [type |-> "output", report_id |-> 1, first |-> 0, size |-> size,
     rumble |-> rumble, subcommand_id |-> id, args |-> args]

Subcommand(id, args) == Data(10 + Len(args), "strong", id, args)

\* The bytes the seed leaves in the flash, at every address that can be read.
ASSUME SpiIsSeeded

\* One report per branch: every subcommand group, a refused one of each kind,
\* a rumble only SET_REPORT, and reports that do not parse. The flash reads
\* cross two fields, the end of the storage and the end of the flash.
MCReports ==
    {Subcommand(DeviceInfo, <<>>), Subcommand(TriggerButtonsElapsed, <<>>),
     Subcommand(SetMcuConfig, <<>>), Subcommand(3, <<48>>),
     Subcommand(SpiFlashRead, <<61, 96, 0, 0, 18>>),
     Subcommand(SpiFlashRead, <<254, 255, 0, 0, 3>>),
     Subcommand(SpiFlashRead, <<227, 255, 7, 0, 29>>),
     Subcommand(SpiFlashRead, <<228, 255, 7, 0, 29>>),
     Subcommand(SpiFlashRead, <<0, 96, 0, 0, 30>>),
     Subcommand(SpiFlashRead, <<0, 96>>),
     Subcommand(SetPlayerLights, <<83>>), Subcommand(SetPlayerLights, <<>>),
     Subcommand(GetPlayerLights, <<>>), Subcommand(80, <<>>),
     [Data(10, "weak", 0, <<>>) EXCEPT !.report_id = 0, !.first = RumbleOnly],
     [Data(9, "weak", 0, <<>>) EXCEPT !.report_id = 0, !.first = RumbleOnly],
     [Data(11, "weak", 3, <<>>) EXCEPT !.type = "feature"],
     [Data(64, "weak", 3, Zeros(54)) EXCEPT !.report_id = 1],
     [Data(11, "weak", 3, <<>>) EXCEPT !.report_id = 256],
     [Data(10, "weak", 3, <<>>) EXCEPT !.report_id = 3]}
=============================================================================
