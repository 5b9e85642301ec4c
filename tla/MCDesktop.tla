------------------------------ MODULE MCDesktop ------------------------------
\* The parts around the engine: the update checker, the settings and the command
\* line made of them, the Bluetooth beacon, the services Bonjour announces, and the
\* shape of the mirror window.
\* They share no state, so each is checked alone: one of them runs and the others
\* stay as they began.
EXTENDS UpdateChecker, Beacon, MCSettings, MCMirrorShape, Advertisement

\* No access control, a PIN and a password; with and without a beacon.
SampleModes == {[hls |-> FALSE, hevc |-> FALSE, pin_pw |-> 0, ble |-> FALSE],
                [hls |-> TRUE, hevc |-> FALSE, pin_pw |-> 1, ble |-> FALSE],
                [hls |-> FALSE, hevc |-> TRUE, pin_pw |-> 2, ble |-> TRUE]}

VARIABLE runs     \* the one that runs

partVars == <<runs, updateVars, beaconVars, settingsVars, shapeVars, adVars>>

DesktopInit ==
    /\ runs \in {"updates", "beacon", "settings", "shape", "advertisement"}
    /\ UpdateInit /\ BeaconInit
    /\ SettingsInit /\ (runs # "settings" => file = CHOOSE f \in Files : "-pin" \in ToSet(f))
    /\ ShapeInit /\ (runs # "shape" => lockSetting /\ savedRect = <<>>)
    /\ AdInit /\ (runs # "advertisement" => bonjour = "running")

DesktopNext ==
    /\ UNCHANGED runs
    /\ \/ /\ runs = "updates" /\ UpdateNext
          /\ UNCHANGED <<beaconVars, settingsVars, shapeVars, adVars>>
       \/ /\ runs = "beacon" /\ BeaconNext
          /\ UNCHANGED <<updateVars, settingsVars, shapeVars, adVars>>
       \/ /\ runs = "settings" /\ SettingsNext
          /\ UNCHANGED <<updateVars, beaconVars, shapeVars, adVars>>
       \/ /\ runs = "shape" /\ ShapeNext
          /\ UNCHANGED <<updateVars, beaconVars, settingsVars, adVars>>
       \/ /\ runs = "advertisement" /\ AdNext
          /\ UNCHANGED <<updateVars, beaconVars, settingsVars, shapeVars>>

DesktopSpec == DesktopInit /\ [][DesktopNext]_partVars

=============================================================================
