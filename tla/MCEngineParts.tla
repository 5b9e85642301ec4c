---------------------------- MODULE MCEngineParts ----------------------------
\* The engine's parts that share no state with the streams' life: the key stream
\* of the pictures, the client's clock, messages, the texts of playlists, the
\* recorder and the renderers' pipelines.  Each is checked alone: one of them
\* runs and the others stay as they began.
EXTENDS MirrorBuffer, MCClock, MCHttpMessage, MCPlaylistText, Recorder, Pipelines

VARIABLE runs     \* the one that runs

partVars == <<runs, vars, clockVars, messageVars, playlistVars, recorderVars, pipelineVars>>

PartsInit ==
    /\ runs \in {"keystream", "clock", "messages", "playlists", "recorder", "pipelines"}
    /\ Init /\ ClockInit /\ MessageInit /\ RecorderInit
    /\ PlaylistInit /\ (runs # "playlists" => lang = <<>>)
    /\ PipelinesInit
    /\ runs # "pipelines" => h265_support /\ render_coverart /\ nofreeze /\ nc

PartsNext ==
    /\ UNCHANGED runs
    /\ \/ /\ runs = "keystream" /\ Next
          /\ UNCHANGED <<clockVars, messageVars, playlistVars, recorderVars, pipelineVars>>
       \/ /\ runs = "clock" /\ ClockNext
          /\ UNCHANGED <<vars, messageVars, playlistVars, recorderVars, pipelineVars>>
       \/ /\ runs = "messages" /\ MessageNext
          /\ UNCHANGED <<vars, clockVars, playlistVars, recorderVars, pipelineVars>>
       \/ /\ runs = "playlists" /\ PlaylistNext
          /\ UNCHANGED <<vars, clockVars, messageVars, recorderVars, pipelineVars>>
       \/ /\ runs = "recorder" /\ RecorderNext
          /\ UNCHANGED <<vars, clockVars, messageVars, playlistVars, pipelineVars>>
       \/ /\ runs = "pipelines" /\ PipelinesNext
          /\ UNCHANGED <<vars, clockVars, messageVars, playlistVars, recorderVars>>

PartsSpec == PartsInit /\ [][PartsNext]_partVars

=============================================================================
