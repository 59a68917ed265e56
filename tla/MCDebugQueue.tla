---------------------------- MODULE MCDebugQueue ----------------------------
EXTENDS DebugQueue

MCReceivers == <<"Upper", "Motion">>
MCThread == {"Upper", "Motion"}
MCBracketSize == [t \in MCThread |-> IF t = "Upper" THEN 1 ELSE 2]
MCMaxFrames == [t \in MCThread |-> IF t = "Upper" THEN 3 ELSE 1]
MCSize == [id \in {"idText", "idDrawingManager", "idStopwatch", "idAnnotation"} |->
             CASE id = "idStopwatch" -> 4 [] id = "idAnnotation" -> 3 [] OTHER -> 1]
MCOutputs ==
  [t \in MCThread |-> IF t = "Upper" THEN {"idText", "idStopwatch"}
                                     ELSE {"idDrawingManager", "idAnnotation"}]
=============================================================================
