------------------------ MODULE MCVideoCaptureWinRT -------------------------
(* Devices and capabilities for TLC.                                       *)
EXTENDS VideoCaptureWinRT

Format(type, size, fps) == [type |-> type, size |-> size, fps |-> fps]
Source(color, formats) == [color |-> color, formats |-> formats]

MCCapabilities ==
  {[type |-> "MJPG", size |-> 1, maxFPS |-> 30],
   [type |-> "NV12", size |-> 2, maxFPS |-> 30]}

\* A colour source with a format for each capability, behind formats that do
\* not match either.
Camera ==
  Source(TRUE, <<Format("RGB24", 1, 30), Format("NV12", 1, 60),
                 Format("MJPG", 1, 30), Format("YUY2", 2, 15)>>)
Depth == Source(FALSE, <<Format("D16", 1, 30)>>)
\* A colour source with a format for neither.
Photo == Source(TRUE, <<Format("NV12", 3, 30)>>)

\* Two devices all of whose colour sources have a matching format, and one
\* with a colour source that has none.
MCAnyDevices == {<<Depth, Camera>>, <<Depth>>, <<Photo, Camera>>}
=============================================================================
