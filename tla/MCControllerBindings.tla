------------------------ MODULE MCControllerBindings ------------------------
(* Instances of ControllerBindings for TLC. *)
EXTENDS ControllerBindings

AllOptions == SwapOptions \cup {"targetMode", "controllerEnabled", "uiEnabled", "bind"}
LayoutOptions == {"swapAB", "targetMode", "uiEnabled"}
=============================================================================
