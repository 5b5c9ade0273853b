---------------------------- MODULE MCGpuStrategy ----------------------------
(* Up to two layers a frame and three frames, every orientation of the panel, *)
(* two sizes of the framebuffer and two of the mixer, one of them of another  *)
(* shape.                                                                     *)
EXTENDS GpuStrategy

Orientations == [horizontal : BOOLEAN, vertical : BOOLEAN]

Mixers == {<<2, 4>>, <<4, 2>>}
Fbs    == {<<1, 2>>, <<2, 2>>}

=============================================================================
