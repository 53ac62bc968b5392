---------------------------- MODULE MCGpuEngine ----------------------------
EXTENDS GpuEngine
=============================================================================
